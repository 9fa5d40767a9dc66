-------------------------- MODULE SupervisorProofs --------------------------
(***************************************************************************)
(* What Supervisor keeps for any number of services, stops and tokens:     *)
(* its types, that no new token escapes a supervisor, and that one command *)
(* after the other leaves the service whole or gone.                       *)
(***************************************************************************)
EXTENDS Supervisor, TLAPS

HbStep(i) == HbRegistered(i) \/ HbFails(i) \/ HbReported(i) \/ HbWakes(i) \/ HbStops(i)
SupStep(i) ==
    \/ wait_for_token(i) \/ Connected(i) \/ ConnectFails(i) \/ BusChanged(i) \/ StreamEnds(i)
    \/ SupWakes(i) \/ Refreshed(i) \/ RefreshFails(i) \/ SupStops(i) \/ close_all_sessions(i)

\* The actions by who takes them.
LEMMA NextByActor ==
    ASSUME Next
    PROVE  \/ BeginStop \/ StopStep
           \/ \E i \in Services : BeginStart(i) \/ StartStep(i) \/ HbStep(i) \/ SupStep(i)
                                  \/ TimerFires(i)
  BY DEF Next, Answered, Failed, TaskStep, HbStep, SupStep

-----------------------------------------------------------------------------
(* Types *)

HbStates == {"not", "register", "back off", "sleep", "report", "pause", "done"}
SupStates == {"not", "wait", "connect", "stream", "refresh",
              "refresh back off", "pause", "close", "done"}

CommandTypeOK ==
    /\ slot \in [Slots -> 0 .. MaxServices]
    /\ starting \in [Services -> {"not", "heartbeat", "signaling", "state", "rotation", "done"}]
    /\ stopping \in [at : Slots \cup {"not"}, joins : 0 .. MaxServices]
    /\ stops \in 0 .. MaxStops
    /\ told \in [Services -> [Joined -> {"no", "written", "dropped"}]]
TaskTypeOK ==
    /\ hb \in [Services -> HbStates] /\ sup \in [Services -> SupStates]
    /\ tok \in [Services -> 0 .. MaxTokens]
    /\ bus \in [Services -> 0 .. MaxTokens] /\ fresh \in [Services -> BOOLEAN]
    /\ timers \subseteq Services
    /\ issued \in 0 .. MaxTokens
    /\ \A i \in Services : sup[i] \in {"connect", "stream"} => tok[i] # 0

LEMMA TypeParts == TypeOK <=> CommandTypeOK /\ TaskTypeOK
  BY DEF TypeOK, CommandTypeOK, TaskTypeOK, HbStates, SupStates

LEMMA SlotFacts == "heartbeat" \in Slots /\ "signaling" \in Slots /\ "rotation" \in Slots
                   /\ "state" \in Slots /\ Joined \subseteq Slots
  BY DEF Slots, Joined

LEMMA SlotCases ==
    ASSUME NEW x \in Slots
    PROVE  x = "heartbeat" \/ x = "signaling" \/ x = "rotation" \/ x = "state"
  BY DEF Slots, Joined

LEMMA OccupyType ==
    ASSUME CommandTypeOK, NEW x \in Slots, NEW i \in Services, Occupy(x, i)
    PROVE  /\ slot' \in [Slots -> 0 .. MaxServices]
           /\ told' \in [Services -> [Joined -> {"no", "written", "dropped"}]]
<1>1. slot[x] \in 0 .. MaxServices /\ (slot[x] # 0 => slot[x] \in Services)
  BY SupervisorAssumption DEF CommandTypeOK, Services
<1>2. i \in 0 .. MaxServices
  BY SupervisorAssumption DEF Services
<1>3. CASE slot[x] = 0 \/ x \notin Joined
  BY <1>2, <1>3 DEF CommandTypeOK, Occupy
<1>4. CASE slot[x] # 0 /\ x \in Joined
  BY <1>1, <1>2, <1>4 DEF CommandTypeOK, Occupy
<1>5. QED
  BY <1>3, <1>4

LEMMA CommandType ==
    ASSUME TypeOK,
           \/ BeginStop \/ StopStep
           \/ \E i \in Services : BeginStart(i) \/ StartStep(i)
    PROVE  CommandTypeOK'
<1>0. CommandTypeOK
  BY TypeParts
<1>1. CASE BeginStop
  BY <1>0, <1>1, SlotFacts, SupervisorAssumption DEF BeginStop, CommandTypeOK
<1>2. ASSUME NEW x \in Joined, NEW next \in Slots, TakeHandle(x, next) PROVE CommandTypeOK'
  <2>1. slot[x] \in 0 .. MaxServices /\ (slot[x] # 0 => slot[x] \in Services) /\ x \in Slots
    BY <1>0, <1>2, SupervisorAssumption, SlotFacts DEF CommandTypeOK, Services
  <2>2. CASE slot[x] = 0
    BY <1>0, <1>2, <2>1, <2>2, SupervisorAssumption DEF CommandTypeOK, TakeHandle
  <2>3. CASE slot[x] # 0
    <3>1. /\ slot' = [slot EXCEPT ![x] = 0] /\ stopping' = [stopping EXCEPT !.joins = slot[x]]
          /\ told' = [told EXCEPT ![slot[x]][x] = "written"] /\ UNCHANGED <<starting, stops>>
      BY <1>2, <2>3 DEF TakeHandle
    <3>2. told' \in [Services -> [Joined -> {"no", "written", "dropped"}]]
      BY <1>0, <2>1, <2>3, <3>1 DEF CommandTypeOK
    <3>3. QED
      BY <1>0, <2>1, <3>1, <3>2, SupervisorAssumption DEF CommandTypeOK
  <2>4. QED
    BY <2>2, <2>3
<1>3. ASSUME NEW x, NEW task, NEW next \in Slots, Join(x, task, next) PROVE CommandTypeOK'
  BY <1>0, <1>3, SupervisorAssumption DEF CommandTypeOK, Join
<1>4. CASE AbortRotation \/ TakeState
  <2>1. 0 \in 0 .. MaxServices
    BY SupervisorAssumption
  <2>2. slot' \in [Slots -> 0 .. MaxServices]
    BY <1>0, <1>4, <2>1 DEF AbortRotation, TakeState, CommandTypeOK
  <2>3. /\ stopping' \in [at : Slots \cup {"not"}, joins : 0 .. MaxServices]
        /\ UNCHANGED <<starting, stops, told>>
    BY <1>4, <2>1, SlotFacts DEF AbortRotation, TakeState
  <2>4. QED
    BY <1>0, <2>2, <2>3 DEF CommandTypeOK
<1>5. CASE StopStep
  BY <1>2, <1>3, <1>4, <1>5, SlotFacts
     DEF StopStep, StopSignaling, StopHeartbeat, JoinSignaling, JoinHeartbeat, Joined
<1>6. ASSUME NEW i \in Services, BeginStart(i) PROVE CommandTypeOK'
  BY <1>0, <1>6 DEF BeginStart, CommandTypeOK
<1>7. ASSUME NEW i \in Services, StartStep(i) PROVE CommandTypeOK'
  <2>1. \E x \in Slots : Occupy(x, i)
    BY <1>7, SlotFacts DEF StartStep, start_heartbeat, start_signaling, PublishState,
                           spawn_pairing_code_rotation
  <2>2. UNCHANGED <<stopping, stops>>
        /\ \E s \in {"signaling", "state", "rotation", "done"} : starting' = [starting EXCEPT ![i] = s]
    BY <1>7 DEF StartStep, start_heartbeat, start_signaling, PublishState,
                spawn_pairing_code_rotation
  <2>3. QED
    BY <1>0, <2>1, <2>2, OccupyType DEF CommandTypeOK
<1>8. QED
  BY <1>1, <1>5, <1>6, <1>7

LEMMA PublishType ==
    ASSUME TypeOK, NEW i \in Services, Publish(i)
    PROVE  /\ issued' \in 0 .. MaxTokens
           /\ bus' \in [Services -> 0 .. MaxTokens]
           /\ fresh' \in [Services -> BOOLEAN]
<1>1. PICK k \in Tokens : /\ issued' = (IF k > issued THEN k ELSE issued)
                          /\ bus' = [bus EXCEPT ![i] = k]
                          /\ fresh' = [fresh EXCEPT ![i] = TRUE]
  BY DEF Publish
<1>2. k \in 0 .. MaxTokens
  BY SupervisorAssumption DEF Tokens
<1>3. QED
  BY <1>1, <1>2, TypeParts DEF TaskTypeOK

LEMMA HbType == ASSUME TypeOK, NEW i \in Services, HbStep(i) PROVE TaskTypeOK' /\ UNCHANGED commandVars
<1>0. TaskTypeOK
  BY TypeParts
<1>1. UNCHANGED <<commandVars, sup, tok, timers>>
  BY DEF HbStep, HbRegistered, HbFails, HbReported, HbWakes, HbStops, busVars
<1>2. hb' \in [Services -> HbStates]
  BY <1>0 DEF TaskTypeOK, HbStates, HbStep, HbRegistered, HbFails, HbReported, HbWakes, HbStops, Move
<1>3. Publish(i) \/ UNCHANGED busVars
  BY DEF HbStep, HbRegistered, HbFails, HbReported, HbWakes, HbStops
<1>4. QED
  BY <1>0, <1>1, <1>2, <1>3, PublishType DEF TaskTypeOK, busVars

LEMMA SupType == ASSUME TypeOK, NEW i \in Services, SupStep(i) PROVE TaskTypeOK' /\ UNCHANGED commandVars
<1>0. TaskTypeOK
  BY TypeParts
<1>1. UNCHANGED <<commandVars, hb, timers>>
  BY DEF SupStep, wait_for_token, Connected, ConnectFails, BusChanged, StreamEnds, SupWakes, Refreshed,
         RefreshFails, SupStops, close_all_sessions, busVars
<1>2. CASE wait_for_token(i)
  BY <1>0, <1>1, <1>2 DEF TaskTypeOK, SupStates, wait_for_token
<1>3. CASE Connected(i) \/ BusChanged(i)
  BY <1>0, <1>1, <1>3 DEF TaskTypeOK, SupStates, Connected, BusChanged, Move, busVars
<1>4. CASE Refreshed(i)
  BY <1>0, <1>1, <1>4, PublishType DEF TaskTypeOK, SupStates, Refreshed, Move
<1>5. CASE ConnectFails(i) \/ StreamEnds(i) \/ SupWakes(i)
  BY <1>0, <1>1, <1>5 DEF TaskTypeOK, SupStates, ConnectFails, StreamEnds, SupWakes, Move, busVars
<1>6. CASE RefreshFails(i) \/ SupStops(i) \/ close_all_sessions(i)
  BY <1>0, <1>1, <1>6 DEF TaskTypeOK, SupStates, RefreshFails, SupStops, close_all_sessions, Move, busVars
<1>7. QED
  BY <1>2, <1>3, <1>4, <1>5, <1>6 DEF SupStep

\* A command touches the tasks only by spawning them.
LEMMA CommandTasks ==
    ASSUME TypeOK, BeginStop \/ StopStep \/ \E i \in Services : BeginStart(i) \/ StartStep(i)
    PROVE  TaskTypeOK'
<1>0. TaskTypeOK
  BY TypeParts
<1>1. CASE BeginStop \/ StopStep
  BY <1>0, <1>1 DEF TaskTypeOK, BeginStop, StopStep, StopSignaling, StopHeartbeat, JoinSignaling,
     JoinHeartbeat, TakeHandle, Join, AbortRotation, TakeState, busVars
<1>2. ASSUME NEW i \in Services, BeginStart(i) \/ PublishState(i) \/ spawn_pairing_code_rotation(i)
      PROVE TaskTypeOK'
  BY <1>0, <1>2 DEF TaskTypeOK, BeginStart, PublishState, spawn_pairing_code_rotation, busVars
<1>3. ASSUME NEW i \in Services, start_heartbeat(i) PROVE TaskTypeOK'
  BY <1>0, <1>3 DEF TaskTypeOK, start_heartbeat, busVars, HbStates
<1>4. ASSUME NEW i \in Services, start_signaling(i) PROVE TaskTypeOK'
  BY <1>0, <1>4 DEF TaskTypeOK, start_signaling, busVars, SupStates
<1>5. QED
  BY <1>1, <1>2, <1>3, <1>4 DEF StartStep

LEMMA TypeStep == ASSUME TypeOK, [Next]_vars PROVE TypeOK'
<1>1. CASE UNCHANGED vars
  BY <1>1 DEF TypeOK, vars, commandVars, busVars
<1>2. CASE BeginStop \/ StopStep \/ \E i \in Services : BeginStart(i) \/ StartStep(i)
  BY <1>2, CommandType, CommandTasks, TypeParts DEF TypeOK, CommandTypeOK, TaskTypeOK, HbStates, SupStates
<1>3. ASSUME NEW i \in Services, HbStep(i) \/ SupStep(i) PROVE TypeOK'
  <2>1. TaskTypeOK' /\ UNCHANGED commandVars
    BY <1>3, HbType, SupType
  <2>2. CommandTypeOK'
    BY <2>1, TypeParts DEF CommandTypeOK, commandVars
  <2>3. QED
    BY <2>1, <2>2 DEF TypeOK, CommandTypeOK, TaskTypeOK, HbStates, SupStates
<1>4. ASSUME NEW i \in Services, TimerFires(i) PROVE TypeOK'
  BY <1>4 DEF TimerFires, TypeOK, commandVars, busVars
<1>5. QED
  BY <1>1, <1>2, <1>3, <1>4, NextByActor

\* Every variable keeps its type, and a supervisor connects only with a token.
THEOREM TypeCorrect == Spec => []TypeOK
<1>1. Init => TypeOK
  BY SupervisorAssumption DEF Init, TypeOK, Services, Slots
<1>2. QED
  BY <1>1, TypeStep, PTL DEF Spec

-----------------------------------------------------------------------------
(* NoTokenMissed: what a supervisor works with is the value of its bus, or  *)
(* the bus is marked as changed.                                            *)

LEMMA TokenStep == ASSUME TypeOK, NoTokenMissed, [Next]_vars PROVE NoTokenMissed'
<1>0. TaskTypeOK
  BY TypeParts
<1>1. ASSUME UNCHANGED <<sup, tok, bus, fresh>> PROVE NoTokenMissed'
  BY <1>1 DEF NoTokenMissed
<1>2. CASE UNCHANGED vars
  BY <1>1, <1>2 DEF vars, busVars
<1>3. CASE BeginStop \/ StopStep
  BY <1>1, <1>3 DEF BeginStop, StopStep, StopSignaling, StopHeartbeat, JoinSignaling, JoinHeartbeat,
     TakeHandle, Join, AbortRotation, TakeState, busVars
<1>4. ASSUME NEW i \in Services,
             \/ BeginStart(i) \/ start_heartbeat(i) \/ PublishState(i)
             \/ spawn_pairing_code_rotation(i) \/ TimerFires(i)
      PROVE  NoTokenMissed'
  BY <1>1, <1>4 DEF BeginStart, start_heartbeat, PublishState, spawn_pairing_code_rotation,
     TimerFires, busVars
<1>5. ASSUME NEW i \in Services, start_signaling(i) PROVE NoTokenMissed'
  BY <1>0, <1>5 DEF start_signaling, busVars, NoTokenMissed, TaskTypeOK
<1>6. ASSUME NEW i \in Services, UNCHANGED tok, Publish(i),
             \A j \in Services : sup'[j] \in {"connect", "stream"} => sup[j] = sup'[j]
      PROVE  NoTokenMissed'
  <2>1. /\ fresh' = [fresh EXCEPT ![i] = TRUE]
        /\ \A j \in Services : j # i => bus'[j] = bus[j]
    BY <1>0, <1>6 DEF Publish, TaskTypeOK
  <2>2. ASSUME NEW j \in Services, sup'[j] \in {"connect", "stream"}, bus'[j] # tok'[j]
        PROVE  fresh'[j]
    BY <1>0, <1>6, <2>1, <2>2 DEF NoTokenMissed, TaskTypeOK
  <2>3. QED
    BY <2>2 DEF NoTokenMissed
<1>7. ASSUME NEW i \in Services, HbStep(i) PROVE NoTokenMissed'
  <2>1. UNCHANGED <<sup, tok>> /\ (Publish(i) \/ UNCHANGED busVars)
    BY <1>7 DEF HbStep, HbRegistered, HbFails, HbReported, HbWakes, HbStops
  <2>2. QED
    BY <1>1, <1>6, <2>1 DEF busVars
<1>8. ASSUME NEW i \in Services, SupStep(i) PROVE NoTokenMissed'
  <2>1. CASE wait_for_token(i)
    BY <1>0, <2>1 DEF wait_for_token, NoTokenMissed, TaskTypeOK
  <2>2. CASE BusChanged(i)
    BY <1>0, <2>2 DEF BusChanged, NoTokenMissed, TaskTypeOK
  <2>3. CASE Refreshed(i)
    <3>1. \A j \in Services : sup'[j] \in {"connect", "stream"} => sup[j] = sup'[j]
      BY <1>0, <2>3 DEF Refreshed, Move, TaskTypeOK
    <3>2. QED
      BY <1>6, <2>3, <3>1 DEF Refreshed
  <2>4. CASE Connected(i)
    BY <1>0, <2>4 DEF Connected, Move, NoTokenMissed, TaskTypeOK, busVars
  <2>5. CASE ConnectFails(i) \/ StreamEnds(i) \/ SupWakes(i) \/ RefreshFails(i)
    BY <1>0, <2>5 DEF ConnectFails, StreamEnds, SupWakes, RefreshFails, Move, NoTokenMissed,
       TaskTypeOK, busVars
  <2>6. CASE SupStops(i) \/ close_all_sessions(i)
    BY <1>0, <2>6 DEF SupStops, close_all_sessions, Move, NoTokenMissed, TaskTypeOK, busVars
  <2>7. QED
    BY <1>8, <2>1, <2>2, <2>3, <2>4, <2>5, <2>6 DEF SupStep
<1>9. QED
  BY <1>2, <1>3, <1>4, <1>5, <1>7, <1>8, NextByActor DEF StartStep

\* However registrations of the heartbeat and of the supervisor fall between its
\* steps, a supervisor never goes on with an outdated token unawares.
THEOREM TokenSeen == Spec => []NoTokenMissed
<1>1. Init => NoTokenMissed
  BY DEF Init, NoTokenMissed
<1>2. QED
  BY <1>1, TokenStep, TypeCorrect, PTL DEF Spec

-----------------------------------------------------------------------------
(* WholeOrQuiet: commands come one after the other, so at every moment all  *)
(* handles in AppState belong to one service, cut off at the step of the    *)
(* command that runs.                                                       *)

\* Nothing runs whose handle is neither in its slot nor being joined.
Kept ==
    /\ \A i \in Services :
          /\ hb[i] \notin {"not", "done"} =>
                slot["heartbeat"] = i \/ (stopping.at = "heartbeat" /\ stopping.joins = i)
          /\ sup[i] \notin {"not", "done"} =>
                slot["signaling"] = i \/ (stopping.at = "signaling" /\ stopping.joins = i)
    /\ timers = {slot["rotation"]} \ {0}

\* A handle in a slot is of a started service and was not used yet.
Untold ==
    \A i \in Services :
        /\ \A x \in Joined : slot[x] = i => told[i][x] = "no"
        /\ starting[i] \in {"not", "heartbeat"} => told[i]["heartbeat"] = "no"
        /\ starting[i] \in {"not", "heartbeat", "signaling"} => told[i]["signaling"] = "no"
        /\ \A x \in Slots : slot[x] = i => starting[i] # "not"

\* start_server: nobody else commands, and the slots it has come to are filled.
StartAlone ==
    \A i \in Services : Busy(i) =>
        /\ stopping.at = "not" /\ \A j \in Services : Busy(j) => j = i
        /\ slot["heartbeat"] = IF starting[i] = "heartbeat" THEN 0 ELSE i
        /\ slot["signaling"] = IF starting[i] \in {"heartbeat", "signaling"} THEN 0 ELSE i
        /\ slot["state"] = IF starting[i] = "rotation" THEN i ELSE 0
        /\ slot["rotation"] = 0

\* stop_server: the slots it has come to are empty, the others still full.
StopAlone ==
    /\ stopping.joins # 0 => stopping.at \in Joined /\ stopping.joins = slot["state"]
    /\ stopping.at = "signaling" =>
          slot["signaling"] = IF stopping.joins = 0 THEN slot["state"] ELSE 0
    /\ stopping.at \in {"heartbeat", "rotation", "state"} => slot["signaling"] = 0
    /\ stopping.at \in {"signaling", "heartbeat"} =>
          slot["heartbeat"] = IF stopping.at = "heartbeat" /\ stopping.joins # 0 THEN 0
                              ELSE slot["state"]
    /\ stopping.at \in {"rotation", "state"} => slot["heartbeat"] = 0
    /\ stopping.at # "not" =>
          slot["rotation"] = IF stopping.at = "state" THEN 0 ELSE slot["state"]

Alone ==
    /\ StartAlone /\ StopAlone
    /\ ~Commanding => \A x \in Slots : slot[x] = slot["state"]

CommandInv == Kept /\ Untold /\ Alone

LEMMA TimerAlone ==
    ASSUME TypeOK, CommandInv PROVE slot["rotation"] # 0 => slot["rotation"] = slot["state"]
<1>1. stopping.at \in Slots \cup {"not"}
  BY DEF TypeOK
<1>2. CASE stopping.at # "not"
  BY <1>2 DEF CommandInv, Alone, StopAlone
<1>3. CASE \E i \in Services : Busy(i)
  BY <1>3 DEF CommandInv, Alone, StartAlone
<1>4. CASE ~Commanding
  BY <1>4, SlotFacts DEF CommandInv, Alone
<1>5. QED
  BY <1>2, <1>3, <1>4 DEF Commanding

\* A step of a task leaves the commands alone and revives nothing.
LEMMA TaskKeeps ==
    ASSUME TypeOK, CommandInv, UNCHANGED <<commandVars, timers>>,
           \A i \in Services : /\ hb'[i] \notin {"not", "done"} => hb[i] \notin {"not", "done"}
                               /\ sup'[i] \notin {"not", "done"} => sup[i] \notin {"not", "done"}
    PROVE  CommandInv'
<1>1. Kept'
  BY DEF CommandInv, Kept, commandVars
<1>2. Untold'
  BY DEF CommandInv, Untold, commandVars
<1>3. Alone'
  BY DEF CommandInv, Alone, StartAlone, StopAlone, Commanding, Busy, commandVars
<1>4. QED
  BY <1>1, <1>2, <1>3 DEF CommandInv

LEMMA TasksStep ==
    ASSUME TypeOK, CommandInv, NEW i \in Services, HbStep(i) \/ SupStep(i) \/ TimerFires(i)
    PROVE  CommandInv'
<1>0. TaskTypeOK
  BY TypeParts
<1>1. CASE HbStep(i)
  <2>1. /\ UNCHANGED <<commandVars, timers, sup>>
        /\ hb[i] \notin {"not", "done"} /\ \A j \in Services : j # i => hb'[j] = hb[j]
    BY <1>0, <1>1 DEF HbStep, HbRegistered, HbFails, HbReported, HbWakes, HbStops, Move, TaskTypeOK
  <2>2. QED
    BY <2>1, TaskKeeps
<1>2. CASE SupStep(i)
  <2>1. UNCHANGED <<commandVars, timers, hb>>
    BY <1>2 DEF SupStep, wait_for_token, Connected, ConnectFails, BusChanged, StreamEnds, SupWakes,
       Refreshed, RefreshFails, SupStops, close_all_sessions
  <2>2. sup[i] \notin {"not", "done"} /\ \A j \in Services : j # i => sup'[j] = sup[j]
    BY <1>0, <1>2 DEF SupStep, wait_for_token, Connected, ConnectFails, BusChanged, StreamEnds,
       SupWakes, Refreshed, RefreshFails, SupStops, close_all_sessions, Move, TaskTypeOK
  <2>3. QED
    BY <2>1, <2>2, TaskKeeps
<1>3. CASE TimerFires(i)
  <2>1. i = slot["rotation"] /\ i # 0
    BY <1>3 DEF TimerFires, CommandInv, Kept
  <2>2. slot["state"] # 0
    BY <2>1, TimerAlone
  <2>3. QED
    BY <1>3, <2>2, TaskKeeps DEF TimerFires
<1>4. QED
  BY <1>1, <1>2, <1>3

LEMMA StartKeeps ==
    ASSUME ~Overlap, TypeOK, CommandInv, NEW i \in Services, BeginStart(i) \/ StartStep(i)
    PROVE  CommandInv'
<1>0. CommandTypeOK /\ TaskTypeOK /\ i # 0
  BY TypeParts DEF Services
<1>1. CASE BeginStart(i)
  <2>1. /\ ~Commanding /\ slot["state"] = 0 /\ starting[i] = "not"
        /\ starting' = [starting EXCEPT ![i] = "heartbeat"]
        /\ UNCHANGED <<slot, stopping, told, hb, sup, timers>>
    BY <1>1 DEF BeginStart
  <2>2. stopping.at = "not" /\ \A j \in Services : ~Busy(j)
    BY <2>1 DEF Commanding
  <2>3. \A x \in Slots : slot[x] = 0
    BY <2>1 DEF CommandInv, Alone
  <2>4. Kept' /\ Untold'
    BY <1>0, <2>1 DEF CommandInv, Kept, Untold, CommandTypeOK
  <2>5. Busy(i)' /\ \A j \in Services : j # i => ~Busy(j)'
    BY <1>0, <2>1, <2>2 DEF Busy, CommandTypeOK
  <2>6. StartAlone'
    BY <1>0, <2>1, <2>2, <2>3, <2>5, SlotFacts DEF StartAlone, CommandTypeOK
  <2>7. StopAlone'
    BY <2>1 DEF CommandInv, Alone, StopAlone
  <2>8. QED
    BY <2>4, <2>5, <2>6, <2>7 DEF CommandInv, Alone, Commanding
<1>2. CASE StartStep(i)
  <2>1. Busy(i)
    BY <1>2 DEF StartStep, start_heartbeat, start_signaling, PublishState, spawn_pairing_code_rotation, Busy
  <2>2. /\ stopping.at = "not" /\ (\A j \in Services : Busy(j) => j = i)
        /\ slot["heartbeat"] = (IF starting[i] = "heartbeat" THEN 0 ELSE i)
        /\ slot["signaling"] = (IF starting[i] \in {"heartbeat", "signaling"} THEN 0 ELSE i)
        /\ slot["state"] = (IF starting[i] = "rotation" THEN i ELSE 0)
        /\ slot["rotation"] = 0
    BY <2>1 DEF CommandInv, Alone, StartAlone
  <2>3. ASSUME NEW x \in Slots, Occupy(x, i), slot[x] = 0
        PROVE  slot' = [slot EXCEPT ![x] = i] /\ told' = told
    BY <2>3 DEF Occupy
  <2>4. UNCHANGED <<told, stopping>> /\ StopAlone'
    <3>1. UNCHANGED <<told, stopping>>
      BY <1>2, <2>2, <2>3, SlotFacts DEF StartStep, start_heartbeat, start_signaling, PublishState,
         spawn_pairing_code_rotation
    <3>2. QED
      BY <2>2, <3>1 DEF StopAlone, CommandInv, Alone, Joined
  <2>5. ASSUME NEW s, starting' = [starting EXCEPT ![i] = s]
        PROVE  \A j \in Services : j # i => ~Busy(j)'
    BY <1>0, <2>2, <2>5 DEF Busy, CommandTypeOK
  <2>6. CASE start_heartbeat(i)
    <3>1. /\ starting[i] = "heartbeat" /\ starting' = [starting EXCEPT ![i] = "signaling"]
          /\ \A x \in Slots : slot'[x] = IF x = "heartbeat" THEN i ELSE slot[x]
          /\ \A j \in Services : hb'[j] = IF j = i THEN "register" ELSE hb[j]
          /\ UNCHANGED <<sup, timers>>
      <4>1. slot' = [slot EXCEPT !["heartbeat"] = i]
        BY <2>2, <2>3, <2>6, SlotFacts DEF start_heartbeat
      <4>2. QED
        BY <1>0, <2>6, <4>1 DEF start_heartbeat, CommandTypeOK, TaskTypeOK
    <3>2. Kept'
      BY <1>0, <2>2, <2>4, <3>1, SlotFacts DEF CommandInv, Kept, Services
    <3>3. Untold'
      BY <1>0, <2>2, <2>4, <3>1 DEF CommandInv, Untold, CommandTypeOK, Slots, Joined
    <3>4. Busy(i)' /\ StartAlone'
      <4>1. starting'[i] = "signaling" /\ Busy(i)'
        BY <1>0, <3>1 DEF CommandTypeOK, Busy
      <4>2. \A j \in Services : j # i => ~Busy(j)'
        BY <2>5, <3>1
      <4>3. QED
        BY <2>2, <2>4, <3>1, <4>1, <4>2, SlotFacts DEF StartAlone
    <3>5. QED
      BY <2>4, <3>2, <3>3, <3>4 DEF CommandInv, Alone, Commanding
  <2>7. CASE start_signaling(i)
    <3>1. /\ starting[i] = "signaling" /\ starting' = [starting EXCEPT ![i] = "state"]
          /\ \A x \in Slots : slot'[x] = IF x = "signaling" THEN i ELSE slot[x]
          /\ \A j \in Services : sup'[j] = IF j = i THEN "wait" ELSE sup[j]
          /\ UNCHANGED <<hb, timers>>
      <4>1. slot' = [slot EXCEPT !["signaling"] = i]
        BY <2>2, <2>3, <2>7, SlotFacts DEF start_signaling
      <4>2. QED
        BY <1>0, <2>7, <4>1 DEF start_signaling, CommandTypeOK, TaskTypeOK
    <3>2. Kept'
      BY <1>0, <2>2, <2>4, <3>1, SlotFacts DEF CommandInv, Kept, Services
    <3>3. Untold'
      BY <1>0, <2>2, <2>4, <3>1 DEF CommandInv, Untold, CommandTypeOK, Slots, Joined
    <3>4. Busy(i)' /\ StartAlone'
      <4>1. starting'[i] = "state" /\ Busy(i)'
        BY <1>0, <3>1 DEF CommandTypeOK, Busy
      <4>2. \A j \in Services : j # i => ~Busy(j)'
        BY <2>5, <3>1
      <4>3. QED
        BY <2>2, <2>4, <3>1, <4>1, <4>2, SlotFacts DEF StartAlone
    <3>5. QED
      BY <2>4, <3>2, <3>3, <3>4 DEF CommandInv, Alone, Commanding
  <2>8. CASE PublishState(i)
    <3>1. /\ starting[i] = "state" /\ starting' = [starting EXCEPT ![i] = "rotation"]
          /\ slot' = [slot EXCEPT !["state"] = i] /\ UNCHANGED <<hb, sup, timers>>
      BY <2>2, <2>3, <2>8, SlotFacts DEF PublishState
    <3>2. Kept'
      BY <1>0, <2>2, <2>4, <3>1 DEF CommandInv, Kept, CommandTypeOK, TaskTypeOK, Slots
    <3>3. Untold'
      BY <1>0, <2>2, <2>4, <3>1 DEF CommandInv, Untold, CommandTypeOK, Slots, Joined
    <3>4. Busy(i)' /\ StartAlone'
      BY <1>0, <2>2, <2>4, <2>5, <3>1 DEF StartAlone, Busy, CommandTypeOK, Slots
    <3>5. QED
      BY <2>4, <3>2, <3>3, <3>4 DEF CommandInv, Alone, Commanding
  <2>9. CASE spawn_pairing_code_rotation(i)
    <3>1. /\ starting[i] = "rotation" /\ starting' = [starting EXCEPT ![i] = "done"]
          /\ slot' = [slot EXCEPT !["rotation"] = i] /\ timers' = timers \cup {i}
          /\ UNCHANGED <<hb, sup>>
      BY <2>2, <2>3, <2>9, SlotFacts DEF spawn_pairing_code_rotation
    <3>2. Kept'
      <4>1. timers = {} /\ slot'["rotation"] = i /\ timers' = {i}
        BY <1>0, <2>2, <3>1, SlotFacts DEF CommandInv, Kept, CommandTypeOK
      <4>2. QED
        BY <1>0, <2>4, <3>1, <4>1 DEF CommandInv, Kept, CommandTypeOK, Slots
    <3>3. Untold'
      BY <1>0, <2>2, <2>4, <3>1 DEF CommandInv, Untold, CommandTypeOK, Slots, Joined
    <3>4. \A j \in Services : ~Busy(j)'
      BY <1>0, <2>5, <3>1 DEF Busy, CommandTypeOK
    <3>5. \A x \in Slots : slot'[x] = i
      BY <1>0, <2>2, <3>1, SlotCases DEF CommandTypeOK
    <3>6. QED
      BY <2>4, <3>2, <3>3, <3>4, <3>5, SlotFacts DEF CommandInv, Alone, StartAlone
  <2>10. QED
    BY <1>2, <2>6, <2>7, <2>8, <2>9 DEF StartStep
<1>3. QED
  BY <1>1, <1>2

LEMMA StopKeeps ==
    ASSUME ~Overlap, TypeOK, CommandInv, BeginStop \/ StopStep PROVE CommandInv'
<1>0. CommandTypeOK /\ TaskTypeOK
  BY TypeParts
<1>1. UNCHANGED <<starting, hb, sup>> /\ (BeginStop \/ stopping.at # "not")
  BY DEF BeginStop, StopStep, StopSignaling, StopHeartbeat, JoinSignaling, JoinHeartbeat, TakeHandle,
     Join, AbortRotation, TakeState
<1>2. (\A i \in Services : ~Busy(i)) /\ StartAlone'
  <2>1. \A i \in Services : ~Busy(i)
    BY <1>1 DEF BeginStop, Commanding, CommandInv, Alone, StartAlone
  <2>2. QED
    BY <1>1, <2>1 DEF Busy, StartAlone
<1>3. CASE BeginStop
  <2>1. /\ ~Commanding /\ stopping' = [at |-> "signaling", joins |-> 0]
        /\ UNCHANGED <<slot, told, timers>> /\ stopping.at = "not"
    BY <1>3 DEF BeginStop
  <2>2. \A x \in Slots : slot[x] = slot["state"]
    BY <2>1 DEF CommandInv, Alone
  <2>3. Kept' /\ Untold'
    BY <1>1, <2>1 DEF CommandInv, Kept, Untold
  <2>4. StopAlone' /\ Commanding'
    BY <2>1, <2>2, SlotFacts DEF StopAlone, Commanding
  <2>5. QED
    BY <1>2, <2>3, <2>4 DEF CommandInv, Alone
<1>4. ASSUME NEW x \in Joined, NEW next \in Slots, TakeHandle(x, next),
             \/ x = "signaling" /\ next = "heartbeat"
             \/ x = "heartbeat" /\ next = "rotation"
      PROVE  CommandInv'
  <2>1. /\ stopping.at = x /\ stopping.joins = 0 /\ slot' = [slot EXCEPT ![x] = 0]
        /\ UNCHANGED timers /\ x \in Slots
    BY <1>4, SlotFacts DEF TakeHandle
  <2>2. CASE slot[x] = 0
    <3>1. stopping' = [at |-> next, joins |-> 0] /\ UNCHANGED told /\ slot' = slot
      BY <1>0, <1>4, <2>1, <2>2 DEF TakeHandle, CommandTypeOK
    <3>2. Kept' /\ Untold'
      BY <1>1, <1>4, <2>1, <2>2, <3>1 DEF CommandInv, Kept, Untold
    <3>3. StopAlone' /\ Commanding'
      BY <1>4, <2>1, <2>2, <3>1 DEF CommandInv, Alone, StopAlone, Commanding
    <3>4. QED
      BY <1>2, <3>2, <3>3 DEF CommandInv, Alone
  <2>3. CASE slot[x] # 0
    <3> DEFINE k == slot[x]
    <3>1. /\ stopping' = [at |-> x, joins |-> k] /\ k \in Services
          /\ told' = [told EXCEPT ![k][x] = "written"]
      BY <1>0, <1>4, <2>1, <2>3, SupervisorAssumption DEF TakeHandle, CommandTypeOK, Services
    <3>2. starting[k] = "done"
      BY <1>0, <1>2, <2>1, <3>1 DEF CommandInv, Untold, Busy, CommandTypeOK
    <3>3. /\ \A i \in Services \ {k} : told'[i] = told[i]
          /\ \A y \in Slots : slot'[y] = IF y = x THEN 0 ELSE slot[y]
          /\ \A y \in Joined : y # x => told'[k][y] = told[k][y]
      BY <1>0, <2>1, <3>1 DEF CommandTypeOK
    <3>4. Kept'
      BY <1>1, <1>4, <2>1, <3>1, <3>3, SlotFacts DEF CommandInv, Kept
    <3>5. Untold'
      <4>1. ASSUME NEW i \in Services, NEW y \in Joined, slot'[y] = i PROVE told'[i][y] = "no"
        BY <3>1, <3>3, <4>1, SlotFacts DEF CommandInv, Untold, Services
      <4>2. ASSUME NEW i \in Services, NEW y \in Slots, slot'[y] = i PROVE starting'[i] # "not"
        BY <1>1, <3>3, <4>2 DEF CommandInv, Untold, Services
      <4>3. ASSUME NEW i \in Services, starting'[i] # "done" PROVE told'[i] = told[i]
        BY <1>1, <3>2, <3>3, <4>3
      <4>4. QED
        BY <1>1, <4>1, <4>2, <4>3 DEF CommandInv, Untold
    <3>6. StopAlone' /\ Commanding'
      BY <1>4, <2>1, <3>1, <3>3, SlotFacts DEF CommandInv, Alone, StopAlone, Commanding, Services, Joined
    <3>7. QED
      BY <1>2, <3>4, <3>5, <3>6 DEF CommandInv, Alone
  <2>4. QED
    BY <2>2, <2>3
<1>5. CASE JoinSignaling
  <2>1. /\ stopping.at = "signaling" /\ stopping.joins # 0 /\ sup[stopping.joins] = "done"
        /\ stopping' = [at |-> "heartbeat", joins |-> 0] /\ UNCHANGED <<slot, told, timers>>
    BY <1>5 DEF JoinSignaling, Join
  <2>2. Kept' /\ Untold'
    BY <1>1, <2>1 DEF CommandInv, Kept, Untold
  <2>3. StopAlone' /\ Commanding'
    BY <2>1 DEF CommandInv, Alone, StopAlone, Commanding
  <2>4. QED
    BY <1>2, <2>2, <2>3 DEF CommandInv, Alone
<1>6. CASE JoinHeartbeat
  <2>1. /\ stopping.at = "heartbeat" /\ stopping.joins # 0 /\ hb[stopping.joins] = "done"
        /\ stopping' = [at |-> "rotation", joins |-> 0] /\ UNCHANGED <<slot, told, timers>>
    BY <1>6 DEF JoinHeartbeat, Join
  <2>2. Kept' /\ Untold'
    BY <1>1, <2>1 DEF CommandInv, Kept, Untold
  <2>3. StopAlone' /\ Commanding'
    BY <2>1 DEF CommandInv, Alone, StopAlone, Commanding
  <2>4. QED
    BY <1>2, <2>2, <2>3 DEF CommandInv, Alone
<1>7. CASE AbortRotation
  <2>1. /\ stopping.at = "rotation" /\ stopping' = [at |-> "state", joins |-> 0] /\ UNCHANGED told
        /\ timers' = timers \ {slot["rotation"]}
        /\ \A y \in Slots : slot'[y] = IF y = "rotation" THEN 0 ELSE slot[y]
    BY <1>0, <1>7 DEF AbortRotation, CommandTypeOK
  <2>2. Kept' /\ Untold'
    BY <1>1, <2>1, SlotFacts DEF CommandInv, Kept, Untold, Services
  <2>3. StopAlone' /\ Commanding'
    BY <2>1, SlotFacts DEF CommandInv, Alone, StopAlone, Commanding
  <2>4. QED
    BY <1>2, <2>2, <2>3 DEF CommandInv, Alone
<1>8. CASE TakeState
  <2>1. /\ stopping.at = "state" /\ stopping' = [at |-> "not", joins |-> 0] /\ UNCHANGED <<told, timers>>
        /\ \A y \in Slots : slot'[y] = IF y = "state" THEN 0 ELSE slot[y]
    BY <1>0, <1>8 DEF TakeState, CommandTypeOK
  <2>2. Kept' /\ Untold'
    BY <1>1, <2>1, SlotFacts DEF CommandInv, Kept, Untold, Services
  <2>3. \A y \in Slots : slot'[y] = 0
    BY <2>1, SlotCases DEF CommandInv, Alone, StopAlone
  <2>4. StopAlone'
    BY <2>1 DEF StopAlone
  <2>5. QED
    BY <1>2, <2>2, <2>3, <2>4, SlotFacts DEF CommandInv, Alone
<1>9. CASE StopSignaling \/ StopHeartbeat
  <2>1. CASE StopSignaling
    <3>1. "signaling" \in Joined /\ "heartbeat" \in Slots /\ TakeHandle("signaling", "heartbeat")
      BY <2>1, SlotFacts DEF StopSignaling, Joined
    <3>2. QED
      BY <1>4, <3>1
  <2>2. CASE StopHeartbeat
    <3>1. "heartbeat" \in Joined /\ TakeHandle("heartbeat", "rotation")
      BY <2>2 DEF StopHeartbeat, Joined
    <3>2. QED
      BY <1>4, <3>1, SlotFacts
  <2>3. QED
    BY <1>9, <2>1, <2>2
<1>10. QED
  BY <1>3, <1>5, <1>6, <1>7, <1>8, <1>9 DEF StopStep

LEMMA CommandInvWhole ==
    ASSUME TypeOK, CommandInv, ~Commanding PROVE WholeOrQuiet
<1>1. /\ \A x \in Slots : slot[x] = slot["state"]
      /\ stopping.at = "not" /\ slot["state"] \in 0 .. MaxServices
  BY SlotFacts DEF CommandInv, Alone, Commanding, TypeOK
<1>2. CASE slot["state"] = 0
  BY <1>1, <1>2, SlotFacts DEF CommandInv, Kept, WholeOrQuiet, Quiet, Services
<1>3. CASE slot["state"] # 0
  <2>1. slot["state"] \in Services
    BY <1>1, <1>3, SupervisorAssumption DEF Services
  <2>2. timers = {slot["state"]}
    BY <1>1, <1>3, SlotFacts DEF CommandInv, Kept
  <2>3. QED
    BY <1>1, <1>3, <2>1, <2>2, SlotFacts DEF CommandInv, Untold, WholeOrQuiet, Whole
<1>4. QED
  BY <1>2, <1>3

\* From the start on, while no command overlaps another one.
LEMMA CommandInvariant ==
    ASSUME ~Overlap PROVE Spec => []CommandInv
<1>1. Init => CommandInv
  <2>1. ASSUME Init
        PROVE  /\ \A x \in Slots : slot[x] = 0
               /\ \A i \in Services : starting[i] = "not" /\ hb[i] = "not" /\ sup[i] = "not" /\ i # 0
               /\ \A i \in Services : \A x \in Joined : told[i][x] = "no"
               /\ stopping.at = "not" /\ stopping.joins = 0 /\ timers = {}
    BY <2>1 DEF Init, Services
  <2>2. ASSUME Init PROVE Kept /\ Untold
    BY <2>1, <2>2, SlotFacts DEF Kept, Untold, Joined
  <2>3. ASSUME Init PROVE Alone
    BY <2>1, <2>3, SlotFacts DEF Alone, StartAlone, StopAlone, Busy
  <2>4. QED
    BY <2>2, <2>3 DEF CommandInv
<1>2. TypeOK /\ CommandInv /\ [Next]_vars => CommandInv'
  <2>1. ASSUME TypeOK, CommandInv, UNCHANGED vars PROVE CommandInv'
    BY <2>1, TaskKeeps DEF vars
  <2>2. QED
    BY <2>1, NextByActor, StopKeeps, StartKeeps, TasksStep
<1>3. QED
  BY <1>1, <1>2, TypeCorrect, PTL DEF Spec

\* Wherever the tasks were when it told them, once stop_server has returned nothing
\* of the service is left, and until then everything of it is there.
THEOREM ServiceWhole == Spec => []WholeOrQuiet
<1>1. CASE Overlap
  <2>1. WholeOrQuiet
    BY <1>1 DEF WholeOrQuiet
  <2>2. QED
    BY <2>1, PTL
<1>2. CASE ~Overlap
  <2>1. TypeOK /\ CommandInv => WholeOrQuiet
    BY CommandInvWhole DEF WholeOrQuiet
  <2>2. Spec => []CommandInv
    BY <1>2, CommandInvariant
  <2>3. QED
    BY <2>1, <2>2, TypeCorrect, PTL
<1>3. QED
  BY <1>1, <1>2

\* Whose tasks exist: those of the service in the heartbeat's or the supervisor's slot,
\* or being joined, and of the one whose timer is in its slot; they are one service.
LEMMA CommandInvOne ==
    ASSUME TypeOK, CommandInv PROVE OneServiceRuns
<1> SUFFICES ASSUME NEW i \in Services, NEW j \in Services, Running(i), Running(j) PROVE i = j
  BY DEF OneServiceRuns
<1>0. i # 0 /\ j # 0 /\ stopping.at \in Slots \cup {"not"}
  BY TypeParts DEF Services, CommandTypeOK
<1> DEFINE Holds(k) == \/ slot["heartbeat"] = k \/ slot["signaling"] = k \/ slot["rotation"] = k
                       \/ stopping.joins = k
<1>1. Holds(i) /\ Holds(j)
  BY <1>0 DEF Running, CommandInv, Kept
<1>2. CASE \E k \in Services : Busy(k)
  <2>1. PICK k \in Services : Busy(k)
    BY <1>2
  <2>2. stopping.at = "not" /\ stopping.joins = 0
    BY <2>1 DEF CommandInv, Alone, StartAlone, StopAlone, Joined
  <2>3. \A x \in {"heartbeat", "signaling", "rotation"} : slot[x] \in {0, k}
    BY <2>1 DEF CommandInv, Alone, StartAlone
  <2>4. QED
    BY <1>0, <1>1, <2>2, <2>3
<1>3. CASE stopping.at # "not"
  BY <1>0, <1>1, <1>3 DEF CommandInv, Alone, StopAlone, Slots, Joined
<1>4. CASE ~Commanding
  <2>1. stopping.joins = 0
    BY <1>4 DEF Commanding, CommandInv, Alone, StopAlone, Joined
  <2>2. \A x \in {"heartbeat", "signaling", "rotation"} : slot[x] = slot["state"]
    BY <1>4, SlotFacts DEF CommandInv, Alone
  <2>3. QED
    BY <1>0, <1>1, <2>1, <2>2
<1>5. QED
  BY <1>2, <1>3, <1>4 DEF Commanding

\* Commands one after the other: a new service's tasks are spawned only when those of
\* the old one are gone, for the whole of every start_server and stop_server.
THEOREM OneService ==
    ASSUME ~Overlap PROVE Spec => []OneServiceRuns
<1>1. Spec => []CommandInv
  BY CommandInvariant
<1>2. QED
  BY <1>1, CommandInvOne, TypeCorrect, PTL

\* Until stop_server is first called, a service that was started stays published.
StillPublished ==
    \A i \in Services : stops = 0 =>
        /\ stopping.at = "not"
        /\ starting[i] \in {"rotation", "done"} => slot["state"] = i

LEMMA StillPublishedStep ==
    ASSUME ~Overlap, TypeOK, CommandInv, StillPublished, [Next]_vars PROVE StillPublished'
<1>0. CommandTypeOK
  BY TypeParts
<1>1. CASE UNCHANGED commandVars
  BY <1>1 DEF StillPublished, commandVars
<1>2. CASE BeginStop \/ StopStep
  <2>1. CASE BeginStop
    BY <1>0, <2>1 DEF BeginStop, StillPublished, CommandTypeOK
  <2>2. CASE StopStep
    <3>1. UNCHANGED stops /\ stopping.at # "not"
      BY <2>2 DEF StopStep, StopSignaling, StopHeartbeat, JoinSignaling, JoinHeartbeat, TakeHandle,
         Join, AbortRotation, TakeState
    <3>2. QED
      BY <3>1 DEF StillPublished
  <2>3. QED
    BY <1>2, <2>1, <2>2
<1>3. ASSUME NEW i \in Services, BeginStart(i) \/ StartStep(i) PROVE StillPublished'
  <2>1. UNCHANGED <<stops, stopping>>
    BY <1>3 DEF BeginStart, StartStep, start_heartbeat, start_signaling, PublishState,
       spawn_pairing_code_rotation
  <2>2. CASE BeginStart(i)
    BY <1>0, <2>2 DEF BeginStart, StillPublished, CommandTypeOK
  <2>3. CASE start_heartbeat(i)
    BY <1>0, <2>3, SlotFacts DEF start_heartbeat, Occupy, StillPublished, CommandTypeOK
  <2>4. CASE start_signaling(i)
    BY <1>0, <2>4, SlotFacts DEF start_signaling, Occupy, StillPublished, CommandTypeOK
  <2>5. CASE PublishState(i)
    <3>1. slot["state"] = 0
      BY <2>5 DEF PublishState, Busy, CommandInv, Alone, StartAlone
    <3>2. slot'["state"] = i /\ \A j \in Services \ {i} : starting'[j] = starting[j]
      BY <1>0, <2>5, SlotFacts DEF PublishState, Occupy, CommandTypeOK
    <3>3. \A j \in Services : j # 0
      BY DEF Services
    <3>4. QED
      BY <2>1, <3>1, <3>2, <3>3 DEF StillPublished
  <2>6. CASE spawn_pairing_code_rotation(i)
    BY <1>0, <2>6, SlotFacts DEF spawn_pairing_code_rotation, Occupy, StillPublished, CommandTypeOK
  <2>7. QED
    BY <1>3, <2>2, <2>3, <2>4, <2>5, <2>6 DEF StartStep
<1>4. ASSUME NEW i \in Services, HbStep(i) \/ SupStep(i) \/ TimerFires(i)
      PROVE  UNCHANGED commandVars
  BY <1>4, HbType, SupType DEF TimerFires
<1>5. QED
  <2>1. CASE Next
    BY <1>1, <1>2, <1>3, <1>4, <2>1, NextByActor
  <2>2. CASE UNCHANGED vars
    BY <1>1, <2>2 DEF vars
  <2>3. QED
    BY <2>1, <2>2

\* server.rs:25 "refuse to start twice": true of calls that do not overlap.
THEOREM StartsOnce ==
    ASSUME ~Overlap PROVE Spec => []NotStartedTwice
<1>1. Init => StillPublished
  BY DEF Init, StillPublished
<1>2. TypeOK /\ CommandInv /\ StillPublished /\ [Next]_vars => StillPublished'
  BY StillPublishedStep
<1>3. TypeOK /\ StillPublished => NotStartedTwice
  <2>1. ASSUME TypeOK PROVE stops \in Nat
    BY <2>1, TypeParts, SupervisorAssumption DEF CommandTypeOK
  <2>2. QED
    BY <2>1 DEF StillPublished, NotStartedTwice
<1>4. Spec => []CommandInv
  BY CommandInvariant
<1>5. QED
  BY <1>1, <1>2, <1>3, <1>4, TypeCorrect, PTL DEF Spec
=============================================================================
