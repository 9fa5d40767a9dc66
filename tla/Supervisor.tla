----------------------------- MODULE Supervisor -----------------------------
(***************************************************************************)
(* start_server and stop_server (commands/server.rs) with the tasks they   *)
(* start and end: the heartbeat (network/heartbeat.rs), the signaling      *)
(* supervisor (network/signaling.rs) and the rotation timer.  Each start   *)
(* that passes its check is a service of its own: two tasks on a token bus *)
(* of their own, whose handles go into slots of AppState one by one.  A    *)
(* handle that is replaced is dropped: heartbeat and supervisor take the   *)
(* lost sender for a stop, the timer runs on.                              *)
(*                                                                         *)
(* What the pairing server answers is left open here (DesktopConfig and    *)
(* DeviceRegistry decide it): a request is answered, refused with 401, or  *)
(* fails.                                                                  *)
(***************************************************************************)
EXTENDS Naturals, FiniteSets

CONSTANTS
    MaxServices,  \* bound: starts that pass the check
    MaxStops,     \* bound: calls of stop_server
    MaxTokens,    \* bound: new tokens the server issues
    Overlap       \* may one command begin while another one runs?

ASSUME SupervisorAssumption ==
    MaxServices \in Nat /\ MaxStops \in Nat /\ MaxTokens \in Nat /\ Overlap \in BOOLEAN

Services == 1 .. MaxServices
Joined == {"heartbeat", "signaling"}
Slots == Joined \cup {"rotation", "state"}

VARIABLES
    slot,      \* AppState: the service each handle belongs to, 0 for None
    starting,  \* per service: the next step of its start_server
    stopping,  \* the next step of stop_server and the handle it took
    stops,     \* calls of stop_server so far
    told,      \* per service and task: was its stop signal written or dropped?
    hb,        \* per service: where its heartbeat is
    sup,       \* per service: where its supervisor is
    tok,       \* per service: the token the supervisor works with
    bus,       \* per service: the value of its token bus, 0 for None
    fresh,     \* per service: the supervisor has not seen that value
    timers,    \* services whose rotation timer runs
    issued     \* tokens issued so far

commandVars == <<slot, starting, stopping, stops, told>>
busVars == <<bus, fresh, issued>>
vars == <<commandVars, hb, sup, tok, busVars, timers>>

Tokens == 1 .. MaxTokens
TypeOK ==
    /\ slot \in [Slots -> 0 .. MaxServices]
    /\ starting \in [Services -> {"not", "heartbeat", "signaling", "state", "rotation", "done"}]
    /\ stopping \in [at : Slots \cup {"not"}, joins : 0 .. MaxServices]
    /\ stops \in 0 .. MaxStops
    /\ told \in [Services -> [Joined -> {"no", "written", "dropped"}]]
    /\ hb \in [Services -> {"not", "register", "back off", "sleep", "report", "pause", "done"}]
    /\ sup \in [Services -> {"not", "wait", "connect", "stream", "refresh",
                             "refresh back off", "pause", "close", "done"}]
    /\ tok \in [Services -> 0 .. MaxTokens]
    /\ bus \in [Services -> 0 .. MaxTokens] /\ fresh \in [Services -> BOOLEAN]
    /\ timers \subseteq Services
    /\ issued \in 0 .. MaxTokens
    /\ \A i \in Services : sup[i] \in {"connect", "stream"} => tok[i] # 0

Init ==
    /\ slot = [x \in Slots |-> 0]
    /\ starting = [i \in Services |-> "not"]
    /\ stopping = [at |-> "not", joins |-> 0] /\ stops = 0
    /\ told = [i \in Services |-> [x \in Joined |-> "no"]]
    /\ hb = [i \in Services |-> "not"] /\ sup = [i \in Services |-> "not"]
    /\ tok = [i \in Services |-> 0]
    /\ bus = [i \in Services |-> 0] /\ fresh = [i \in Services |-> FALSE]
    /\ timers = {} /\ issued = 0

-----------------------------------------------------------------------------
(* start_server *)

Busy(i) == starting[i] \notin {"not", "done"}
Commanding == stopping.at # "not" \/ \E i \in Services : Busy(i)

(* The check, the code and the injection task (PairingCodes, TextInjection).*)
BeginStart(i) ==
    /\ starting[i] = "not" /\ (\A j \in 1 .. i - 1 : starting[j] # "not")
    /\ Overlap \/ ~Commanding
    /\ slot["state"] = 0
    /\ starting' = [starting EXCEPT ![i] = "heartbeat"]
    /\ UNCHANGED <<slot, stopping, stops, told, hb, sup, tok, busVars, timers>>

(* The handle of service i replaces the one in the slot, which is dropped.  *)
Occupy(x, i) ==
    /\ slot' = [slot EXCEPT ![x] = i]
    /\ told' = IF slot[x] = 0 \/ x \notin Joined THEN told
               ELSE [told EXCEPT ![slot[x]][x] = "dropped"]

start_heartbeat(i) ==
    /\ starting[i] = "heartbeat"
    /\ Occupy("heartbeat", i)
    /\ hb' = [hb EXCEPT ![i] = "register"]
    /\ starting' = [starting EXCEPT ![i] = "signaling"]
    /\ UNCHANGED <<stopping, stops, sup, tok, busVars, timers>>

start_signaling(i) ==
    /\ starting[i] = "signaling"
    /\ Occupy("signaling", i)
    /\ sup' = [sup EXCEPT ![i] = "wait"]
    /\ starting' = [starting EXCEPT ![i] = "state"]
    /\ UNCHANGED <<stopping, stops, hb, tok, busVars, timers>>

PublishState(i) ==
    /\ starting[i] = "state"
    /\ Occupy("state", i)
    /\ starting' = [starting EXCEPT ![i] = "rotation"]
    /\ UNCHANGED <<stopping, stops, hb, sup, tok, busVars, timers>>

spawn_pairing_code_rotation(i) ==
    /\ starting[i] = "rotation"
    /\ Occupy("rotation", i)
    /\ timers' = timers \cup {i}
    /\ starting' = [starting EXCEPT ![i] = "done"]
    /\ UNCHANGED <<stopping, stops, hb, sup, tok, busVars>>

-----------------------------------------------------------------------------
(* stop_server *)

BeginStop ==
    /\ stopping.at = "not" /\ stops < MaxStops
    /\ Overlap \/ ~Commanding
    /\ stopping' = [at |-> "signaling", joins |-> 0] /\ stops' = stops + 1
    /\ UNCHANGED <<slot, starting, told, hb, sup, tok, busVars, timers>>

(* Takes a handle and writes its stop signal; without one, goes on.         *)
TakeHandle(x, next) ==
    /\ stopping = [at |-> x, joins |-> 0]
    /\ slot' = [slot EXCEPT ![x] = 0]
    /\ IF slot[x] = 0
       THEN stopping' = [at |-> next, joins |-> 0] /\ UNCHANGED told
       ELSE /\ stopping' = [stopping EXCEPT !.joins = slot[x]]
            /\ told' = [told EXCEPT ![slot[x]][x] = "written"]
    /\ UNCHANGED <<starting, stops, hb, sup, tok, busVars, timers>>

Join(x, task, next) ==
    /\ stopping.at = x /\ stopping.joins # 0
    /\ task[stopping.joins] = "done"
    /\ stopping' = [at |-> next, joins |-> 0]
    /\ UNCHANGED <<slot, starting, stops, told, hb, sup, tok, busVars, timers>>

StopSignaling == TakeHandle("signaling", "heartbeat")
JoinSignaling == Join("signaling", sup, "heartbeat")
StopHeartbeat == TakeHandle("heartbeat", "rotation")
JoinHeartbeat_NotWaited ==
    /\ stopping.at = "heartbeat" /\ stopping.joins # 0
    /\ stopping' = [at |-> "rotation", joins |-> 0]
    /\ UNCHANGED <<slot, starting, stops, told, hb, sup, tok, busVars, timers>>
JoinHeartbeat == Join("heartbeat", hb, "rotation")

AbortRotation ==
    /\ stopping.at = "rotation"
    /\ timers' = timers \ {slot["rotation"]}
    /\ slot' = [slot EXCEPT !["rotation"] = 0]
    /\ stopping' = [at |-> "state", joins |-> 0]
    /\ UNCHANGED <<starting, stops, told, hb, sup, tok, busVars>>

TakeState ==
    /\ stopping.at = "state"
    /\ slot' = [slot EXCEPT !["state"] = 0]
    /\ stopping' = [at |-> "not", joins |-> 0]
    /\ UNCHANGED <<starting, stops, told, hb, sup, tok, busVars, timers>>

-----------------------------------------------------------------------------
(* A registration: the token the server had issued or a new one is put on   *)
(* the bus.  send_replace notifies even when the value is the same.         *)

Publish(i) ==
    \E k \in Tokens :
        /\ k = bus[i] \/ k = issued + 1 \/ k = issued
        /\ k # 0
        /\ issued' = IF k > issued THEN k ELSE issued
        /\ bus' = [bus EXCEPT ![i] = k]
        /\ fresh' = [fresh EXCEPT ![i] = TRUE]

Move(task, i, from, to) == task[i] = from /\ task' = [task EXCEPT ![i] = to]

(* The heartbeat: its sleeps see the stop signal, its requests do not.      *)
HbRegistered(i) ==
    /\ Move(hb, i, "register", "sleep") /\ Publish(i)
    /\ UNCHANGED <<commandVars, sup, tok, timers>>

HbFails(i) ==
    /\ \/ Move(hb, i, "register", "back off")
       \/ Move(hb, i, "register", "done")   \* the new identity cannot be saved
       \/ Move(hb, i, "report", "pause")
    /\ UNCHANGED <<commandVars, sup, tok, busVars, timers>>

HbReported(i) ==
    /\ \/ Move(hb, i, "report", "sleep")
       \/ Move(hb, i, "report", "register")   \* 401
    /\ UNCHANGED <<commandVars, sup, tok, busVars, timers>>

HbWakes(i) ==
    /\ told[i]["heartbeat"] = "no"
    /\ \/ Move(hb, i, "back off", "register")
       \/ Move(hb, i, "sleep", "report")
       \/ Move(hb, i, "pause", "sleep")
    /\ UNCHANGED <<commandVars, sup, tok, busVars, timers>>

HbStops(i) ==
    /\ told[i]["heartbeat"] # "no"
    /\ hb[i] \in {"back off", "sleep", "pause"}
    /\ hb' = [hb EXCEPT ![i] = "done"]
    /\ UNCHANGED <<commandVars, sup, tok, busVars, timers>>

-----------------------------------------------------------------------------
(* The supervisor *)

ToldTo(i) == told[i]["signaling"] # "no"

wait_for_token_OnlyNews(i) ==
    /\ sup[i] = "wait" /\ fresh[i] /\ told[i]["signaling"] # "written"
    /\ sup' = [sup EXCEPT ![i] = "connect"]
    /\ tok' = [tok EXCEPT ![i] = bus[i]]
    /\ fresh' = [fresh EXCEPT ![i] = FALSE]
    /\ UNCHANGED <<commandVars, hb, bus, issued, timers>>

(* The top of the loop sees a written stop signal, a dropped one is seen    *)
(* only by waiting; wait_for_token takes a token that is there at once.     *)
wait_for_token(i) ==
    /\ sup[i] = "wait" /\ bus[i] # 0 /\ told[i]["signaling"] # "written"
    /\ sup' = [sup EXCEPT ![i] = "connect"]
    /\ tok' = [tok EXCEPT ![i] = bus[i]]
    /\ fresh' = [fresh EXCEPT ![i] = FALSE]
    /\ UNCHANGED <<commandVars, hb, bus, issued, timers>>

(* Ticket and subscription.                                                 *)
Connected(i) ==
    /\ Move(sup, i, "connect", "stream")
    /\ UNCHANGED <<commandVars, hb, tok, busVars, timers>>

ConnectFails(i) ==
    /\ \/ Move(sup, i, "connect", "refresh")   \* 401
       \/ Move(sup, i, "connect", "pause")
    /\ UNCHANGED <<commandVars, hb, tok, busVars, timers>>

(* run_sse_once: the biased select looks at the stop signal first, then at  *)
(* the bus; a new value equal to the token in use does not end the stream.  *)
BusChanged_Consumed(i) ==
    /\ sup[i] = "stream" /\ fresh[i] /\ ~ToldTo(i)
    /\ fresh' = [fresh EXCEPT ![i] = FALSE]
    /\ UNCHANGED <<commandVars, hb, sup, tok, bus, issued, timers>>

BusChanged(i) ==
    /\ sup[i] = "stream" /\ fresh[i] /\ ~ToldTo(i)
    /\ fresh' = [fresh EXCEPT ![i] = FALSE]
    /\ sup' = IF bus[i] = tok[i] THEN sup ELSE [sup EXCEPT ![i] = "wait"]
    /\ UNCHANGED <<commandVars, hb, tok, bus, issued, timers>>

StreamEnds(i) ==
    /\ ~ToldTo(i) /\ ~fresh[i]
    /\ Move(sup, i, "stream", "pause")
    /\ UNCHANGED <<commandVars, hb, tok, busVars, timers>>

SupWakes(i) ==
    /\ \/ ~ToldTo(i) /\ Move(sup, i, "pause", "wait")
       \/ Move(sup, i, "refresh back off", "refresh")
    /\ UNCHANGED <<commandVars, hb, tok, busVars, timers>>

(* refresh_pairing_token: register_with_backoff with a stop signal that     *)
(* never comes.                                                             *)
Refreshed(i) ==
    /\ Move(sup, i, "refresh", "wait") /\ Publish(i)
    /\ UNCHANGED <<commandVars, hb, tok, timers>>

RefreshFails(i) ==
    /\ \/ Move(sup, i, "refresh", "refresh back off")
       \/ Move(sup, i, "refresh", "pause")   \* the new identity cannot be saved
    /\ UNCHANGED <<commandVars, hb, tok, busVars, timers>>

SupStops_Streaming(i) ==
    /\ ToldTo(i)
    /\ sup[i] = "stream"
    /\ sup' = [sup EXCEPT ![i] = "close"]
    /\ UNCHANGED <<commandVars, hb, tok, busVars, timers>>

SupStops(i) ==
    /\ ToldTo(i)
    /\ \/ sup[i] \in {"stream", "pause"}
       \/ sup[i] = "wait" /\ (bus[i] = 0 \/ told[i]["signaling"] = "written")
    /\ sup' = [sup EXCEPT ![i] = "close"]
    /\ UNCHANGED <<commandVars, hb, tok, busVars, timers>>

close_all_sessions(i) ==
    /\ Move(sup, i, "close", "done")
    /\ UNCHANGED <<commandVars, hb, tok, busVars, timers>>

-----------------------------------------------------------------------------
(* The timer looks for the state of whichever service runs, whose code it   *)
(* rotates (PairingCodes), and ends without one.                            *)
TimerFires(i) ==
    /\ i \in timers
    /\ timers' = IF slot["state"] = 0 THEN timers \ {i} ELSE timers
    /\ UNCHANGED <<commandVars, hb, sup, tok, busVars>>

StartStep(i) == start_heartbeat(i) \/ start_signaling(i) \/ PublishState(i)
                \/ spawn_pairing_code_rotation(i)
StopStep == StopSignaling \/ JoinSignaling \/ StopHeartbeat \/ JoinHeartbeat
            \/ AbortRotation \/ TakeState
Answered(i) == HbRegistered(i) \/ HbReported(i) \/ Connected(i) \/ Refreshed(i)
Failed(i) == HbFails(i) \/ ConnectFails(i) \/ RefreshFails(i)
TaskStep(i) == HbStops(i) \/ wait_for_token(i) \/ BusChanged(i) \/ SupStops(i)
               \/ close_all_sessions(i) \/ TimerFires(i)

Next ==
    \/ BeginStop \/ StopStep
    \/ \E i \in Services :
          \/ BeginStart(i) \/ StartStep(i)
          \/ Answered(i) \/ Failed(i) \/ TaskStep(i)
          \/ HbWakes(i) \/ SupWakes(i) \/ StreamEnds(i)

Spec == Init /\ [][Next]_vars

(* Commands and tasks run, sleeps end, and every request ends one way or    *)
(* the other within its timeout (REQUEST_TIMEOUT, SSE_READ_IDLE_TIMEOUT).   *)
FairSpec ==
    /\ Spec
    /\ WF_vars(StopStep)
    /\ \A i \in Services :
          /\ WF_vars(StartStep(i))
          /\ WF_vars(HbRegistered(i) \/ HbReported(i) \/ HbFails(i))
          /\ WF_vars(Connected(i) \/ ConnectFails(i))
          /\ WF_vars(Refreshed(i) \/ RefreshFails(i))
          /\ WF_vars(HbWakes(i)) /\ WF_vars(SupWakes(i))
          /\ WF_vars(HbStops(i)) /\ WF_vars(wait_for_token(i)) /\ WF_vars(BusChanged(i))
          /\ WF_vars(SupStops(i)) /\ WF_vars(close_all_sessions(i)) /\ WF_vars(TimerFires(i))

(* In addition a server that is asked again and again answers in the end.   *)
OnlineSpec ==
    /\ FairSpec
    /\ \A i \in Services : SF_vars(HbRegistered(i)) /\ SF_vars(Refreshed(i))
                          /\ SF_vars(Connected(i))

-----------------------------------------------------------------------------
(* Properties *)

(* Between the commands, when the window issues them one after the other,   *)
(* the service is whole: its own handles are in all slots, nobody told its  *)
(* tasks to stop, and its timer is the only one; or it is gone: no          *)
(* heartbeat, supervisor or timer of any service is left, wherever each was *)
(* when stop_server told it.                                                *)
Whole(i) ==
    /\ \A x \in Slots : slot[x] = i
    /\ \A x \in Joined : told[i][x] = "no"
    /\ timers = {i}
Quiet ==
    /\ \A i \in Services : hb[i] \in {"not", "done"} /\ sup[i] \in {"not", "done"}
    /\ timers = {}
WholeOrQuiet ==
    ~Overlap /\ ~Commanding => IF slot["state"] # 0 THEN Whole(slot["state"]) ELSE Quiet

(* A stream opened with an outdated token will still see the bus change:    *)
(* no publication falls between the taking of a token and the watching for  *)
(* the next.                                                                *)
NoTokenMissed ==
    \A i \in Services :
        sup[i] \in {"connect", "stream"} /\ bus[i] # tok[i] => fresh[i]

(* stop_server returns, provided the server answers in the end.             *)
StopReturns == stopping.at # "not" ~> stopping.at = "not"

(* A service that is left running comes to listen, unless its heartbeat     *)
(* gave up because a new identity could not be saved.                       *)
ServiceListens ==
    \A i \in Services :
        slot["state"] = i ~> slot["state"] # i \/ sup[i] = "stream" \/ hb[i] = "done"

(* server.rs:25 "refuse to start twice": holds when the commands come one   *)
(* after the other, and is refuted when calls overlap.                      *)
NotStartedTwice ==
    \A i, j \in Services :
        i # j /\ starting[i] = "done" /\ starting[j] = "done" => stops > 0

(* Heartbeat, supervisor and timer of two services never exist side by      *)
(* side, in the middle of a command as little as between two.               *)
Running(i) == hb[i] \notin {"not", "done"} \/ sup[i] \notin {"not", "done"} \/ i \in timers
OneServiceRuns == \A i, j \in Services : Running(i) /\ Running(j) => i = j
=============================================================================
