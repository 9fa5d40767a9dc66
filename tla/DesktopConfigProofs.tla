------------------------ MODULE DesktopConfigProofs ------------------------
(***************************************************************************)
(* DesktopConfig for any number of launches, phones, options and refused   *)
(* reports: its types, and that the desktop keeps its identity unless one  *)
(* of the known causes took it.                                            *)
(***************************************************************************)
EXTENDS DesktopConfig, FiniteSetTheorems, SequenceTheorems, TLAPS

\* The actions by what they touch.
AppStep == Launch \/ Quit \/ CrashInSave \/ \E o \in Options : SetOption(o)
ServiceStep == start_server \/ stop_server \/ \E p \in PhoneTokens : add_connection_token(p)
TaskStep(t) == Ask(t) \/ Serve(t) \/ Lose(t) \/ Registered(t) \/ ResetIdentity(t) \/ BackOff(t)
StreamStep == OpenStream \/ StreamEnds
RetryStep == BeatRefused \/ StreamRefused
ServerStep == (\E k \in Tokens : Age(k)) \/ (\E i \in Ids : Wipe(i))

LEMMA NextByKind ==
    ASSUME Next
    PROVE  AppStep \/ ServiceStep \/ (\E t \in Tasks : TaskStep(t)) \/ StreamStep \/ RetryStep \/ ServerStep
  BY DEF Next, Desktop, User, AppStep, ServiceStep, TaskStep, StreamStep, RetryStep, ServerStep

-----------------------------------------------------------------------------
(* Types *)

FileTypeOK ==
    /\ file \in Config \cup NoConfig /\ app \in Config \cup {None} /\ cs \in Config \cup {None}
    /\ used \subseteq Ids /\ paired \in Seq(PhoneTokens)
    /\ runs \in 0 .. MaxRuns /\ beats \in 0 .. MaxBeats
    /\ seen \subseteq Faults \cup {"stale", "race"}
TaskTypeOK ==
    /\ task \in [Tasks -> TaskState] /\ held \in [Tasks -> Tokens \cup {None}]
    /\ stream \in [id : Ids, tok : Tokens] \cup {None}
ServerTypeOK ==
    /\ server \in [Ids -> Tokens \cup {None}]
    /\ aged \subseteq Tokens /\ drawn \subseteq Tokens

LEMMA TypeParts == TypeOK <=> FileTypeOK /\ TaskTypeOK /\ ServerTypeOK
  BY DEF TypeOK, FileTypeOK, TaskTypeOK, ServerTypeOK

LEMMA NewIdType == ASSUME FileTypeOK, used # Ids PROVE NewId \in Ids /\ NewId \notin used
<1>1. \E i \in Ids \ used : TRUE
  BY DEF FileTypeOK
<1>2. QED
  BY <1>1 DEF NewId

LEMMA NewTokenType == ASSUME ServerTypeOK, drawn # Tokens PROVE NewToken \in Tokens
<1>1. \E k \in Tokens \ drawn : TRUE
  BY DEF ServerTypeOK
<1>2. QED
  BY <1>1 DEF NewToken

LEMMA ConfigFields ==
    ASSUME NEW c \in Config
    PROVE  /\ c.id \in Ids /\ c.pt \in Tokens \cup {None}
           /\ \A o \in Options : [c EXCEPT !.opt = o] \in Config
                                 /\ [c EXCEPT !.opt = o].id = c.id /\ [c EXCEPT !.opt = o].pt = c.pt
           /\ \A s \in Seq(PhoneTokens) : [c EXCEPT !.ct = s] \in Config
                                          /\ [c EXCEPT !.ct = s].id = c.id /\ [c EXCEPT !.ct = s].pt = c.pt
           /\ \A k \in Tokens : [c EXCEPT !.pt = k] \in Config
                                /\ [c EXCEPT !.pt = k].id = c.id /\ [c EXCEPT !.pt = k].pt = k
           /\ \A i \in Ids : [c EXCEPT !.id = i, !.pt = None] \in Config
           /\ c # None /\ c # Broken
  BY NoneAssumption DEF Config

LEMMA DefaultType ==
    ASSUME NEW i \in Ids
    PROVE  DefaultConfig(i) \in Config /\ DefaultConfig(i).id = i /\ DefaultConfig(i).pt = None
<1>1. (CHOOSE o \in Options : TRUE) \in Options
  BY ConstantAssumption
<1>2. <<>> \in Seq(PhoneTokens)
  BY EmptySeq
<1>3. QED
  BY <1>1, <1>2 DEF DefaultConfig, Config

LEMMA CappedType == ASSUME NEW s \in Seq(PhoneTokens) PROVE Capped(s) \in Seq(PhoneTokens)
<1>1. Len(s) \in Nat /\ MaxTokens \in Nat \ {0}
  BY ConstantAssumption, LenProperties
<1>2. CASE Len(s) > MaxTokens
  <2>1. SubSeq(s, Len(s) - MaxTokens + 1, Len(s)) \in Seq(PhoneTokens)
    <3>1. Len(s) - MaxTokens + 1 \in 1 .. Len(s) + 1 /\ Len(s) \in 0 .. Len(s)
      BY <1>1, <1>2
    <3>2. QED
      BY <3>1, <1>1, SubSeqProperties
  <2>2. QED
    BY <1>2, <2>1 DEF Capped
<1>3. CASE ~(Len(s) > MaxTokens)
  BY <1>3 DEF Capped
<1>4. QED
  BY <1>2, <1>3

LEMMA SaveType ==
    ASSUME FileTypeOK, NEW c \in Config, Save(c)
    PROVE  file' \in Config \cup NoConfig /\ seen' \subseteq Faults \cup {"stale", "race"}
  BY DEF Save, FileTypeOK, Faults

LEMMA IdleType ==
    /\ \A at \in {"off", "wait", "read", "backoff", "asked", "told"} : \A b \in BOOLEAN :
          Idle(at) \in TaskState /\ [Idle(at) EXCEPT !.reset = b] \in TaskState
    /\ \A at : Idle(at).at = at /\ \A b : [Idle(at) EXCEPT !.reset = b].at = at
  BY DEF Idle, TaskState

LEMMA AppType == ASSUME TypeOK, AppStep PROVE TypeOK'
<1>0. FileTypeOK /\ TaskTypeOK /\ ServerTypeOK
  BY TypeParts
<1>1. CASE Launch
  <2>1. /\ app' \in Config /\ file' \in Config \cup NoConfig /\ used' \subseteq Ids
        /\ seen' \subseteq Faults \cup {"stale", "race"}
    <3>1. CASE file \notin NoConfig
      BY <1>0, <1>1, <3>1 DEF Launch, load, FileTypeOK
    <3>2. CASE file \in NoConfig
      <4>1. NewId \in Ids /\ app' = DefaultConfig(NewId) /\ used' = used \cup {NewId}
            /\ (Save(app') \/ UNCHANGED <<file, seen>>)
        BY <1>0, <1>1, <3>2, NewIdType DEF Launch, load
      <4>2. app' \in Config
        BY <4>1, DefaultType
      <4>3. QED
        BY <1>0, <4>1, <4>2, SaveType DEF FileTypeOK
    <3>3. QED
      BY <3>1, <3>2
  <2>2. /\ UNCHANGED <<cs, task, held, stream, server, aged, drawn, beats, paired>>
        /\ runs' \in 0 .. MaxRuns
    BY <1>0, <1>1, ConstantAssumption DEF Launch, serverVars, FileTypeOK
  <2>3. QED
    BY <1>0, <2>1, <2>2 DEF TypeOK, FileTypeOK, TaskTypeOK, ServerTypeOK
<1>2. CASE Quit \/ CrashInSave
  <2>1. /\ app' = None /\ cs' = None /\ stream' = None
        /\ task' = [t \in Tasks |-> Idle("off")] /\ held' = [t \in Tasks |-> None]
        /\ UNCHANGED <<server, aged, drawn, used, runs, beats, paired>>
        /\ file' \in {file, Broken} /\ seen' \subseteq seen \cup {"lost", "torn"}
    BY <1>2 DEF Quit, CrashInSave, Terminated, serverVars, counters
  <2>2. task' \in [Tasks -> TaskState] /\ held' \in [Tasks -> Tokens \cup {None}]
    BY <2>1, IdleType
  <2>3. file' \in Config \cup NoConfig /\ seen' \subseteq Faults \cup {"stale", "race"}
    BY <1>0, <2>1 DEF FileTypeOK, NoConfig, Faults
  <2>4. QED
    BY <1>0, <2>1, <2>2, <2>3 DEF TypeOK, FileTypeOK, TaskTypeOK, ServerTypeOK
<1>3. ASSUME NEW o \in Options, SetOption(o) PROVE TypeOK'
  <2>1. app \in Config /\ app' = [app EXCEPT !.opt = o] /\ Save(app')
    BY <1>0, <1>3 DEF SetOption, Running, FileTypeOK
  <2>2. app' \in Config
    BY <2>1, ConfigFields
  <2>3. UNCHANGED <<cs, task, held, stream, server, aged, drawn, used, runs, beats, paired>>
    BY <1>3 DEF SetOption, serverVars, counters
  <2>4. QED
    BY <1>0, <2>1, <2>2, <2>3, SaveType DEF TypeOK, FileTypeOK, TaskTypeOK, ServerTypeOK
<1>4. QED
  BY <1>1, <1>2, <1>3 DEF AppStep

LEMMA ServiceType == ASSUME TypeOK, ServiceStep PROVE TypeOK'
<1>0. FileTypeOK /\ TaskTypeOK /\ ServerTypeOK
  BY TypeParts
<1>1. CASE start_server \/ stop_server
  <2>1. /\ UNCHANGED <<file, app, server, aged, drawn, used, runs, beats, paired, seen>>
        /\ cs' \in {app, None} /\ stream' \in {stream, None} /\ held' = [t \in Tasks |-> None]
        /\ \/ task' = [t \in Tasks |-> IF t = "heartbeat" THEN Idle("read") ELSE Idle("wait")]
           \/ task' = [t \in Tasks |-> Idle("off")]
    BY <1>1 DEF start_server, stop_server, serverVars, counters
  <2>2. task' \in [Tasks -> TaskState] /\ held' \in [Tasks -> Tokens \cup {None}]
    BY <2>1, IdleType
  <2>3. QED
    BY <1>0, <2>1, <2>2 DEF TypeOK, FileTypeOK, TaskTypeOK, ServerTypeOK
<1>2. ASSUME NEW p \in PhoneTokens, add_connection_token(p) PROVE TypeOK'
  <2>1. cs \in Config /\ cs.ct \in Seq(PhoneTokens)
    BY <1>0, <1>2 DEF add_connection_token, Serving, FileTypeOK, Config
  <2> DEFINE s == Capped(Append(cs.ct, p))
  <2>2. s \in Seq(PhoneTokens) /\ Append(paired, p) \in Seq(PhoneTokens)
    <3>1. Append(cs.ct, p) \in Seq(PhoneTokens) /\ Append(paired, p) \in Seq(PhoneTokens)
      BY <1>0, <2>1, AppendProperties DEF FileTypeOK
    <3>2. QED
      BY <3>1, CappedType
  <2>3. /\ cs' = [cs EXCEPT !.ct = s] /\ paired' = Append(paired, p) /\ file' \in {file, cs'}
        /\ seen' \subseteq seen \cup {"stale", "disk"}
        /\ UNCHANGED <<app, task, held, stream, server, aged, drawn, used, runs, beats>>
    <3>1. cs' = [cs EXCEPT !.ct = s]
      BY <1>2 DEF add_connection_token
    <3>2. file' \in {file, cs'} /\ seen' \subseteq seen \cup {"stale", "disk"}
      BY <1>2 DEF add_connection_token
    <3>3. QED
      BY <1>2, <3>1, <3>2 DEF add_connection_token, serverVars, counters
  <2> HIDE DEF s
  <2>4. cs' \in Config
    BY <2>1, <2>2, <2>3, ConfigFields
  <2>5. file' \in Config \cup NoConfig /\ seen' \subseteq Faults \cup {"stale", "race"}
    BY <1>0, <2>3, <2>4 DEF FileTypeOK, Faults
  <2>6. QED
    BY <1>0, <2>2, <2>3, <2>4, <2>5 DEF TypeOK, FileTypeOK, TaskTypeOK, ServerTypeOK
<1>3. QED
  BY <1>1, <1>2 DEF ServiceStep

-----------------------------------------------------------------------------
(* Without the application there is no service, without the service none of *)
(* its tasks, and a request under way names a device.                       *)

RunInv ==
    /\ app = None => cs = None
    /\ cs = None => stream = None /\ \A t \in Tasks : task[t].at = "off"
    /\ \A t \in Tasks : InFlight(t) => task[t].id \in Ids

\* A step of one task, with the service as it is.
LEMMA RunFrame ==
    ASSUME RunInv, NEW t \in Tasks, task[t].at # "off", app' # None, UNCHANGED <<cs, stream>>,
           \A u \in Tasks : u # t => task'[u] = task[u],
           task'[t].at \in {"asked", "told"} => task'[t].id \in Ids
    PROVE  RunInv'
<1>1. cs # None
  BY DEF RunInv
<1>2. \A u \in Tasks : InFlight(u)' => task'[u].id \in Ids
  BY DEF RunInv, InFlight
<1>3. QED
  BY <1>1, <1>2 DEF RunInv

\* A phone token changes neither the device nor the token of the copy.
LEMMA PairedCopy ==
    ASSUME TypeOK, NEW p \in PhoneTokens, add_connection_token(p)
    PROVE  cs \in Config /\ cs' \in Config /\ cs'.id = cs.id /\ cs'.pt = cs.pt
<1>1. cs \in Config /\ cs.ct \in Seq(PhoneTokens)
  BY DEF add_connection_token, Serving, TypeOK, Config
<1> DEFINE s == Capped(Append(cs.ct, p))
<1>2. s \in Seq(PhoneTokens)
  BY <1>1, AppendProperties, CappedType
<1>3. cs' = [cs EXCEPT !.ct = s]
  BY DEF add_connection_token
<1> HIDE DEF s
<1>4. QED
  BY <1>1, <1>2, <1>3, ConfigFields

\* What each step of a registration does to the task and to the table.
LEMMA UpsertType ==
    ASSUME TypeOK, NEW t \in Tasks, task[t].id \in Ids, upsert(t)
    PROVE  /\ \E a \in Tokens \cup {Refused} : Answer(t, a)
           /\ server' \in [Ids -> Tokens \cup {None}] /\ drawn' \subseteq Tokens
<1>0. ServerTypeOK /\ task[t] \in TaskState /\ task[t].pt \in Tokens \cup {None}
  BY TypeParts DEF TaskTypeOK, TaskState
<1>1. CASE Issue(t, task[t].id)
  <2>1. NewToken \in Tokens /\ Answer(t, NewToken) /\ drawn' = drawn \cup {NewToken}
        /\ server' = [server EXCEPT ![task[t].id] = NewToken]
    BY <1>0, <1>1, NewTokenType DEF Issue
  <2>2. QED
    BY <1>0, <2>1 DEF ServerTypeOK
<1>2. CASE ~Issue(t, task[t].id)
  <2>1. UNCHANGED <<server, drawn>> /\ (Answer(t, Refused) \/ (task[t].pt # None /\ Answer(t, task[t].pt)))
    BY <1>2 DEF upsert
  <2>2. \E a \in Tokens \cup {Refused} : Answer(t, a)
    BY <1>0, <2>1
  <2>3. QED
    BY <1>0, <2>1, <2>2 DEF ServerTypeOK
<1>3. QED
  BY <1>1, <1>2

LEMMA AnswerType ==
    ASSUME TypeOK, NEW t \in Tasks, NEW a \in Tokens \cup {None, Refused, Lost}, Answer(t, a)
    PROVE  /\ task' \in [Tasks -> TaskState]
           /\ task'[t].at = "told" /\ task'[t].ans = a /\ task'[t].id = task[t].id
           /\ task'[t].pt = task[t].pt /\ \A u \in Tasks : u # t => task'[u] = task[u]
<1>1. task[t] \in TaskState /\ DOMAIN task = Tasks /\ task \in [Tasks -> TaskState]
  BY DEF TypeOK
<1> DEFINE q == [task[t] EXCEPT !.at = "told", !.ans = a]
<1>2. task' = [task EXCEPT ![t] = q]
  BY <1>1 DEF Answer
<1>3. q \in TaskState /\ q.at = "told" /\ q.ans = a /\ q.id = task[t].id /\ q.pt = task[t].pt
  BY <1>1 DEF TaskState
<1> HIDE DEF q
<1>4. QED
  BY <1>1, <1>2, <1>3

LEMMA AskType ==
    ASSUME TypeOK, RunInv, NEW t \in Tasks, Ask(t)
    PROVE  /\ app \in Config /\ task' \in [Tasks -> TaskState]
           /\ task'[t].at = "asked" /\ task'[t].id = app.id /\ task'[t].pt = app.pt
           /\ \A u \in Tasks : u # t => task'[u] = task[u]
<1>1. task[t] \in TaskState /\ task \in [Tasks -> TaskState] /\ app \in Config
  BY DEF TypeOK, Ask, RunInv
<1> DEFINE q == [task[t] EXCEPT !.at = "asked", !.id = app.id, !.pt = app.pt]
<1>2. task' = [task EXCEPT ![t] = q]
  BY <1>1 DEF Ask
<1>3. q \in TaskState /\ q.at = "asked" /\ q.id = app.id /\ q.pt = app.pt
  BY <1>1, ConfigFields DEF TaskState
<1> HIDE DEF q
<1>4. QED
  BY <1>1, <1>2, <1>3

\* A task that leaves its registration, or starts it over.
LEMMA ResetType ==
    ASSUME TypeOK, NEW t \in Tasks, NEW at \in {"off", "wait", "read", "backoff"}, NEW b \in BOOLEAN,
           task' = [task EXCEPT ![t] = [Idle(at) EXCEPT !.reset = b]]
    PROVE  /\ task' \in [Tasks -> TaskState] /\ task'[t].at = at
           /\ \A u \in Tasks : u # t => task'[u] = task[u]
  BY IdleType DEF TypeOK

LEMMA IdleAgain == \A at : Idle(at) = [Idle(at) EXCEPT !.reset = FALSE]
<1> SUFFICES ASSUME NEW at PROVE Idle(at) = [Idle(at) EXCEPT !.reset = FALSE]
  OBVIOUS
<1>1. Idle(at) \in [at : {at}, id : {None}, pt : {None}, ans : {None}, reset : {FALSE}]
  BY DEF Idle
<1>2. QED
  BY <1>1

LEMMA TaskType ==
    ASSUME TypeOK, RunInv, NEW t \in Tasks, TaskStep(t)
    PROVE  TypeOK' /\ RunInv'
<1>0. FileTypeOK /\ TaskTypeOK /\ ServerTypeOK /\ task[t] \in TaskState
  BY TypeParts DEF TaskTypeOK
<1>1. CASE Ask(t)
  <2>1. /\ UNCHANGED <<file, app, cs, held, stream, server, aged, drawn, used, runs, beats, paired>>
        /\ seen' \subseteq Faults \cup {"stale", "race"}
    BY <1>0, <1>1 DEF Ask, serverVars, counters, FileTypeOK
  <2>2. TypeOK'
    BY <1>0, <1>1, <2>1, AskType DEF TypeOK, FileTypeOK, TaskTypeOK, ServerTypeOK
  <2>3. RunInv'
    <3>1. app.id \in Ids /\ app # None
      BY <1>1, AskType, ConfigFields
    <3>2. /\ task'[t].id = app.id
          /\ \A u \in Tasks : u # t => task'[u] = task[u]
      BY <1>1, AskType
    <3>3. app' # None /\ task[t].at # "off"
      BY <1>1, <2>1, <3>1 DEF Ask
    <3>4. QED
      BY <2>1, <3>1, <3>2, <3>3, RunFrame
  <2>4. QED
    BY <2>2, <2>3
<1>2. CASE Serve(t)
  <2>1. /\ UNCHANGED <<file, app, cs, held, stream, aged, used, runs, beats, paired, seen>>
        /\ task[t].at = "asked" /\ upsert(t)
    BY <1>2 DEF Serve, counters
  <2>2. task[t].id \in Ids /\ app # None
    BY <2>1 DEF RunInv, InFlight
  <2>3. PICK a \in Tokens \cup {Refused} : Answer(t, a)
    BY <2>1, <2>2, UpsertType
  <2>4. server' \in [Ids -> Tokens \cup {None}] /\ drawn' \subseteq Tokens
    BY <2>1, <2>2, UpsertType
  <2>5. /\ task' \in [Tasks -> TaskState] /\ task'[t].id = task[t].id
        /\ \A u \in Tasks : u # t => task'[u] = task[u]
    BY <2>3, AnswerType
  <2>6. TypeOK'
    BY <1>0, <2>1, <2>4, <2>5 DEF TypeOK, FileTypeOK, TaskTypeOK, ServerTypeOK
  <2>7. RunInv'
    BY <2>1, <2>2, <2>5, RunFrame
  <2>8. QED
    BY <2>6, <2>7
<1>3. CASE Lose(t)
  <2>1. /\ UNCHANGED <<file, app, cs, held, stream, server, aged, drawn, used, runs, beats, paired>>
        /\ InFlight(t) /\ Answer(t, Lost) /\ seen' = seen \cup {"lost"}
    BY <1>3 DEF Lose, serverVars, counters
  <2>2. /\ task' \in [Tasks -> TaskState] /\ task'[t].id = task[t].id
        /\ \A u \in Tasks : u # t => task'[u] = task[u]
    BY <2>1, AnswerType
  <2>3. TypeOK'
    BY <1>0, <2>1, <2>2 DEF TypeOK, FileTypeOK, TaskTypeOK, ServerTypeOK, Faults
  <2>4. RunInv'
    <3>1. task[t].at # "off" /\ task[t].id \in Ids /\ app' # None
      BY <2>1 DEF RunInv, InFlight
    <3>2. QED
      BY <2>1, <2>2, <3>1, RunFrame
  <2>5. QED
    BY <2>3, <2>4
<1>4. CASE Registered(t)
  <2>1. /\ task[t].at = "told" /\ task[t].ans \in Tokens
        /\ app' = [app EXCEPT !.pt = task[t].ans] /\ Save(app')
        /\ task' = [task EXCEPT ![t] = Idle("wait")] /\ app \in Config
        /\ held' = [u \in Tasks |-> IF u \in {t, "supervisor"} THEN task[t].ans ELSE held[u]]
        /\ UNCHANGED <<cs, stream, server, aged, drawn, used, runs, beats, paired>>
    BY <1>0, <1>4 DEF Registered, serverVars, counters, RunInv, FileTypeOK
  <2>2. app' \in Config /\ held' \in [Tasks -> Tokens \cup {None}]
    BY <1>0, <2>1, ConfigFields DEF TaskTypeOK
  <2>3. /\ task' \in [Tasks -> TaskState] /\ task'[t].at = "wait"
        /\ \A u \in Tasks : u # t => task'[u] = task[u]
    BY <2>1, ResetType, IdleAgain
  <2>4. TypeOK'
    BY <1>0, <2>1, <2>2, <2>3, SaveType DEF TypeOK, FileTypeOK, TaskTypeOK, ServerTypeOK
  <2>5. RunInv'
    BY <2>1, <2>2, <2>3, ConfigFields, RunFrame
  <2>6. QED
    BY <2>4, <2>5
<1>5. CASE ResetIdentity(t)
  <2>1. /\ task[t].at = "told" /\ used # Ids
        /\ app' = [app EXCEPT !.id = NewId, !.pt = None] /\ app \in Config
        /\ used' = used \cup {NewId} /\ Save(app')
        /\ UNCHANGED <<cs, held, stream, server, aged, drawn, runs, beats, paired>>
    BY <1>0, <1>5 DEF ResetIdentity, serverVars, RunInv, FileTypeOK
  <2>2. NewId \in Ids /\ app' \in Config
    BY <1>0, <2>1, NewIdType, ConfigFields
  <2>3. \E at \in {"off", "wait", "read"}, b \in BOOLEAN :
            task' = [task EXCEPT ![t] = [Idle(at) EXCEPT !.reset = b]]
    BY <1>5, IdleAgain DEF ResetIdentity
  <2>4. /\ task' \in [Tasks -> TaskState] /\ task'[t].at \in {"off", "wait", "read"}
        /\ \A u \in Tasks : u # t => task'[u] = task[u]
    BY <2>3, ResetType
  <2>5. TypeOK'
    BY <1>0, <2>1, <2>2, <2>4, SaveType DEF TypeOK, FileTypeOK, TaskTypeOK, ServerTypeOK
  <2>6. RunInv'
    BY <2>1, <2>2, <2>4, ConfigFields, RunFrame
  <2>7. QED
    BY <2>5, <2>6
<1>6. CASE BackOff(t)
  <2>1. /\ UNCHANGED <<file, app, cs, held, stream, server, aged, drawn, used, runs, beats, paired, seen>>
        /\ task' = [task EXCEPT ![t] = [Idle("backoff") EXCEPT !.reset = task[t].reset]]
        /\ task[t].at = "told" /\ task[t].reset \in BOOLEAN /\ app # None
    BY <1>0, <1>6 DEF BackOff, serverVars, counters, RunInv, TaskState
  <2>2. /\ task' \in [Tasks -> TaskState] /\ task'[t].at = "backoff"
        /\ \A u \in Tasks : u # t => task'[u] = task[u]
    BY <2>1, ResetType
  <2>3. TypeOK'
    BY <1>0, <2>1, <2>2 DEF TypeOK, FileTypeOK, TaskTypeOK, ServerTypeOK
  <2>4. RunInv'
    BY <2>1, <2>2, RunFrame
  <2>5. QED
    BY <2>3, <2>4
<1>7. QED
  BY <1>1, <1>2, <1>3, <1>4, <1>5, <1>6 DEF TaskStep

LEMMA OtherTypes ==
    ASSUME TypeOK, RunInv, StreamStep \/ RetryStep \/ ServerStep
    PROVE  TypeOK' /\ RunInv'
<1>0. FileTypeOK /\ TaskTypeOK /\ ServerTypeOK
  BY TypeParts
<1>1. CASE StreamStep
  <2>1. UNCHANGED <<file, app, cs, task, held, server, aged, drawn, used, runs, beats, paired, seen>>
    BY <1>1 DEF StreamStep, OpenStream, StreamEnds, serverVars, counters
  <2>2. stream' \in [id : Ids, tok : Tokens] \cup {None} /\ (stream' = None \/ cs # None)
    <3>1. CASE OpenStream
      <4>1. app \in Config /\ held["supervisor"] \in Tokens /\ cs # None
        BY <1>0, <3>1 DEF OpenStream, MayConnect, RunInv, FileTypeOK, TaskTypeOK, Tasks
      <4>2. QED
        BY <3>1, <4>1, ConfigFields DEF OpenStream
    <3>2. QED
      BY <1>1, <3>1 DEF StreamStep, StreamEnds
  <2>3. QED
    BY <1>0, <2>1, <2>2 DEF TypeOK, FileTypeOK, TaskTypeOK, ServerTypeOK, RunInv, InFlight
<1>2. CASE RetryStep
  <2>1. /\ UNCHANGED <<file, app, cs, held, stream, server, aged, drawn, used, runs, paired, seen>>
        /\ beats' \in 0 .. MaxBeats
    BY <1>0, <1>2, ConstantAssumption
       DEF RetryStep, BeatRefused, StreamRefused, serverVars, counters, FileTypeOK
  <2>2. PICK t \in Tasks : task[t].at = "wait" /\ task' = [task EXCEPT ![t] = Idle("read")]
    BY <1>2 DEF RetryStep, BeatRefused, StreamRefused, MayConnect, Tasks
  <2>3. /\ task' \in [Tasks -> TaskState] /\ task'[t].at = "read"
        /\ \A u \in Tasks : u # t => task'[u] = task[u]
    BY <2>2, ResetType, IdleAgain
  <2>4. TypeOK'
    BY <1>0, <2>1, <2>3 DEF TypeOK, FileTypeOK, TaskTypeOK, ServerTypeOK
  <2>5. RunInv'
    <3>1. app' # None
      BY <2>1, <2>2 DEF RunInv
    <3>2. QED
      BY <2>1, <2>2, <2>3, <3>1, RunFrame
  <2>6. QED
    BY <2>4, <2>5
<1>3. CASE ServerStep
  <2>1. /\ UNCHANGED <<file, app, cs, task, held, stream, drawn, used, runs, beats, paired>>
        /\ \/ UNCHANGED <<server, seen>> /\ \E k \in Tokens : aged' = aged \cup {k}
           \/ /\ \E i \in Ids : server' = [server EXCEPT ![i] = None]
              /\ seen' = seen \cup {"wiped"} /\ UNCHANGED aged
    BY <1>3 DEF ServerStep, Age, Wipe, desktopVars, counters
  <2>2. ServerTypeOK' /\ seen' \subseteq Faults \cup {"stale", "race"}
    BY <1>0, <2>1 DEF ServerTypeOK, FileTypeOK, Faults
  <2>3. QED
    BY <1>0, <2>1, <2>2 DEF TypeOK, FileTypeOK, TaskTypeOK, ServerTypeOK, RunInv, InFlight
<1>4. QED
  BY <1>1, <1>2, <1>3

LEMMA RunKept ==
    ASSUME TypeOK, RunInv, AppStep \/ ServiceStep PROVE RunInv'
<1>1. CASE Launch
  BY <1>1, AppType, NoneAssumption, NewIdType, DefaultType, TypeParts
     DEF Launch, load, RunInv, InFlight, FileTypeOK, NoConfig
<1>2. CASE Quit \/ CrashInSave
  <2>1. /\ app' = None /\ cs' = None /\ stream' = None
        /\ task' = [t \in Tasks |-> Idle("off")]
    BY <1>2 DEF Quit, CrashInSave, Terminated
  <2>2. QED
    BY <2>1, IdleType DEF RunInv, InFlight
<1>3. ASSUME NEW o \in Options, SetOption(o) PROVE RunInv'
  <2>1. app \in Config /\ app' = [app EXCEPT !.opt = o] /\ UNCHANGED <<task, cs, stream>>
    BY <1>3 DEF SetOption, Running, TypeOK
  <2>2. QED
    BY <2>1, ConfigFields DEF RunInv, InFlight
<1>4. CASE start_server
  <2>1. /\ app' = app /\ app # None /\ cs' = app
        /\ task' = [t \in Tasks |-> IF t = "heartbeat" THEN Idle("read") ELSE Idle("wait")]
    BY <1>4 DEF start_server, Running
  <2>2. QED
    BY <2>1, IdleType DEF RunInv, InFlight
<1>5. CASE stop_server
  <2>1. app' = app /\ cs' = None /\ stream' = None /\ task' = [t \in Tasks |-> Idle("off")]
    BY <1>5 DEF stop_server
  <2>2. QED
    BY <2>1, IdleType DEF RunInv, InFlight
<1>6. ASSUME NEW p \in PhoneTokens, add_connection_token(p) PROVE RunInv'
  <2>1. app' = app /\ UNCHANGED <<stream, task>> /\ cs # None /\ cs' # None
    BY <1>6, PairedCopy, ConfigFields DEF add_connection_token
  <2>2. QED
    BY <2>1 DEF RunInv, InFlight
<1>7. QED
  BY <1>1, <1>2, <1>3, <1>4, <1>5, <1>6 DEF AppStep, ServiceStep

LEMMA TypeStep == ASSUME TypeOK, RunInv, [Next]_vars PROVE TypeOK' /\ RunInv'
<1>1. CASE UNCHANGED vars
  BY <1>1 DEF vars, desktopVars, serverVars, counters, TypeOK, RunInv, InFlight
<1>2. CASE Next
  BY <1>2, NextByKind, AppType, ServiceType, RunKept, TaskType, OtherTypes
<1>3. QED
  BY <1>1, <1>2

LEMMA TypeInit == Init => TypeOK /\ RunInv
<1> SUFFICES ASSUME Init PROVE TypeOK /\ RunInv
  OBVIOUS
<1>1. task \in [Tasks -> TaskState] /\ \A t \in Tasks : task[t].at = "off"
  BY IdleType DEF Init
<1>2. FileTypeOK
  BY ConstantAssumption, EmptySeq DEF Init, FileTypeOK, NoConfig
<1>3. QED
  BY <1>1, <1>2, TypeParts DEF Init, TaskTypeOK, ServerTypeOK, RunInv, InFlight

LEMMA TypeInvariant == Spec => [](TypeOK /\ RunInv)
  BY TypeInit, TypeStep, PTL DEF Spec

\* Every variable keeps its type.
THEOREM TypeCorrect == Spec => []TypeOK
  BY TypeInvariant, PTL

-----------------------------------------------------------------------------
(* IdentityKept.  While none of the causes occurred, file and memory name   *)
(* the same device and token, and the server's row holds that token, or     *)
(* the one in the only answer under way.                                    *)

SameIdentity ==
    /\ file \in Config \cup {None}
    /\ file = None => used = {} /\ app = None
    /\ file # None => used = {file.id}
    /\ app # None => app.id = file.id /\ app.pt = file.pt
RowMatches ==
    /\ \A t \in Tasks : InFlight(t) => task[t].id = file.id /\ task[t].pt = file.pt
    /\ \A t \in Tasks : task[t].at = "told" =>
          task[t].ans \in Tokens /\ server[file.id] \in {None, task[t].ans}
    /\ \A t \in Tasks : task[t].at = "asked" => server[file.id] \in {None, file.pt}
    /\ file # None /\ (\A t \in Tasks : ~InFlight(t)) => server[file.id] \in {None, file.pt}
    /\ \A t, u \in Tasks : InFlight(t) /\ InFlight(u) => t = u
    /\ \A i \in Ids : i \notin used => server[i] = None
Innocent == seen \cap Causes = {}
IdentityInv == Innocent => SameIdentity /\ RowMatches

IdentityContext == TypeOK /\ RunInv /\ IdentityInv /\ TypeOK' /\ RunInv' /\ Innocent' /\ seen \subseteq seen'

LEMMA ContextFacts ==
    ASSUME IdentityContext
    PROVE  /\ Innocent /\ SameIdentity /\ RowMatches
           /\ {"lost", "disk", "torn", "stale", "race"} \cap seen' = {}
  BY DEF IdentityContext, IdentityInv, Innocent, Causes

\* A step that leaves file, memory, tasks and table alone.
LEMMA IdentityFrame ==
    ASSUME IdentityContext, UNCHANGED <<file, app, task, server, used>>
    PROVE  SameIdentity' /\ RowMatches'
  BY ContextFacts DEF SameIdentity, RowMatches, InFlight

LEMMA IdentityApp == ASSUME IdentityContext, AppStep PROVE SameIdentity' /\ RowMatches'
<1>0. /\ Innocent /\ SameIdentity /\ RowMatches
      /\ {"lost", "disk", "torn", "stale", "race"} \cap seen' = {}
      /\ FileTypeOK /\ TaskTypeOK /\ ServerTypeOK
  BY ContextFacts, TypeParts DEF IdentityContext
<1>1. CASE Launch
  <2>1. app = None /\ UNCHANGED <<task, server>> /\ load
    BY <1>1 DEF Launch, Running, serverVars
  <2>2. \A t \in Tasks : ~InFlight(t) /\ ~InFlight(t)' /\ task[t].at = "off" /\ task'[t].at = "off"
    BY <2>1 DEF IdentityContext, RunInv, InFlight
  <2>3. CASE file # None
    <3>1. app' = file /\ UNCHANGED <<file, used>> /\ file \in Config
      BY <1>0, <2>1, <2>3, ConfigFields DEF load, SameIdentity, NoConfig
    <3>2. SameIdentity'
      BY <1>0, <3>1, ConfigFields DEF SameIdentity
    <3>3. RowMatches'
      BY <1>0, <2>1, <2>2, <3>1 DEF RowMatches, InFlight
    <3>4. QED
      BY <3>2, <3>3
  <2>4. CASE file = None
    <3>1. /\ used = {} /\ used # Ids /\ app' = DefaultConfig(NewId) /\ used' = used \cup {NewId}
          /\ Save(app')
      BY <1>0, <2>1, <2>4, NoneAssumption DEF load, SameIdentity, NoConfig
    <3>2. file' = app'
      BY <1>0, <3>1 DEF Save
    <3>3. NewId \in Ids /\ NewId \notin used /\ app' \in Config /\ app'.id = NewId /\ app'.pt = None
      BY <1>0, <3>1, NewIdType, DefaultType
    <3>4. SameIdentity'
      BY <3>1, <3>2, <3>3, ConfigFields DEF SameIdentity
    <3>5. server'[NewId] = None /\ \A i \in Ids : i \notin used' => server'[i] = None
      BY <1>0, <2>1, <3>1, <3>3 DEF RowMatches
    <3>6. RowMatches'
      BY <2>2, <3>2, <3>3, <3>5 DEF RowMatches
    <3>7. QED
      BY <3>4, <3>6
  <2>5. QED
    BY <2>3, <2>4
<1>2. CASE Quit
  <2>1. /\ app' = None /\ task' = [t \in Tasks |-> Idle("off")] /\ UNCHANGED <<file, server, used>>
        /\ ~Unread
    BY <1>0, <1>2 DEF Quit, Terminated, serverVars, counters
  <2>2. \A t \in Tasks : task'[t].at = "off" /\ ~InFlight(t)'
    BY <2>1, IdleType DEF InFlight
  <2>3. file # None => server[file.id] \in {None, file.pt}
    <3>1. ASSUME NEW t \in Tasks, task[t].at = "told" PROVE server[file.id] \in {None, file.pt}
      BY <1>0, <2>1, <3>1 DEF Unread, RowMatches, InFlight
    <3>2. QED
      BY <1>0, <3>1 DEF RowMatches, InFlight
  <2>4. SameIdentity'
    BY <1>0, <2>1 DEF SameIdentity
  <2>5. RowMatches'
    BY <1>0, <2>1, <2>2, <2>3 DEF RowMatches
  <2>6. QED
    BY <2>4, <2>5
<1>3. CASE CrashInSave
  BY <1>0, <1>3 DEF CrashInSave
<1>4. ASSUME NEW o \in Options, SetOption(o) PROVE SameIdentity' /\ RowMatches'
  <2>1. /\ app \in Config /\ app' = [app EXCEPT !.opt = o] /\ Save(app')
        /\ UNCHANGED <<task, server, used>>
    BY <1>0, <1>4 DEF SetOption, Running, FileTypeOK, serverVars, counters
  <2>2. file' = app' /\ app' \in Config /\ app'.id = app.id /\ app'.pt = app.pt /\ app # None
    BY <1>0, <2>1, ConfigFields DEF Save
  <2>3. file # None /\ app'.id = file.id /\ app'.pt = file.pt
    BY <1>0, <2>2 DEF SameIdentity
  <2>4. SameIdentity'
    BY <1>0, <2>1, <2>2, <2>3, ConfigFields DEF SameIdentity
  <2>5. RowMatches'
    BY <1>0, <2>1, <2>2, <2>3 DEF RowMatches, InFlight
  <2>6. QED
    BY <2>4, <2>5
<1>5. QED
  BY <1>1, <1>2, <1>3, <1>4 DEF AppStep

LEMMA IdentityService == ASSUME IdentityContext, ServiceStep PROVE SameIdentity' /\ RowMatches'
<1>0. /\ Innocent /\ SameIdentity /\ RowMatches
      /\ {"lost", "disk", "torn", "stale", "race"} \cap seen' = {}
      /\ FileTypeOK /\ TaskTypeOK /\ ServerTypeOK /\ TypeOK /\ RunInv
  BY ContextFacts, TypeParts DEF IdentityContext
<1>1. CASE start_server \/ stop_server
  <2>1. UNCHANGED <<file, app, server, used>>
    BY <1>1 DEF start_server, stop_server, serverVars, counters
  <2>2. \A t \in Tasks : ~InFlight(t) /\ ~InFlight(t)' /\ task'[t].at \notin {"asked", "told"}
    <3>1. CASE start_server
      <4>1. cs = None /\ task' = [t \in Tasks |-> IF t = "heartbeat" THEN Idle("read") ELSE Idle("wait")]
        BY <3>1 DEF start_server, Serving
      <4>2. QED
        BY <1>0, <4>1, IdleType DEF InFlight, RunInv
    <3>2. CASE stop_server
      <4>1. /\ task' = [t \in Tasks |-> Idle("off")] /\ task["supervisor"].at = "wait"
            /\ task["heartbeat"].at \in {"off", "wait", "backoff"}
        BY <3>2 DEF stop_server
      <4>2. QED
        BY <4>1, IdleType DEF InFlight, Tasks
    <3>3. QED
      BY <1>1, <3>1, <3>2
  <2>3. QED
    BY <1>0, <2>1, <2>2 DEF SameIdentity, RowMatches, InFlight
<1>2. ASSUME NEW p \in PhoneTokens, add_connection_token(p) PROVE SameIdentity' /\ RowMatches'
  <2>1. /\ cs \in Config /\ UNCHANGED <<app, task, server, used>> /\ file' = cs'
        /\ cs.id = app.id /\ cs.pt = app.pt
    BY <1>0, <1>2 DEF add_connection_token, Serving, FileTypeOK, serverVars, counters
  <2>2. app # None
    BY <1>2 DEF add_connection_token, Serving, IdentityContext, RunInv
  <2>3. cs' \in Config /\ cs'.id = cs.id /\ cs'.pt = cs.pt
    BY <1>0, <1>2, PairedCopy
  <2>4. file # None /\ file'.id = file.id /\ file'.pt = file.pt /\ file' \in Config /\ file' # None
    BY <1>0, <2>1, <2>2, <2>3, ConfigFields DEF SameIdentity
  <2>5. SameIdentity'
    BY <1>0, <2>1, <2>4 DEF SameIdentity
  <2>6. RowMatches'
    BY <1>0, <2>1, <2>4 DEF RowMatches, InFlight
  <2>7. QED
    BY <2>5, <2>6
<1>3. QED
  BY <1>1, <1>2 DEF ServiceStep

LEMMA IdentityTask ==
    ASSUME IdentityContext, NEW t \in Tasks, TaskStep(t) PROVE SameIdentity' /\ RowMatches'
<1>0. /\ Innocent /\ SameIdentity /\ RowMatches
      /\ {"lost", "disk", "torn", "stale", "race"} \cap seen' = {}
      /\ FileTypeOK /\ TaskTypeOK /\ ServerTypeOK /\ task[t] \in TaskState
      /\ TypeOK /\ RunInv
  BY ContextFacts, TypeParts DEF IdentityContext, TaskTypeOK
<1>1. CASE Ask(t)
  <2>1. /\ UNCHANGED <<file, app, server, used>> /\ app \in Config
        /\ task'[t].at = "asked" /\ task'[t].id = app.id /\ task'[t].pt = app.pt
        /\ \A u \in Tasks : u # t => task'[u] = task[u]
    BY <1>0, <1>1, AskType DEF Ask, serverVars, counters
  <2>2. \A u \in Tasks : ~InFlight(u)
    BY <1>0, <1>1 DEF Ask, InFlight
  <2>3. app # None /\ file # None
    BY <1>0, <2>1, ConfigFields DEF SameIdentity
  <2>4. SameIdentity'
    BY <1>0, <2>1 DEF SameIdentity
  <2>5. RowMatches'
    BY <1>0, <2>1, <2>2, <2>3 DEF RowMatches, InFlight, SameIdentity
  <2>6. QED
    BY <2>4, <2>5
<1>2. CASE Serve(t)
  <2>1. UNCHANGED <<file, app, used>> /\ task[t].at = "asked" /\ upsert(t)
    BY <1>2 DEF Serve, counters
  <2> DEFINE i == file.id
             p == file.pt
  <2>2. /\ task[t].id = i /\ task[t].pt = p /\ server[i] \in {None, p} /\ i \in Ids
        /\ (\A u \in Tasks : u # t => ~InFlight(u)) /\ p \in Tokens \cup {None}
    BY <1>0, <2>1 DEF RowMatches, RunInv, InFlight, TaskState
  <2>3. file # None
    BY <1>0, <2>1 DEF SameIdentity, RunInv
  <2>4. \E a \in Tokens : Answer(t, a) /\ server'[i] \in {None, a}
                          /\ \A j \in Ids : j # i => server'[j] = server[j]
    <3>1. CASE Issue(t, i)
      <4>1. NewToken \in Tokens /\ Answer(t, NewToken) /\ server' = [server EXCEPT ![i] = NewToken]
        BY <1>0, <3>1, NewTokenType DEF Issue
      <4>2. QED
        BY <1>0, <2>2, <4>1 DEF ServerTypeOK
    <3>2. CASE ~Issue(t, i)
      <4>1. server[i] # None /\ server[i] = p /\ Answer(t, p) /\ server' = server
        BY <2>1, <2>2, <3>2 DEF upsert
      <4>2. QED
        BY <2>2, <4>1
    <3>3. QED
      BY <3>1, <3>2
  <2>5. PICK a \in Tokens : /\ Answer(t, a) /\ server'[i] \in {None, a}
                            /\ \A j \in Ids : j # i => server'[j] = server[j]
    BY <2>4
  <2>6. /\ task'[t].at = "told" /\ task'[t].ans = a /\ task'[t].id = i /\ task'[t].pt = p
        /\ \A u \in Tasks : u # t => task'[u] = task[u]
    BY <1>0, <2>2, <2>5, AnswerType
  <2>7. SameIdentity'
    BY <1>0, <2>1 DEF SameIdentity
  <2>8. used = {i}
    BY <1>0, <2>3 DEF SameIdentity
  <2>9. RowMatches'
    BY <1>0, <2>1, <2>2, <2>5, <2>6, <2>8 DEF RowMatches, InFlight
  <2>10. QED
    BY <2>7, <2>9
<1>3. CASE Lose(t)
  BY <1>0, <1>3 DEF Lose
<1>4. CASE Registered(t)
  <2>1. /\ task[t].at = "told" /\ app' = [app EXCEPT !.pt = task[t].ans] /\ Save(app')
        /\ task' = [task EXCEPT ![t] = Idle("wait")] /\ app \in Config /\ UNCHANGED <<server, used>>
    BY <1>0, <1>4 DEF Registered, serverVars, counters, RunInv, FileTypeOK
  <2>2. /\ task[t].ans \in Tokens /\ server[file.id] \in {None, task[t].ans}
        /\ \A u \in Tasks : u # t => ~InFlight(u)
    BY <1>0, <2>1 DEF RowMatches, InFlight
  <2>3. file' = app' /\ app' \in Config /\ app'.id = app.id /\ app'.pt = task[t].ans
    <3>1. app' \in Config /\ app'.id = app.id /\ app'.pt = task[t].ans
      BY <2>1, <2>2, ConfigFields
    <3>2. file' = app'
      BY <1>0, <2>1 DEF Save
    <3>3. QED
      BY <3>1, <3>2
  <2>4. app # None /\ file # None /\ app.id = file.id /\ file' # None
    BY <1>0, <2>1, <2>3, ConfigFields DEF SameIdentity
  <2>5. \A u \in Tasks : ~InFlight(u)' /\ task'[u].at \notin {"asked", "told"}
    <3>1. task'[t].at = "wait" /\ \A u \in Tasks : u # t => task'[u] = task[u]
      BY <1>0, <2>1, ResetType, IdleAgain
    <3>2. QED
      BY <2>2, <3>1 DEF InFlight
  <2>6. SameIdentity'
    BY <1>0, <2>1, <2>3, <2>4 DEF SameIdentity
  <2>7. RowMatches'
    BY <1>0, <2>1, <2>2, <2>3, <2>4, <2>5 DEF RowMatches
  <2>8. QED
    BY <2>6, <2>7
<1>5. CASE ResetIdentity(t) \/ BackOff(t)
  <2>1. task[t].at = "told" /\ task[t].ans \in {Refused, Lost}
    BY <1>5 DEF ResetIdentity, BackOff
  <2>2. task[t].ans \in Tokens
    BY <1>0, <2>1 DEF RowMatches
  <2>3. QED
    BY <2>1, <2>2, ConstantAssumption
<1>6. QED
  BY <1>1, <1>2, <1>3, <1>4, <1>5 DEF TaskStep

LEMMA IdentityOthers ==
    ASSUME IdentityContext, StreamStep \/ RetryStep \/ ServerStep PROVE SameIdentity' /\ RowMatches'
<1>0. Innocent /\ SameIdentity /\ RowMatches /\ TypeOK /\ ServerTypeOK /\ TaskTypeOK
  BY ContextFacts, TypeParts DEF IdentityContext
<1>1. CASE StreamStep
  BY <1>1, IdentityFrame DEF StreamStep, OpenStream, StreamEnds, serverVars, counters
<1>2. CASE RetryStep
  <2>1. UNCHANGED <<file, app, server, used>>
    BY <1>2 DEF RetryStep, BeatRefused, StreamRefused, serverVars, counters
  <2>2. PICK t \in Tasks : task[t].at = "wait" /\ task' = [task EXCEPT ![t] = Idle("read")]
    BY <1>2 DEF RetryStep, BeatRefused, StreamRefused, MayConnect, Tasks
  <2>3. task'[t].at = "read" /\ \A u \in Tasks : u # t => task'[u] = task[u]
    BY <1>0, <2>2, ResetType, IdleAgain
  <2>4. QED
    BY <1>0, <2>1, <2>3, <2>2 DEF SameIdentity, RowMatches, InFlight
<1>3. CASE ServerStep
  <2>1. /\ UNCHANGED <<file, app, task, used>>
        /\ server' = server \/ \E i \in Ids : server' = [server EXCEPT ![i] = None]
    BY <1>3 DEF ServerStep, Age, Wipe, desktopVars, counters
  <2>2. \A i \in Ids : server'[i] = server[i] \/ server'[i] = None
    BY <1>0, <2>1 DEF ServerTypeOK
  <2>3. file # None => file.id \in Ids
    BY <1>0, ConfigFields DEF SameIdentity
  <2>4. SameIdentity'
    BY <1>0, <2>1 DEF SameIdentity
  <2>5. \A t \in Tasks : InFlight(t) => file # None
    BY <1>0 DEF IdentityContext, RunInv, SameIdentity, InFlight
  <2>6. RowMatches'
    BY <1>0, <2>1, <2>2, <2>3, <2>5 DEF RowMatches, InFlight
  <2>7. QED
    BY <2>4, <2>6
<1>4. QED
  BY <1>1, <1>2, <1>3

LEMMA SeenGrows == ASSUME [Next]_vars PROVE seen \subseteq seen'
<1>1. ASSUME NEW c, Save(c) PROVE seen \subseteq seen'
  BY <1>1 DEF Save
<1>2. CASE UNCHANGED vars
  BY <1>2 DEF vars
<1>3. CASE Launch
  BY <1>1, <1>3 DEF Launch, load
<1>4. CASE Quit \/ CrashInSave
  BY <1>4 DEF Quit, CrashInSave
<1>5. ASSUME NEW o \in Options, SetOption(o) PROVE seen \subseteq seen'
  BY <1>1, <1>5 DEF SetOption
<1>6. CASE start_server \/ stop_server
  BY <1>6 DEF start_server, stop_server
<1>7. ASSUME NEW p \in PhoneTokens, add_connection_token(p) PROVE seen \subseteq seen'
  BY <1>7 DEF add_connection_token
<1>8. ASSUME NEW t \in Tasks, TaskStep(t) PROVE seen \subseteq seen'
  BY <1>1, <1>8 DEF TaskStep, Ask, Serve, Lose, Registered, ResetIdentity, BackOff
<1>9. CASE StreamStep \/ RetryStep \/ ServerStep
  BY <1>9 DEF StreamStep, RetryStep, ServerStep, OpenStream, StreamEnds, BeatRefused, StreamRefused,
     Age, Wipe
<1>10. QED
  BY <1>2, <1>3, <1>4, <1>5, <1>6, <1>7, <1>8, <1>9, NextByKind DEF AppStep, ServiceStep

LEMMA IdentityStep == ASSUME TypeOK, RunInv, IdentityInv, [Next]_vars PROVE IdentityInv'
<1> SUFFICES ASSUME Innocent' PROVE SameIdentity' /\ RowMatches'
  BY DEF IdentityInv
<1>1. IdentityContext
  BY TypeStep, SeenGrows DEF IdentityContext
<1>2. CASE UNCHANGED vars
  BY <1>1, <1>2, IdentityFrame DEF vars, desktopVars, serverVars, counters
<1>3. CASE Next
  BY <1>1, <1>3, NextByKind, IdentityApp, IdentityService, IdentityTask, IdentityOthers
<1>4. QED
  BY <1>2, <1>3

\* Restarts, rotated tokens, stops, settings, pairings and lost server rows never
\* cost the desktop its identity, unless one of the five causes occurred.
THEOREM OneIdentity == Spec => []IdentityKept
<1>1. Init => IdentityInv
  <2> SUFFICES ASSUME Init PROVE SameIdentity /\ RowMatches
    BY DEF IdentityInv
  <2>1. \A t \in Tasks : ~InFlight(t) /\ task[t].at = "off"
    BY IdleType DEF Init, InFlight
  <2>2. SameIdentity
    BY DEF Init, SameIdentity
  <2>3. file = None /\ used = {} /\ \A i \in Ids : server[i] = None
    BY DEF Init
  <2>4. RowMatches
    BY <2>1, <2>3 DEF RowMatches
  <2>5. QED
    BY <2>2, <2>4
<1>2. TypeOK /\ RunInv /\ IdentityInv /\ [Next]_vars => IdentityInv'
  BY IdentityStep
<1>3. IdentityInv => IdentityKept
  <2> SUFFICES ASSUME IdentityInv, Innocent PROVE Cardinality(used) <= 1
    BY DEF IdentityKept, Innocent
  <2>1. CASE used = {}
    BY <2>1, FS_EmptySet
  <2>2. CASE used = {file.id}
    <3>1. \A x : Cardinality({x}) = 1
      BY FS_Singleton
    <3>2. QED
      BY <2>2, <3>1
  <2>3. QED
    BY <2>1, <2>2 DEF IdentityInv, SameIdentity
<1>4. QED
  BY <1>1, <1>2, <1>3, TypeInvariant, PTL DEF Spec
=============================================================================
