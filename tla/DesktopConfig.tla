--------------------------- MODULE DesktopConfig ---------------------------
(***************************************************************************)
(* The desktop's config.toml and its two copies in memory (config/mod.rs): *)
(* AppState.config, which settings and registration save, and the copy     *)
(* start_server gives to ConnectionState, which the issuing of phone       *)
(* tokens saves (connection.rs).  Each save writes the whole file.  The    *)
(* device's identity and the pairing server's token live there, so the     *)
(* registration of network/heartbeat.rs is part of the model: the          *)
(* heartbeat task and the signaling supervisor both run it.                *)
(*                                                                         *)
(* The pairing server is one table from device id to token; an upsert is   *)
(* atomic here (DeviceRegistry has its steps).  A request and its answer   *)
(* are separate steps.  `seen` records what went wrong in a history; each  *)
(* outside fault happens at most once.                                     *)
(***************************************************************************)
EXTENDS Naturals, Sequences, FiniteSets

CONSTANTS
    Ids,          \* device ids (UUID v4: never drawn twice)
    Tokens,       \* tokens the pairing server may issue
    PhoneTokens,  \* connection tokens the desktop may issue
    Options,      \* values of the settings
    MaxTokens,    \* MAX_CONNECTION_TOKENS
    MaxRuns,      \* bound: launches of the application
    MaxFaults,    \* bound: outside faults in one history
    MaxAged,      \* bound: tokens that become old
    MaxBeats,     \* bound: status reports that are refused
    None, Broken, Refused, Lost

ASSUME ConstantAssumption ==
    /\ IsFiniteSet(Ids) /\ MaxTokens \in Nat \ {0}
    /\ MaxRuns \in Nat /\ MaxFaults \in Nat /\ MaxAged \in Nat /\ MaxBeats \in Nat
    /\ None \notin Ids \cup Tokens
    /\ {None, Refused, Lost} \cap Tokens = {} /\ Refused # Lost
    /\ None # Refused /\ None # Lost
    /\ Options # {}

VARIABLES
    file,    \* config.toml: a Config, None before the first launch, or Broken
    app,     \* AppState.config, None while the application is not running
    cs,      \* ConnectionState.config, None while the service is stopped
    task,    \* the two tasks that register
    held,    \* heartbeat: its local token; supervisor: the value of the token bus
    stream,  \* the supervisor's SSE stream: device id and token it was opened with
    server,  \* the pairing server's table
    aged,    \* server tokens older than DEVICE_TOKEN_TTL
    drawn,   \* server tokens issued so far
    used,    \* device ids drawn so far
    paired,  \* phone tokens issued so far, oldest first
    runs,    \* launches so far
    beats,   \* status reports refused so far
    seen     \* what happened to this history

desktopVars == <<app, cs, task, held, stream>>
serverVars  == <<server, aged, drawn>>
counters == <<used, runs, beats>>
vars == <<file, desktopVars, serverVars, counters, paired, seen>>

Tasks  == {"heartbeat", "supervisor"}
Faults == {"lost", "disk", "torn", "wiped"}
Config == [id : Ids, pt : Tokens \cup {None}, ct : Seq(PhoneTokens), opt : Options]
NoConfig == {None, Broken}
ASSUME NoneAssumption ==
    /\ None \notin Config /\ Broken \notin Config /\ None # Broken
    /\ None \notin [id : Ids, tok : Tokens]

(* One run of register_with_backoff: the snapshot it sent, the answer, and  *)
(* identity_reset_done.  "wait" is outside of it.                           *)
TaskState == [at : {"off", "wait", "read", "backoff", "asked", "told"},
              id : Ids \cup {None}, pt : Tokens \cup {None},
              ans : Tokens \cup {None, Refused, Lost}, reset : BOOLEAN]
Idle(at) == [at |-> at, id |-> None, pt |-> None, ans |-> None, reset |-> FALSE]

TypeOK ==
    /\ file \in Config \cup NoConfig
    /\ app \in Config \cup {None}
    /\ cs \in Config \cup {None}
    /\ task \in [Tasks -> TaskState]
    /\ held \in [Tasks -> Tokens \cup {None}]
    /\ stream \in [id : Ids, tok : Tokens] \cup {None}
    /\ server \in [Ids -> Tokens \cup {None}]
    /\ aged \subseteq Tokens /\ drawn \subseteq Tokens
    /\ used \subseteq Ids
    /\ paired \in Seq(PhoneTokens)
    /\ runs \in 0 .. MaxRuns /\ beats \in 0 .. MaxBeats
    /\ seen \subseteq Faults \cup {"stale", "race"}

Running   == app # None
Serving   == cs # None
InFlight(t) == task[t].at \in {"asked", "told"}

(* Ids and tokens are random and never repeat; which one is next does not   *)
(* matter.                                                                  *)
NewId    == CHOOSE i \in Ids \ used : TRUE
NewToken == CHOOSE k \in Tokens \ drawn : TRUE
MayFault(f) == f \notin seen /\ Cardinality(seen \cap Faults) < MaxFaults

DefaultConfig(i) == [id |-> i, pt |-> None, ct |-> <<>>,
                     opt |-> CHOOSE o \in Options : TRUE]

(* DropVoiceConfig::save of c, which may fail and leave the file as it was. *)
Save(c) ==
    \/ file' = c /\ UNCHANGED seen
    \/ /\ MayFault("disk")
       /\ seen' = seen \cup {"disk"}
       /\ UNCHANGED file

Init ==
    /\ file = None /\ app = None /\ cs = None
    /\ task = [t \in Tasks |-> Idle("off")]
    /\ held = [t \in Tasks |-> None]
    /\ stream = None
    /\ server = [i \in Ids |-> None]
    /\ aged = {} /\ drawn = {} /\ used = {}
    /\ paired = <<>> /\ runs = 0 /\ beats = 0 /\ seen = {}

-----------------------------------------------------------------------------
(* The application *)

(* DropVoiceConfig::load: the defaults are saved when there is no file, and *)
(* only kept in memory when that fails or the file cannot be parsed.        *)
load ==
    \/ file \notin NoConfig /\ app' = file /\ UNCHANGED <<file, used, seen>>
    \/ /\ file \in NoConfig
       /\ used # Ids
       /\ app' = DefaultConfig(NewId) /\ used' = used \cup {NewId}
       /\ \/ file = None /\ Save(app')
          \/ file = Broken /\ UNCHANGED <<file, seen>>

Launch ==
    /\ ~Running /\ runs < MaxRuns
    /\ load
    /\ runs' = runs + 1
    /\ UNCHANGED <<cs, task, held, stream, serverVars, beats, paired>>

(* set_language, set_theme, set_input_delay: change the copy and save it.   *)
SetOption(o) ==
    /\ Running /\ o # app.opt
    /\ app' = [app EXCEPT !.opt = o]
    /\ Save(app')
    /\ UNCHANGED <<cs, task, held, stream, serverVars, counters, paired>>

Terminated ==
    /\ app' = None /\ cs' = None /\ stream' = None
    /\ task' = [t \in Tasks |-> Idle("off")]
    /\ held' = [t \in Tasks |-> None]

(* A token that was issued but not received dies with the process.         *)
Unread == \E t \in Tasks : task[t].at = "told" /\ task[t].ans \in Tokens \ {task[t].pt}

Quit ==
    /\ Running
    /\ Terminated
    /\ seen' = IF Unread THEN seen \cup {"lost"} ELSE seen
    /\ UNCHANGED <<file, serverVars, counters, paired>>

(* fs::write truncates and then writes: a crash in between leaves a file    *)
(* without the device section.                                              *)
CrashInSave ==
    /\ Running /\ MayFault("torn")
    /\ Terminated
    /\ file' = Broken
    /\ seen' = seen \cup {"torn"}
    /\ UNCHANGED <<serverVars, counters, paired>>

-----------------------------------------------------------------------------
(* The service *)

start_server ==
    /\ Running /\ ~Serving
    /\ cs' = app
    /\ task' = [t \in Tasks |-> IF t = "heartbeat" THEN Idle("read") ELSE Idle("wait")]
    /\ held' = [t \in Tasks |-> None]
    /\ UNCHANGED <<file, app, stream, serverVars, counters, paired, seen>>

(* Both tasks are joined: the heartbeat ends in its sleeps, the supervisor  *)
(* never inside refresh_pairing_token.                                      *)
stop_server ==
    /\ Serving
    /\ task["supervisor"].at = "wait"
    /\ task["heartbeat"].at \in {"off", "wait", "backoff"}
    /\ cs' = None /\ stream' = None
    /\ task' = [t \in Tasks |-> Idle("off")]
    /\ held' = [t \in Tasks |-> None]
    /\ UNCHANGED <<file, app, serverVars, counters, paired, seen>>

Capped(s) == IF Len(s) > MaxTokens THEN SubSeq(s, Len(s) - MaxTokens + 1, Len(s)) ELSE s

(* add_connection_token for a phone that scanned the QR code and reached    *)
(* the desktop: the copy of the service is saved.  cs.tokens and            *)
(* cs.config.device.connected_tokens are always equal.                      *)
add_connection_token(p) ==
    /\ Serving /\ stream # None
    /\ stream.id = cs.id
    /\ \A n \in 1 .. Len(paired) : paired[n] # p
    /\ cs' = [cs EXCEPT !.ct = Capped(Append(@, p))]
    /\ paired' = Append(paired, p)
    /\ LET old == IF cs.id # app.id \/ cs.pt # app.pt THEN {"stale"} ELSE {}
       IN \/ file' = cs' /\ seen' = seen \cup old
          \/ MayFault("disk") /\ seen' = seen \cup {"disk"} /\ UNCHANGED file
    /\ UNCHANGED <<app, task, held, stream, serverVars, counters>>

-----------------------------------------------------------------------------
(* register_with_backoff *)

Ask(t) ==
    /\ task[t].at \in {"read", "backoff"}
    /\ task' = [task EXCEPT ![t].at = "asked", ![t].id = app.id, ![t].pt = app.pt]
    /\ seen' = IF \E u \in Tasks \ {t} : InFlight(u) THEN seen \cup {"race"} ELSE seen
    /\ UNCHANGED <<file, app, cs, held, stream, serverVars, counters, paired>>

Answer(t, a) == task' = [task EXCEPT ![t].at = "told", ![t].ans = a]

Issue(t, i) ==
    /\ drawn # Tokens
    /\ server' = [server EXCEPT ![i] = NewToken]
    /\ drawn' = drawn \cup {NewToken}
    /\ Answer(t, NewToken)

(* device_repo::upsert and match_existing: create, refuse, reuse, rotate.   *)
upsert(t) ==
    LET i == task[t].id
        p == task[t].pt
    IN \/ server[i] = None /\ Issue(t, i)
       \/ /\ server[i] # None /\ server[i] # p
          /\ Answer(t, Refused) /\ UNCHANGED <<server, drawn>>
       \/ /\ server[i] # None /\ server[i] = p /\ p \in aged
          /\ Issue(t, i)
       \/ /\ server[i] # None /\ server[i] = p /\ p \notin aged
          /\ Answer(t, p) /\ UNCHANGED <<server, drawn>>

Serve(t) ==
    /\ task[t].at = "asked"
    /\ upsert(t)
    /\ UNCHANGED <<file, app, cs, held, stream, aged, counters, paired, seen>>

(* The request or its answer does not arrive.                               *)
Lose(t) ==
    /\ InFlight(t) /\ task[t].ans # Lost
    /\ MayFault("lost")
    /\ Answer(t, Lost)
    /\ seen' = seen \cup {"lost"}
    /\ UNCHANGED <<file, app, cs, held, stream, serverVars, counters, paired>>

(* Ok: the token is kept, saved and put on the bus.                         *)
Registered_MemoryOnly(t) ==
    /\ task[t].at = "told" /\ task[t].ans \in Tokens
    /\ app' = [app EXCEPT !.pt = task[t].ans]
    /\ held' = [u \in Tasks |-> IF u \in {t, "supervisor"} THEN task[t].ans ELSE held[u]]
    /\ task' = [task EXCEPT ![t] = Idle("wait")]
    /\ UNCHANGED <<file, seen, cs, stream, serverVars, counters, paired>>

Registered(t) ==
    /\ task[t].at = "told" /\ task[t].ans \in Tokens
    /\ app' = [app EXCEPT !.pt = task[t].ans]
    /\ Save(app')
    /\ held' = [u \in Tasks |-> IF u \in {t, "supervisor"} THEN task[t].ans ELSE held[u]]
    /\ task' = [task EXCEPT ![t] = Idle("wait")]
    /\ UNCHANGED <<cs, stream, serverVars, counters, paired>>

(* The first 401: a new identity without a token, tried at once.  When it   *)
(* cannot be saved the registration is given up, and with it the heartbeat. *)
ResetIdentity(t) ==
    /\ task[t].at = "told" /\ task[t].ans = Refused /\ ~task[t].reset
    /\ used # Ids
    /\ app' = [app EXCEPT !.id = NewId, !.pt = None]
    /\ used' = used \cup {NewId}
    /\ Save(app')
    /\ task' = [task EXCEPT ![t] =
                    IF file' = app' THEN [Idle("read") EXCEPT !.reset = TRUE]
                    ELSE Idle(IF t = "heartbeat" THEN "off" ELSE "wait")]
    /\ UNCHANGED <<cs, held, stream, serverVars, runs, beats, paired>>

(* Any other error, a second 401 included.                                  *)
BackOff(t) ==
    /\ task[t].at = "told"
    /\ task[t].ans = Lost \/ (task[t].ans = Refused /\ task[t].reset)
    /\ task' = [task EXCEPT ![t] = [Idle("backoff") EXCEPT !.reset = task[t].reset]]
    /\ UNCHANGED <<file, app, cs, held, stream, serverVars, counters, paired, seen>>

(* A status report with the task's own token: 401 registers again.          *)
BeatRefused ==
    /\ task["heartbeat"].at = "wait" /\ held["heartbeat"] # None
    /\ server[app.id] # held["heartbeat"]
    /\ beats < MaxBeats /\ beats' = beats + 1
    /\ task' = [task EXCEPT !["heartbeat"] = Idle("read")]
    /\ UNCHANGED <<file, app, cs, held, stream, serverVars, used, runs, paired, seen>>

-----------------------------------------------------------------------------
(* The supervisor *)

MayConnect ==
    task["supervisor"].at = "wait" /\ held["supervisor"] # None /\ stream = None

OpenStream ==
    /\ MayConnect
    /\ server[app.id] = held["supervisor"]
    /\ stream' = [id |-> app.id, tok |-> held["supervisor"]]
    /\ UNCHANGED <<file, app, cs, task, held, serverVars, counters, paired, seen>>

StreamRefused_Waits ==
    /\ MayConnect
    /\ server[app.id] # held["supervisor"]
    /\ UNCHANGED vars

StreamRefused ==
    /\ MayConnect
    /\ server[app.id] # held["supervisor"]
    /\ task' = [task EXCEPT !["supervisor"] = Idle("read")]
    /\ UNCHANGED <<file, app, cs, held, stream, serverVars, counters, paired, seen>>

(* Server lifetime, network, or StreamExit::TokenChanged.                   *)
StreamEnds ==
    /\ stream # None
    /\ stream' = None
    /\ UNCHANGED <<file, app, cs, task, held, serverVars, counters, paired, seen>>

-----------------------------------------------------------------------------
(* The pairing server on its own *)

(* 24 hours pass; no request is under way that long.                        *)
Age(k) ==
    /\ k \notin aged /\ (\E i \in Ids : server[i] = k)
    /\ Cardinality(aged) < MaxAged
    /\ \A t \in Tasks : ~InFlight(t)
    /\ aged' = aged \cup {k}
    /\ UNCHANGED <<file, desktopVars, server, drawn, counters, paired, seen>>

(* The row is collected after 30 days, or the table is lost.                *)
Wipe(i) ==
    /\ server[i] # None /\ MayFault("wiped")
    /\ server' = [server EXCEPT ![i] = None]
    /\ seen' = seen \cup {"wiped"}
    /\ UNCHANGED <<file, desktopVars, aged, drawn, counters, paired>>

Desktop ==
    \/ \E t \in Tasks : Ask(t) \/ Registered(t) \/ ResetIdentity(t) \/ BackOff(t)
    \/ BeatRefused \/ OpenStream \/ StreamRefused \/ StreamEnds
User == Launch \/ Quit \/ start_server \/ stop_server \/ \E o \in Options : SetOption(o)

Next ==
    \/ Desktop \/ User \/ CrashInSave
    \/ \E t \in Tasks : Serve(t) \/ Lose(t)
    \/ \E p \in PhoneTokens : add_connection_token(p)
    \/ \E k \in Tokens : Age(k)
    \/ \E i \in Ids : Wipe(i)

Spec == Init /\ [][Next]_vars

(* The tasks run, the server answers, and no stream outlives                *)
(* SSE_MAX_LIFETIME.  Status reports need no fairness: they come minutes    *)
(* apart, which MaxBeats stands for.                                        *)
Fairness ==
    /\ \A t \in Tasks : /\ WF_vars(Ask(t)) /\ WF_vars(Serve(t))
                        /\ WF_vars(Registered(t)) /\ WF_vars(BackOff(t))
                        /\ WF_vars(ResetIdentity(t))
    /\ WF_vars(OpenStream) /\ WF_vars(StreamRefused) /\ WF_vars(StreamEnds)
FairSpec == Spec /\ Fairness

-----------------------------------------------------------------------------
(* Properties *)

(* config/mod.rs:211 "generated once on first launch and never changed":    *)
(* a history with only one launch id, whatever restarts, rotations, stops,  *)
(* settings, phones and lost server rows it has, unless one of the five     *)
(* known causes occurred: an answer with a new token was lost, the disk     *)
(* failed, a save was torn, the service's outdated copy was saved over the  *)
(* file, or both tasks registered at once.                                  *)
Causes == {"lost", "disk", "torn", "stale", "race"}
IdentityKept == seen \cap Causes = {} => Cardinality(used) <= 1

(* While the service runs it comes to listen under its current identity     *)
(* with a token the server accepts, whatever was lost, wiped, torn or raced *)
(* before, except that a disk that refuses the new identity ends the        *)
(* heartbeat and that a lost answer can lock the desktop out.               *)
Listening ==
    stream # None /\ stream.id = app.id /\ server[app.id] = stream.tok
LockedOut ==
    \E t \in Tasks : task[t].reset /\ server[app.id] \notin {None, app.pt}
ListensUnlessLockedOut ==
    Serving ~> (Listening \/ ~Serving \/ "disk" \in seen \/ LockedOut)

(* heartbeat.rs:88 "back-off retries until it succeeds or is shut down":    *)
(* refuted.  The answer that creates the new identity is lost; the server   *)
(* refuses every retry and a second reset is not allowed.                   *)
RegistrationSucceeds ==
    Serving ~> (Listening \/ ~Serving \/ "disk" \in seen)

(* config/mod.rs:223 "Survives desktop restart so paired mobiles don't need *)
(* re-pairing": refuted.  A started service knows every phone paired before *)
(* that the limit has not pushed out.                                       *)
PairedPhonesKept ==
    Serving /\ Len(paired) <= MaxTokens =>
        \A n \in 1 .. Len(paired) : \E m \in 1 .. Len(cs.ct) : cs.ct[m] = paired[n]

(* heartbeat.rs:153 "already paired phones have to scan again": refuted.    *)
(* The QR code names the device the desktop listens as.                     *)
RescanReachesDesktop == Serving /\ Listening => cs.id = stream.id
=============================================================================
