----------------------- MODULE MobileConnectionProofs ----------------------
(***************************************************************************)
(* Theorems about MobileConnection, for every set of transports, every     *)
(* retry limit and any number of user actions.                             *)
(***************************************************************************)
EXTENDS MobileConnection, TLAPS

\* What the reducer makes of a state: CONNECT starts from offline and reconnecting
\* only, OPEN ends an attempt, CLOSE and FAIL never leave an attempt standing.
LEMMA ReducerSteps ==
    ASSUME NEW c \in ConnectionState
    PROVE  /\ \A e \in Events : connectionReducer(c, e) \in ConnectionState
           /\ connectionReducer(c, "CONNECT").status =
                IF c.status \in {"offline", "reconnecting"} THEN "connecting" ELSE c.status
           /\ connectionReducer(c, "OPEN").status =
                IF c.status \in {"connecting", "reconnecting"} THEN "connected" ELSE c.status
           /\ \A e \in {"CLOSE", "FAIL"} :
                IF c.status \in {"none", "offline"}
                  THEN connectionReducer(c, e).status = c.status
                  ELSE connectionReducer(c, e).status \in {"reconnecting", "offline"}
<1> DEFINE Result(e) == connectionReducer(c, e)
<1>1. c.status \in Status /\ c.retries \in 0 .. MaxRetries
  BY DEF ConnectionState
<1>2. At("offline") \in ConnectionState /\ At("connected") \in ConnectionState
  BY RetriesAssumption DEF At, ConnectionState, Status
<1>3. Connecting(0) \in ConnectionState /\ Reconnecting(0) \in ConnectionState
  BY RetriesAssumption DEF Connecting, Reconnecting, ConnectionState, Status
<1>4. Result("CONNECT") = Connect(c)
  BY DEF connectionReducer
<1>5. Result("OPEN") = IF Attempting(c) THEN At("connected") ELSE c
  BY DEF connectionReducer
<1>6. \A e \in {"CLOSE", "FAIL"} : Result(e) = Dropped(c)
  BY DEF connectionReducer
<1>7. /\ Connect(c) \in ConnectionState
      /\ Connect(c).status =
           IF c.status \in {"offline", "reconnecting"} THEN "connecting" ELSE c.status
  <2>1. CASE c.status = "offline"
    BY <2>1, <1>3 DEF Connect, Connecting
  <2>2. CASE c.status = "reconnecting"
    BY <2>2, <1>1 DEF Connect, Connecting, ConnectionState, Status
  <2>3. CASE c.status \notin {"offline", "reconnecting"}
    BY <2>3 DEF Connect
  <2>4. QED
    BY <2>1, <2>2, <2>3
<1>8. /\ Dropped(c) \in ConnectionState
      /\ IF c.status \in {"none", "offline"}
           THEN Dropped(c).status = c.status
           ELSE Dropped(c).status \in {"reconnecting", "offline"}
  <2>1. CASE c.status = "connected"
    BY <2>1, <1>3 DEF Dropped, Reconnecting
  <2>2. CASE Attempting(c) /\ c.retries + 1 > MaxRetries
    BY <2>2, <1>2 DEF Dropped, Attempting, At
  <2>3. CASE Attempting(c) /\ ~(c.retries + 1 > MaxRetries)
    <3>1. c.retries + 1 \in 0 .. MaxRetries
      BY <1>1, <2>3, RetriesAssumption
    <3>2. Dropped(c) = Reconnecting(c.retries + 1)
      BY <2>3 DEF Dropped, Attempting
    <3>3. QED
      BY <2>3, <3>1, <3>2 DEF Reconnecting, ConnectionState, Status, Attempting
  <2>4. CASE c.status \in {"none", "offline"}
    BY <2>4 DEF Dropped, Attempting
  <2>5. QED
    BY <1>1, <2>1, <2>2, <2>3, <2>4 DEF Status, Attempting
<1>9. Result("OPEN") \in ConnectionState
      /\ Result("OPEN").status =
           IF c.status \in {"connecting", "reconnecting"} THEN "connected" ELSE c.status
  BY <1>2, <1>5 DEF At, Attempting
<1>10. QED
  BY <1>4, <1>6, <1>7, <1>8, <1>9 DEF Events

-----------------------------------------------------------------------------
(* The inductive invariant.                                                *)

\* The session's transport is subscribed and not closed, no other is alive, a text
\* that is owed an answer is on an open channel, and nothing of a session is left
\* when it is gone.
TransportInv ==
    /\ NoOrphanTransport
    /\ transport # None =>
         transport \in wired /\ Exists /\ net[transport] \notin {"unused", "closed"}
    /\ owed => transport # None /\ net[transport] = "open"
    /\ ~Exists => ~timer

HookInv == TypeOK /\ TransportInv /\ ConnectingHasAttempt /\ BackoffArmed /\ AckOwedLocks

LEMMA InitHolds == Init => HookInv
<1> SUFFICES ASSUME Init PROVE HookInv
  OBVIOUS
<1>1. At("none") \in ConnectionState
  BY RetriesAssumption DEF At, ConnectionState, Status
<1>2. TypeOK
  <2>1. timer \in BOOLEAN /\ sending \in BOOLEAN /\ owed \in BOOLEAN
    BY DEF Init
  <2>2. /\ conn \in ConnectionState /\ transport \in Transports \cup {None}
        /\ lastAuth \in Auths \cup {None}
    BY <1>1 DEF Init
  <2>3. net \in [Transports -> NetState] /\ wired \subseteq Transports
    BY DEF Init, NetState
  <2>4. creds \subseteq Auths
    BY DEF Init
  <2>6. users \in 0 .. MaxUser
    BY UserAssumption DEF Init
  <2>5. QED
    BY <2>1, <2>2, <2>3, <2>4, <2>6 DEF TypeOK
<1>3. TransportInv /\ ConnectingHasAttempt /\ BackoffArmed /\ AckOwedLocks
  BY DEF Init, TransportInv, NoOrphanTransport, ConnectingHasAttempt, BackoffArmed,
     AckOwedLocks, Exists, At
<1>4. QED
  BY <1>2, <1>3 DEF HookInv

\* Closing the session's transport leaves no other alive.
LEMMA ClosedTransport ==
    ASSUME HookInv, CloseTransport
    PROVE  /\ transport' = None /\ owed' = FALSE
           /\ net' \in [Transports -> NetState] /\ wired' \subseteq Transports
           /\ \A t \in Transports : net'[t] \in {"unused", "closed"}
  BY NoneAssumption DEF HookInv, TypeOK, TransportInv, NoOrphanTransport, CloseTransport,
     NetClosed, NetState

\* A new transport replaces the old one, and the session attempts or stays connected.
LEMMA OpenedTransport ==
    ASSUME HookInv, NEW c \in ConnectionState, c.status # "none",
           NEW auth \in Auths, OpenTransport(c, auth)
    PROVE  /\ conn' \in ConnectionState /\ conn'.status \in {"connecting", "connected"}
           /\ transport' \in Transports /\ transport' \in wired' /\ wired' \subseteq Transports
           /\ net' \in [Transports -> NetState] /\ net'[transport'] = "connecting"
           /\ \A t \in Transports : t # transport' => net'[t] \in {"unused", "closed"}
           /\ owed' = FALSE /\ lastAuth' = auth
<1>1. conn' = connectionReducer(c, "CONNECT")
  BY DEF OpenTransport
<1>2. conn' \in ConnectionState /\ conn'.status \in {"connecting", "connected"}
  BY <1>1, ReducerSteps DEF Events, ConnectionState, Status
<1>3. PICK t \in Transports :
        /\ net[t] = "unused"
        /\ net' = [NetClosed EXCEPT ![t] = "connecting"]
        /\ wired' = (wired \ {transport}) \cup {t}
        /\ transport' = t
        /\ owed' = FALSE
        /\ lastAuth' = auth
  BY DEF OpenTransport
<1>4. QED
  BY <1>2, <1>3 DEF HookInv, TypeOK, TransportInv, NoOrphanTransport, NetClosed, NetState

\* A session with a fresh transport is in order, whatever it was before.
LEMMA FreshHolds ==
    ASSUME HookInv, NEW c \in ConnectionState, c.status # "none", NEW auth \in Auths,
           OpenTransport(c, auth),
           timer' \in BOOLEAN, sending' \in BOOLEAN, creds' \subseteq Auths,
           users' \in 0 .. MaxUser
    PROVE  HookInv'
<1>1. /\ conn' \in ConnectionState /\ conn'.status \in {"connecting", "connected"}
      /\ transport' \in Transports /\ transport' \in wired' /\ wired' \subseteq Transports
      /\ net' \in [Transports -> NetState] /\ net'[transport'] = "connecting"
      /\ \A t \in Transports : t # transport' => net'[t] \in {"unused", "closed"}
      /\ owed' = FALSE /\ lastAuth' = auth
  BY OpenedTransport
<1>2. TypeOK'
  <2>1. owed' \in BOOLEAN
    BY <1>1
  <2>2. QED
    BY <1>1, <2>1 DEF TypeOK
<1>3. TransportInv' /\ ConnectingHasAttempt' /\ BackoffArmed' /\ AckOwedLocks'
  BY <1>1, NoneAssumption DEF TransportInv, NoOrphanTransport, ConnectingHasAttempt,
     BackoffArmed, AckOwedLocks, Exists
<1>4. QED
  BY <1>2, <1>3 DEF HookInv

\* A session without a transport is in order if it does not claim an attempt.
LEMMA DetachedHolds ==
    ASSUME conn' \in ConnectionState, conn'.status # "connecting",
           transport' = None, owed' = FALSE,
           net' \in [Transports -> NetState], wired' \subseteq Transports,
           \A t \in Transports : net'[t] \in {"unused", "closed"},
           timer' \in BOOLEAN, conn'.status = "reconnecting" => timer',
           conn'.status = "none" => timer' = FALSE,
           lastAuth' \in Auths \cup {None}, sending' \in BOOLEAN,
           creds' \subseteq Auths, users' \in 0 .. MaxUser
    PROVE  HookInv'
<1>1. owed' \in BOOLEAN
  OBVIOUS
<1>2. TypeOK'
  BY <1>1 DEF TypeOK
<1>3. TransportInv' /\ ConnectingHasAttempt' /\ BackoffArmed' /\ AckOwedLocks'
  BY DEF TransportInv, NoOrphanTransport, ConnectingHasAttempt, BackoffArmed, AckOwedLocks,
     Exists
<1>4. QED
  BY <1>2, <1>3 DEF HookInv

-----------------------------------------------------------------------------
(* One lemma per group of actions.                                         *)

LEMMA UserStep == HookInv /\ User => HookInv'
<1> SUFFICES ASSUME HookInv, User PROVE HookInv'
  OBVIOUS
<1> users' \in 0 .. MaxUser
  BY UserAssumption DEF User, ScanCode, connectDevice, disconnectDevice, retryDevice, Unmount,
     UserActs, HookInv, TypeOK
<1> TypeOK
  BY DEF HookInv
<1>1. CASE ScanCode
  <2>1. TypeOK'
    BY <1>1 DEF ScanCode, TypeOK, session, Auths
  <2>2. TransportInv' /\ ConnectingHasAttempt' /\ BackoffArmed' /\ AckOwedLocks'
    BY <1>1 DEF ScanCode, session, HookInv, TransportInv, NoOrphanTransport,
       ConnectingHasAttempt, BackoffArmed, AckOwedLocks, Exists
  <2>3. QED
    BY <2>1, <2>2 DEF HookInv
<1>2. CASE connectDevice
  <2>1. timer' = FALSE /\ sending' = FALSE /\ creds' \subseteq Auths
    BY <1>2 DEF connectDevice, TypeOK
  <2>2. timer' \in BOOLEAN /\ sending' \in BOOLEAN
    BY <2>1
  <2>3. CASE StoredAuth # None /\ OpenTransport(Connecting(0), StoredAuth)
    <3>1. Connecting(0) \in ConnectionState /\ Connecting(0).status # "none"
      BY RetriesAssumption DEF Connecting, ConnectionState, Status
    <3>2. StoredAuth \in Auths
      BY <2>3 DEF StoredAuth, Auths
    <3>3. QED
      BY <2>1, <2>2, <2>3, <3>1, <3>2, FreshHolds
  <2>4. CASE CloseTransport /\ conn' = At("offline") /\ lastAuth' = None
    <3>1. At("offline") \in ConnectionState /\ At("offline").status = "offline"
      BY RetriesAssumption DEF At, ConnectionState, Status
    <3>2. QED
      BY <2>1, <2>2, <2>4, <3>1, ClosedTransport, DetachedHolds
  <2>5. QED
    BY <1>2, <2>3, <2>4 DEF connectDevice
<1>3. CASE disconnectDevice \/ Unmount
  <2>1. At("none") \in ConnectionState /\ At("none").status = "none"
    BY RetriesAssumption DEF At, ConnectionState, Status
  <2>2. /\ transport' = None /\ owed' = FALSE /\ conn' = At("none") /\ timer' = FALSE
        /\ lastAuth' = None /\ sending' = FALSE
    BY <1>3 DEF disconnectDevice, Unmount, CloseTransport
  <2>3. creds' \subseteq Auths /\ wired' \subseteq Transports
    BY <1>3 DEF disconnectDevice, Unmount, CloseTransport, TypeOK
  <2>4. /\ net' \in [Transports -> NetState]
        /\ \A t \in Transports : net'[t] \in {"unused", "closed"}
    BY <1>3 DEF disconnectDevice, Unmount, CloseTransport, HookInv, TypeOK, TransportInv,
       NoOrphanTransport, NetClosed, NetState
  <2>5. timer' \in BOOLEAN /\ sending' \in BOOLEAN
    BY <2>2
  <2>6. QED
    BY <2>1, <2>2, <2>3, <2>4, <2>5, DetachedHolds
<1>4. CASE retryDevice
  <2> DEFINE auth == IF lastAuth # None THEN lastAuth ELSE StoredAuth
             c    == connectionReducer(conn, "CONNECT")
  <2>1. c \in ConnectionState /\ c.status = "connecting"
    BY <1>4, ReducerSteps DEF retryDevice, TypeOK, Events
  <2>2. timer' = FALSE /\ sending' = sending /\ creds' = creds
    BY <1>4 DEF retryDevice
  <2>3. timer' \in BOOLEAN /\ sending' \in BOOLEAN /\ creds' \subseteq Auths
    BY <2>2 DEF TypeOK
  <2>4. CASE auth # None /\ OpenTransport(c, auth)
    <3>1. auth \in Auths
      BY <2>4 DEF StoredAuth, Auths, TypeOK
    <3>2. QED
      BY <2>1, <2>3, <2>4, <3>1, FreshHolds
  <2>5. CASE /\ auth = None
             /\ conn' = connectionReducer(c, "FAIL")
             /\ UNCHANGED <<transport, lastAuth, net, wired, owed>>
    <3>1. conn' \in ConnectionState /\ conn'.status \in {"reconnecting", "offline"}
      BY <2>1, <2>5, ReducerSteps DEF Events
    <3>2. lastAuth' = None
      BY <2>5
    <3>3. TypeOK'
      BY <2>3, <2>5, <3>1 DEF TypeOK
    <3>4. TransportInv' /\ ConnectingHasAttempt' /\ BackoffArmed' /\ AckOwedLocks'
      BY <2>5, <3>1, <3>2 DEF HookInv, TransportInv, NoOrphanTransport, ConnectingHasAttempt,
         BackoffArmed, AckOwedLocks, Exists
    <3>5. QED
      BY <3>3, <3>4 DEF HookInv
  <2>6. QED
    BY <1>4, <2>4, <2>5 DEF retryDevice
<1>5. QED
  BY <1>1, <1>2, <1>3, <1>4 DEF User

LEMMA TimerStep == HookInv /\ RetryTimer => HookInv'
<1> SUFFICES ASSUME HookInv, RetryTimer PROVE HookInv'
  OBVIOUS
<1> TypeOK
  BY DEF HookInv
<1>1. timer' = FALSE /\ sending' = sending /\ creds' = creds /\ users' = users
  BY DEF RetryTimer
<1>2. /\ timer' \in BOOLEAN /\ sending' \in BOOLEAN
      /\ creds' \subseteq Auths /\ users' \in 0 .. MaxUser
  BY <1>1 DEF TypeOK
<1>3. CASE lastAuth # None /\ OpenTransport(conn, lastAuth)
  <2>1. conn \in ConnectionState /\ conn.status # "none" /\ lastAuth \in Auths
    BY <1>3 DEF RetryTimer, HookInv, TypeOK, TransportInv, Exists
  <2>2. QED
    BY <1>2, <1>3, <2>1, FreshHolds
<1>4. CASE lastAuth = None /\ UNCHANGED <<conn, transport, lastAuth, net, wired, owed>>
  <2>1. TypeOK'
    BY <1>2, <1>4 DEF TypeOK
  <2>2. TransportInv' /\ ConnectingHasAttempt' /\ BackoffArmed' /\ AckOwedLocks'
    BY <1>1, <1>4 DEF HookInv, TransportInv, NoOrphanTransport, ConnectingHasAttempt,
       BackoffArmed, AckOwedLocks, Exists
  <2>3. QED
    BY <2>1, <2>2 DEF HookInv
<1>5. QED
  BY <1>3, <1>4 DEF RetryTimer

LEMMA MessageStep ==
    HookInv /\ (sendToDevice \/ Ack \/ InjectionFailed \/ TokenMessage) => HookInv'
<1> SUFFICES ASSUME HookInv, sendToDevice \/ Ack \/ InjectionFailed \/ TokenMessage
             PROVE  HookInv'
  OBVIOUS
<1>1. sending' \in BOOLEAN /\ owed' \in BOOLEAN
  BY DEF sendToDevice, Ack, InjectionFailed, TokenMessage, session, HookInv, TypeOK
<1>2. TypeOK'
  BY <1>1 DEF sendToDevice, Ack, InjectionFailed, TokenMessage, session, HookInv, TypeOK, Auths
<1>3. TransportInv' /\ ConnectingHasAttempt'
  BY DEF sendToDevice, Ack, InjectionFailed, TokenMessage, session, HookInv, TransportInv,
     NoOrphanTransport, ConnectingHasAttempt, Exists
<1>4. BackoffArmed'
  BY NoneAssumption DEF sendToDevice, Ack, InjectionFailed, TokenMessage, session, HookInv,
     BackoffArmed
<1>5. AckOwedLocks'
  BY DEF sendToDevice, Ack, InjectionFailed, TokenMessage, session, HookInv, AckOwedLocks
<1>6. QED
  BY <1>2, <1>3, <1>4, <1>5 DEF HookInv

\* A transport that is neither unused nor closed is the session's, and its handlers run.
LEMMA CurrentTransport ==
    ASSUME HookInv, NEW t \in Transports, net[t] \notin {"unused", "closed"}
    PROVE  transport = t /\ HandlerRuns(t)
  BY NoneAssumption DEF HookInv, TransportInv, NoOrphanTransport, HandlerRuns

\* A closed transport runs no handler: what it still delivers changes nothing.
LEMMA ClosedIsSilent ==
    ASSUME HookInv, NEW t \in Transports, net[t] = "closed"
    PROVE  transport # t /\ ~HandlerRuns(t)
  BY NoneAssumption DEF HookInv, TransportInv, HandlerRuns

\* A failure or a close of a state that is not "none" leaves no attempt, and one that
\* leaves it reconnecting arms the timer.
LEMMA FailureArms ==
    ASSUME HookInv, Exists, NEW event \in {"CLOSE", "FAIL"}, DispatchAndRetry(event)
    PROVE  /\ conn' \in ConnectionState
           /\ conn'.status \in {"reconnecting", "offline"}
           /\ timer' \in BOOLEAN
           /\ conn'.status = "reconnecting" => timer'
<1>1. conn \in ConnectionState /\ conn.status # "none" /\ timer \in BOOLEAN
  BY DEF HookInv, TypeOK, Exists
<1>2. conn' = connectionReducer(conn, event)
  BY DEF DispatchAndRetry
<1>3. conn' \in ConnectionState /\ conn'.status \in {"reconnecting", "offline"}
  <2>1. conn' \in ConnectionState
    BY <1>1, <1>2, ReducerSteps DEF Events
  <2>2. IF conn.status \in {"none", "offline"}
          THEN connectionReducer(conn, event).status = conn.status
          ELSE connectionReducer(conn, event).status \in {"reconnecting", "offline"}
    BY <1>1, ReducerSteps
  <2>3. QED
    BY <1>1, <1>2, <2>1, <2>2
<1>4. timer' \in BOOLEAN /\ (conn'.status = "reconnecting" => timer')
  BY <1>1 DEF DispatchAndRetry
<1>5. QED
  BY <1>3, <1>4

LEMMA DetachStep ==
    ASSUME HookInv, Exists, FailAndDetach, creds' = creds, users' = users
    PROVE  HookInv'
<1>1. /\ conn' \in ConnectionState /\ conn'.status \in {"reconnecting", "offline"}
      /\ timer' \in BOOLEAN /\ (conn'.status = "reconnecting" => timer')
  BY FailureArms DEF FailAndDetach
<1>2. /\ lastAuth' \in Auths \cup {None} /\ sending' \in BOOLEAN
      /\ creds' \subseteq Auths /\ users' \in 0 .. MaxUser
  BY DEF FailAndDetach, HookInv, TypeOK
<1>3. QED
  BY <1>1, <1>2, ClosedTransport, DetachedHolds DEF FailAndDetach

\* An attempt: it is answered, fails, or falls back to the code.
LEMMA AttemptStep ==
    ASSUME HookInv, NEW t \in Transports, Answered(t) \/ FailCoded(t) \/ Rejected(t)
    PROVE  HookInv'
<1> TypeOK
  BY DEF HookInv
<1>1. net[t] = "connecting" /\ transport = t /\ HandlerRuns(t)
  BY CurrentTransport DEF Answered, FailCoded, Rejected
<1>2. CASE Answered(t)
  <2>1. TypeOK'
    BY <1>2 DEF Answered, Advance, session, TypeOK, NetState
  <2>2. TransportInv' /\ ConnectingHasAttempt' /\ BackoffArmed' /\ AckOwedLocks'
    BY <1>1, <1>2 DEF Answered, Advance, session, HookInv, TypeOK, TransportInv,
       NoOrphanTransport, ConnectingHasAttempt, BackoffArmed, AckOwedLocks, Exists
  <2>3. QED
    BY <2>1, <2>2 DEF HookInv
<1>3. CASE FailCoded(t) \/ (Rejected(t) /\ FailAndDetach)
  BY <1>1, <1>3, DetachStep DEF FailCoded, OnError, Rejected, HandlerRuns
<1>4. CASE /\ OpenTransport(conn, "code")
           /\ UNCHANGED <<timer, sending>>
           /\ UNCHANGED <<creds, users>>
  <2>1. conn \in ConnectionState /\ conn.status # "none" /\ "code" \in Auths
    BY <1>1 DEF HandlerRuns, Exists, TypeOK, Auths
  <2>2. /\ timer' \in BOOLEAN /\ sending' \in BOOLEAN
        /\ creds' \subseteq Auths /\ users' \in 0 .. MaxUser
    BY <1>4 DEF TypeOK
  <2>3. QED
    BY <1>4, <2>1, <2>2, FreshHolds
<1>5. QED
  BY <1>1, <1>2, <1>3, <1>4 DEF Rejected, OnRejected, OnError

\* The channel opens: the attempt is over and the lock is free.
LEMMA OpenStep ==
    ASSUME HookInv, NEW t \in Transports, ChannelOpen(t)
    PROVE  HookInv'
<1> TypeOK
  BY DEF HookInv
<1>1. net[t] = "linking" /\ transport = t /\ HandlerRuns(t)
  BY CurrentTransport DEF ChannelOpen
<1>2. conn' = connectionReducer(conn, "OPEN") /\ sending' = FALSE
  BY <1>1 DEF ChannelOpen, OnOpen
<1>3. conn' \in ConnectionState /\ conn'.status \in {"connected", "offline"}
  BY <1>1, <1>2, ReducerSteps DEF TypeOK, Events, ConnectionState, Status, HandlerRuns, Exists
<1>4. TypeOK'
  <2>1. sending' \in BOOLEAN
    BY <1>2
  <2>2. net' \in [Transports -> NetState]
    BY DEF ChannelOpen, Advance, TypeOK, NetState
  <2>3. QED
    BY <1>3, <2>1, <2>2 DEF ChannelOpen, TypeOK
<1>5. ~owed
  BY <1>1 DEF HookInv, TransportInv
<1>6. TransportInv' /\ ConnectingHasAttempt' /\ BackoffArmed' /\ AckOwedLocks'
  BY <1>1, <1>3, <1>5 DEF ChannelOpen, Advance, HookInv, TypeOK, TransportInv,
     NoOrphanTransport, ConnectingHasAttempt, BackoffArmed, AckOwedLocks, Exists
<1>7. QED
  BY <1>4, <1>6 DEF HookInv

\* A loss announced to the hook, whatever becomes of the transport.
LEMMA LossHolds ==
    ASSUME HookInv, NEW t \in Transports, net[t] \notin {"unused", "closed"}, OnClose(t),
           NEW to \in NetState \ {"unused", "closed"}, net' = [net EXCEPT ![t] = to],
           owed' \in BOOLEAN, owed' => owed /\ to = net[t],
           UNCHANGED <<transport, lastAuth, wired, creds, users>>
    PROVE  HookInv'
<1> TypeOK
  BY DEF HookInv
<1>1. transport = t /\ HandlerRuns(t)
  BY CurrentTransport
<1>2. /\ conn' \in ConnectionState /\ conn'.status \in {"reconnecting", "offline"}
      /\ timer' \in BOOLEAN /\ (conn'.status = "reconnecting" => timer')
  BY <1>1, FailureArms DEF OnClose, HandlerRuns
<1>3. sending' = FALSE
  BY <1>1 DEF OnClose
<1>4. TypeOK'
  <2>1. sending' \in BOOLEAN
    BY <1>3
  <2>2. net' \in [Transports -> NetState]
    BY DEF TypeOK
  <2>3. QED
    BY <1>2, <2>1, <2>2 DEF TypeOK
<1>5. TransportInv' /\ ConnectingHasAttempt' /\ BackoffArmed' /\ AckOwedLocks'
  BY <1>1, <1>2 DEF HookInv, TypeOK, TransportInv, NoOrphanTransport, ConnectingHasAttempt,
     BackoffArmed, AckOwedLocks, Exists
<1>6. QED
  BY <1>4, <1>5 DEF HookInv

LEMMA LossStep ==
    ASSUME HookInv, NEW t \in Transports,
           FailPlain(t) \/ IceDisconnected(t) \/ IceFailed(t) \/ ChannelClose(t)
    PROVE  HookInv'
<1> TypeOK
  BY DEF HookInv
<1>1. CASE FailPlain(t)
  <2>1. ~owed
    BY <1>1, CurrentTransport DEF FailPlain, HookInv, TransportInv
  <2>2. OnClose(t) /\ UNCHANGED <<transport, lastAuth, wired, creds, users>>
    BY <1>1 DEF FailPlain
  <2>3. net[t] \notin {"unused", "closed"} /\ "failed" \in NetState \ {"unused", "closed"}
    BY <1>1 DEF FailPlain, NetState
  <2>4. net' = [net EXCEPT ![t] = "failed"]
    BY <1>1 DEF FailPlain, Advance
  <2>5. owed' = owed
    BY <1>1 DEF FailPlain
  <2>6. owed' \in BOOLEAN /\ ~owed'
    BY <2>1, <2>5 DEF TypeOK
  <2>7. QED
    BY <2>2, <2>3, <2>4, <2>6, LossHolds
<1>2. CASE IceDisconnected(t)
  <2>1. net' = [net EXCEPT ![t] = net[t]] /\ net[t] \in NetState \ {"unused", "closed"}
    BY <1>2 DEF IceDisconnected, TypeOK, NetState
  <2>2. owed' = owed /\ owed' \in BOOLEAN
    BY <1>2 DEF IceDisconnected, TypeOK
  <2>3. OnClose(t) /\ UNCHANGED <<transport, lastAuth, wired, creds, users>>
    BY <1>2 DEF IceDisconnected
  <2>4. net[t] \notin {"unused", "closed"}
    BY <2>1
  <2>5. owed' => owed /\ net[t] = net[t]
    BY <2>2
  <2>6. QED
    BY <2>1, <2>2, <2>3, <2>4, <2>5, LossHolds
<1>3. CASE IceFailed(t) \/ ChannelClose(t)
  <2>1. transport = t
    BY <1>3, CurrentTransport DEF IceFailed, ChannelClose
  <2>2. owed' = FALSE
    BY <1>3, <2>1 DEF IceFailed, ChannelClose
  <2>3. OnClose(t) /\ UNCHANGED <<transport, lastAuth, wired, creds, users>>
    BY <1>3 DEF IceFailed, ChannelClose
  <2>4. net[t] \notin {"unused", "closed"}
    BY <1>3 DEF IceFailed, ChannelClose
  <2>5. PICK to \in {"dead", "ended"} : net' = [net EXCEPT ![t] = to]
    BY <1>3 DEF IceFailed, ChannelClose, Advance
  <2>6. to \in NetState \ {"unused", "closed"}
    BY <2>5 DEF NetState
  <2>7. owed' \in BOOLEAN /\ (owed' => owed /\ to = net[t])
    BY <2>2
  <2>8. QED
    BY <2>3, <2>4, <2>5, <2>6, <2>7, LossHolds
<1>4. QED
  BY <1>1, <1>2, <1>3

\* A transport that was given up has no handler that would act on what it delivers.
LEMMA LateEventIgnored ==
    ASSUME HookInv, NEW t \in Transports, LateEvent(t)
    PROVE  UNCHANGED <<session, net, wired, owed, creds, users>>
<1>1. ~HandlerRuns(t)
  BY ClosedIsSilent DEF LateEvent
<1>2. QED
  BY <1>1 DEF LateEvent, OnClose, OnOpen, OnAck, OnError, OnRejected, session

LEMMA ClosedStep ==
    ASSUME HookInv, NEW t \in Transports, LateEvent(t) \/ Collect(t)
    PROVE  HookInv'
<1> TypeOK
  BY DEF HookInv
<1>1. CASE LateEvent(t)
  BY <1>1, LateEventIgnored DEF session, HookInv, TypeOK, TransportInv, NoOrphanTransport,
     ConnectingHasAttempt, BackoffArmed, AckOwedLocks, Exists
<1>2. CASE Collect(t)
  <2>1. transport # t
    BY <1>2, ClosedIsSilent DEF Collect
  <2>2. TypeOK'
    BY <1>2 DEF Collect, Advance, session, TypeOK, NetState
  <2>3. TransportInv' /\ ConnectingHasAttempt' /\ BackoffArmed' /\ AckOwedLocks'
    BY <1>2, <2>1 DEF Collect, Advance, session, HookInv, TypeOK, TransportInv,
       NoOrphanTransport, ConnectingHasAttempt, BackoffArmed, AckOwedLocks, Exists
  <2>4. QED
    BY <2>2, <2>3 DEF HookInv
<1>3. QED
  BY <1>1, <1>2

LEMMA NextHolds == HookInv /\ [Next]_vars => HookInv'
<1> SUFFICES ASSUME HookInv, [Next]_vars PROVE HookInv'
  OBVIOUS
<1>1. CASE UNCHANGED vars
  BY <1>1 DEF vars, session, HookInv, TypeOK, TransportInv, NoOrphanTransport,
     ConnectingHasAttempt, BackoffArmed, AckOwedLocks, Exists
<1>2. CASE User \/ RetryTimer \/ sendToDevice \/ Ack \/ InjectionFailed \/ TokenMessage
  BY <1>2, UserStep, TimerStep, MessageStep
<1>3. ASSUME NEW t \in Transports, Attempt(t) \/ ChannelOpen(t) \/ Losses(t) \/ Collect(t)
      PROVE  HookInv'
  BY <1>3, AttemptStep, OpenStep, LossStep, ClosedStep DEF Attempt, Losses
<1>4. QED
  BY <1>1, <1>2, <1>3 DEF Next

LEMMA HookInvariant == Spec => []HookInv
<1>1. QED
  BY InitHolds, NextHolds, PTL DEF Spec

-----------------------------------------------------------------------------
(* The theorems.                                                           *)

\* Every reachable state of the hook is well typed; the retries never exceed
\* MAX_RETRIES (connection.ts:93-123).
THEOREM PhoneTypeCorrect == Spec => []TypeOK
<1>1. HookInv => TypeOK
  BY DEF HookInv
<1>2. QED
  BY <1>1, HookInvariant, PTL

\* Reconnecting with a credential always has a timer behind it, whatever order errors,
\* closes and fallbacks come in (useConnections.ts:127-163, 203-235).
THEOREM RetryArmed == Spec => []BackoffArmed
<1>1. HookInv => BackoffArmed
  BY DEF HookInv
<1>2. QED
  BY <1>1, HookInvariant, PTL

\* A session that shows connecting has a transport that is trying
\* (useConnections.ts:166-242).
THEOREM AttemptRuns == Spec => []ConnectingHasAttempt
<1>1. HookInv => ConnectingHasAttempt
  BY DEF HookInv
<1>2. QED
  BY <1>1, HookInvariant, PTL

\* No transport but the session's is alive (useConnections.ts:82-89, 166-175).
THEOREM OneTransport == Spec => []NoOrphanTransport
<1>1. HookInv => NoOrphanTransport
  BY DEF HookInv, TransportInv
<1>2. QED
  BY <1>1, HookInvariant, PTL

\* No second text while an ack is due (useConnections.ts:334-339).
THEOREM SendLock == Spec => []AckOwedLocks
<1>1. HookInv => AckOwedLocks
  BY DEF HookInv
<1>2. QED
  BY <1>1, HookInvariant, PTL

\* Whatever a closed transport still delivers, the session does not change, though
\* disconnectDevice leaves its handlers subscribed (useConnections.ts:176, 299).
THEOREM LateEvents == Spec => LateEventHarmless
<1>1. HookInv /\ [Next]_vars =>
        [\A t \in Transports : LateEvent(t) => UNCHANGED <<session, net>>]_vars
  BY LateEventIgnored
<1>2. QED
  BY <1>1, HookInvariant, PTL DEF Spec, LateEventHarmless
=============================================================================
