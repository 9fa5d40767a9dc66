------------------------- MODULE MobileConnection --------------------------
(***************************************************************************)
(* One device of the phone's useConnections hook                           *)
(* (apps/mobile/src/hooks/useConnections.ts) and the RtcTransports it      *)
(* opens (apps/mobile/src/lib/rtcTransport.ts).                            *)
(*                                                                         *)
(* Each step is one task of the page's event loop: a user action, a timer, *)
(* or an event of a transport with every handler it runs.                  *)
(***************************************************************************)
EXTENDS ConnectionMachine

CONSTANTS
    Transports,   \* RtcTransport objects; a collected one may be used again
    None,
    MaxUser       \* bound: user actions

ASSUME NoneAssumption == None \notin Transports \cup {"token", "code"}
ASSUME UserAssumption == MaxUser \in Nat

VARIABLES
    conn,        \* session.state
    transport,   \* session.transport
    timer,       \* session.retryTimer is pending
    lastAuth,    \* session.lastAuth
    sending,     \* session.sending
    net,         \* what each transport is doing
    wired,       \* transports whose handlers are subscribed
    owed,        \* the desktop owes an ack for a text of this channel
    creds,       \* credentials in localStorage
    users        \* user actions so far

session == <<conn, transport, timer, lastAuth, sending>>
vars    == <<session, net, wired, owed, creds, users>>

Auths    == {"token", "code"}
NetState == {"unused", "connecting", "failed", "linking", "open", "ended", "dead", "closed"}

TypeOK ==
    /\ conn \in ConnectionState
    /\ transport \in Transports \cup {None}
    /\ timer \in BOOLEAN
    /\ lastAuth \in Auths \cup {None}
    /\ sending \in BOOLEAN
    /\ net \in [Transports -> NetState]
    /\ wired \subseteq Transports
    /\ owed \in BOOLEAN
    /\ creds \subseteq Auths
    /\ users \in 0 .. MaxUser

Init ==
    /\ conn = At("none")
    /\ transport = None
    /\ timer = FALSE
    /\ lastAuth = None
    /\ sending = FALSE
    /\ net = [t \in Transports |-> "unused"]
    /\ wired = {}
    /\ owed = FALSE
    /\ creds \in SUBSET Auths
    /\ users = 0

Exists == conn.status # "none"

\* The credential a new session starts with.
StoredAuth ==
    IF "token" \in creds THEN "token" ELSE IF "code" \in creds THEN "code" ELSE None

\* The stale guard of every handler.
HandlerRuns_NoGuard(t) == t \in wired /\ Exists

HandlerRuns(t) == t \in wired /\ Exists /\ transport = t

-----------------------------------------------------------------------------
(* The pieces of the handlers.                                             *)

NetClosed == [t \in Transports |-> IF t = transport THEN "closed" ELSE net[t]]

\* closeTransport.
CloseTransport ==
    /\ net' = NetClosed
    /\ wired' = wired \ {transport}
    /\ transport' = None
    /\ owed' = FALSE

\* openTransport, after the events that made the state c.
OpenTransport(c, auth) ==
    \E t \in Transports :
        /\ net[t] = "unused"
        /\ net' = [NetClosed EXCEPT ![t] = "connecting"]
        /\ wired' = (wired \ {transport}) \cup {t}
        /\ transport' = t
        /\ owed' = FALSE
        /\ conn' = connectionReducer(c, "CONNECT")
        /\ lastAuth' = auth

\* dispatch, and scheduleRetry if that leads to reconnecting.
DispatchAndRetry(event) ==
    /\ conn' = connectionReducer(conn, event)
    /\ timer' = (timer \/ conn'.status = "reconnecting")

\* The close handler.
OnClose(t) ==
    IF HandlerRuns(t)
      THEN DispatchAndRetry("CLOSE") /\ sending' = FALSE
      ELSE UNCHANGED <<conn, timer, sending>>

\* The open handler.
OnOpen(t) ==
    IF HandlerRuns(t)
      THEN conn' = connectionReducer(conn, "OPEN") /\ sending' = FALSE
      ELSE UNCHANGED <<conn, sending>>

\* triggerAuthFallback when there is no other credential, and the error handler: the
\* failure counts once, since the close that follows finds nobody subscribed.
FailAndDetach ==
    /\ DispatchAndRetry("FAIL")
    /\ CloseTransport
    /\ UNCHANGED <<lastAuth, sending>>

\* The error handler, for a failure and for a rejected credential: a token falls
\* back to the code.
OnError(t) ==
    IF HandlerRuns(t) THEN FailAndDetach ELSE UNCHANGED <<session, net, wired, owed>>
OnRejected(t) ==
    IF HandlerRuns(t) /\ lastAuth = "token" /\ "code" \in creds
      THEN OpenTransport(conn, "code") /\ UNCHANGED <<timer, sending>>
      ELSE OnError(t)

\* The message handler, for an ack.
OnAck(t) == IF HandlerRuns(t) THEN sending' = FALSE ELSE UNCHANGED sending

-----------------------------------------------------------------------------
(* The user, the page and the retry timer.                                 *)

UserActs == users < MaxUser /\ users' = users + 1

\* handleAddDevice stores the scanned code.
ScanCode ==
    /\ UserActs
    /\ creds' = creds \cup {"code"}
    /\ UNCHANGED <<session, net, wired, owed>>

connectDevice_NoClose ==
    /\ UserActs
    /\ conn.status \notin {"connecting", "connected"}
    /\ timer' = FALSE
    /\ sending' = FALSE
    /\ StoredAuth # None
    /\ \E t \in Transports :
         /\ net[t] = "unused"
         /\ net' = [net EXCEPT ![t] = "connecting"]
         /\ wired' = wired \cup {t}
         /\ transport' = t
         /\ conn' = Connecting(0)
         /\ lastAuth' = StoredAuth
    /\ owed' = FALSE
    /\ UNCHANGED creds

\* The session is made anew; without a credential it is offline at once.
connectDevice ==
    /\ UserActs
    /\ conn.status \notin {"connecting", "connected"}
    /\ timer' = FALSE
    /\ sending' = FALSE
    /\ \/ StoredAuth # None /\ OpenTransport(Connecting(0), StoredAuth)
       \/ /\ StoredAuth = None
          /\ CloseTransport
          /\ conn' = At("offline")
          /\ lastAuth' = None
    /\ UNCHANGED creds

\* The handlers of the closed transport stay subscribed.
disconnectDevice ==
    /\ UserActs
    /\ Exists
    /\ conn' = At("none")
    /\ timer' = FALSE
    /\ net' = NetClosed
    /\ transport' = None
    /\ lastAuth' = None
    /\ sending' = FALSE
    /\ owed' = FALSE
    /\ creds' = {}
    /\ UNCHANGED wired

\* The retry button, and the page that comes back to the foreground.
retryDevice ==
    /\ UserActs
    /\ conn.status \in {"connecting", "reconnecting", "offline"}
    /\ timer' = FALSE
    /\ LET auth == IF lastAuth # None THEN lastAuth ELSE StoredAuth
           c    == connectionReducer(conn, "CONNECT")
       IN  \/ auth # None /\ OpenTransport(c, auth)
           \/ /\ auth = None
              /\ conn' = connectionReducer(c, "FAIL")
              /\ UNCHANGED <<transport, lastAuth, net, wired, owed>>
    /\ UNCHANGED <<sending, creds>>

\* The page is closed or reloaded.
Unmount ==
    /\ UserActs
    /\ Exists
    /\ CloseTransport
    /\ conn' = At("none")
    /\ timer' = FALSE
    /\ lastAuth' = None
    /\ sending' = FALSE
    /\ UNCHANGED creds

RetryTimer ==
    /\ timer
    /\ timer' = FALSE
    /\ \/ lastAuth # None /\ OpenTransport(conn, lastAuth)
       \/ lastAuth = None /\ UNCHANGED <<conn, transport, lastAuth, net, wired, owed>>
    /\ UNCHANGED <<sending, creds, users>>

sendToDevice_NoLock ==
    /\ transport # None /\ net[transport] = "open"
    /\ conn.status = "connected"
    /\ ~sending
    /\ owed' \in BOOLEAN
    /\ UNCHANGED <<session, net, wired, creds, users>>

\* The text is on its way, or channel.send threw; the lock is taken either way.
sendToDevice ==
    /\ transport # None /\ net[transport] = "open"
    /\ conn.status = "connected"
    /\ ~sending
    /\ sending' = TRUE
    /\ owed' \in BOOLEAN
    /\ UNCHANGED <<conn, transport, timer, lastAuth, net, wired, creds, users>>

-----------------------------------------------------------------------------
(* connect() of a transport, and the events of its connection.             *)

Advance(t, to) == net' = [net EXCEPT ![t] = to]

\* The answer was accepted and set.
Answered(t) ==
    /\ net[t] = "connecting"
    /\ Advance(t, "linking")
    /\ UNCHANGED <<session, wired, owed, creds, users>>

FailCoded_NoRetry(t) ==
    /\ net[t] = "connecting"
    /\ HandlerRuns(t)
    /\ conn' = connectionReducer(conn, "FAIL")
    /\ CloseTransport
    /\ UNCHANGED <<timer, lastAuth, sending, creds, users>>

\* A named error: the desktop is offline, the answer late, the device unknown, the
\* requests too many.
FailCoded(t) ==
    /\ net[t] = "connecting"
    /\ OnError(t)
    /\ UNCHANGED <<creds, users>>

Rejected_CloseOnly(t) ==
    /\ net[t] = "connecting"
    /\ HandlerRuns(t)
    /\ \/ /\ lastAuth = "token" /\ "code" \in creds
          /\ OpenTransport(conn, "code")
          /\ UNCHANGED <<timer, sending>>
       \/ /\ ~(lastAuth = "token" /\ "code" \in creds)
          /\ CloseTransport
          /\ UNCHANGED <<conn, timer, lastAuth, sending>>
    /\ UNCHANGED <<creds, users>>

\* The credential was rejected.
Rejected(t) ==
    /\ net[t] = "connecting"
    /\ OnRejected(t)
    /\ UNCHANGED <<creds, users>>

\* An error without a name is ignored and the close after it counts.
FailPlain(t) ==
    /\ net[t] = "connecting"
    /\ Advance(t, "failed")
    /\ OnClose(t)
    /\ UNCHANGED <<transport, lastAuth, wired, owed, creds, users>>

ChannelOpen(t) ==
    /\ net[t] = "linking"
    /\ Advance(t, "open")
    /\ OnOpen(t)
    /\ UNCHANGED <<transport, timer, lastAuth, wired, owed, creds, users>>

\* ICE "disconnected" is announced as a close, though ICE may recover.
IceDisconnected(t) ==
    /\ net[t] \in {"linking", "open", "ended"}
    /\ OnClose(t)
    /\ UNCHANGED <<transport, lastAuth, net, wired, owed, creds, users>>

IceFailed(t) ==
    /\ net[t] \in {"linking", "open", "ended"}
    /\ Advance(t, "dead")
    /\ owed' = (owed /\ transport # t)
    /\ OnClose(t)
    /\ UNCHANGED <<transport, lastAuth, wired, creds, users>>

ChannelClose(t) ==
    /\ net[t] = "open"
    /\ Advance(t, "ended")
    /\ owed' = (owed /\ transport # t)
    /\ OnClose(t)
    /\ UNCHANGED <<transport, lastAuth, wired, creds, users>>

\* disconnectDevice closes a transport and leaves its handlers subscribed.  Its
\* channel still delivers a close or what was queued, and its connect() goes on: it
\* ends in an error, a rejection or the timeout that an aborted poll is taken for.
LateEvent(t) ==
    /\ net[t] = "closed" /\ t \in wired
    /\ \/ OnClose(t) /\ UNCHANGED <<transport, lastAuth, net, wired, owed>>
       \/ OnOpen(t) /\ UNCHANGED <<transport, timer, lastAuth, net, wired, owed>>
       \/ OnAck(t) /\ UNCHANGED <<conn, transport, timer, lastAuth, net, wired, owed>>
       \/ OnError(t)
       \/ OnRejected(t)
    /\ UNCHANGED <<creds, users>>

\* A closed transport is garbage.
Collect(t) ==
    /\ net[t] = "closed"
    /\ Advance(t, "unused")
    /\ wired' = wired \ {t}
    /\ UNCHANGED <<session, owed, creds, users>>

-----------------------------------------------------------------------------
(* Messages of the desktop.                                                *)

Ack ==
    /\ owed
    /\ owed' = FALSE
    /\ sending' = FALSE
    /\ UNCHANGED <<conn, transport, timer, lastAuth, net, wired, creds, users>>

\* INJECTION_FAILED is shown and nothing else.
InjectionFailed ==
    /\ owed
    /\ owed' = FALSE
    /\ UNCHANGED <<session, net, wired, creds, users>>

\* The token a code earns; localStorage may refuse it silently.
TokenMessage ==
    /\ transport # None /\ net[transport] = "open"
    /\ lastAuth = "code"
    /\ lastAuth' = "token"
    /\ creds' \in {creds, creds \cup {"token"}}
    /\ UNCHANGED <<conn, transport, timer, sending, net, wired, owed, users>>

-----------------------------------------------------------------------------
User == ScanCode \/ connectDevice \/ disconnectDevice \/ retryDevice \/ Unmount

Attempt(t) == Answered(t) \/ FailCoded(t) \/ Rejected(t) \/ FailPlain(t)
Losses(t)  == IceDisconnected(t) \/ IceFailed(t) \/ ChannelClose(t) \/ LateEvent(t)

Next ==
    \/ User \/ RetryTimer \/ sendToDevice \/ Ack \/ InjectionFailed \/ TokenMessage
    \/ \E t \in Transports : Attempt(t) \/ ChannelOpen(t) \/ Losses(t) \/ Collect(t)

Spec == Init /\ [][Next]_vars

\* Timers fire and garbage is collected.  Nothing more is assumed: an attempt may
\* hang for ever, since the fetch of the answer has no limit (rtcTransport.ts:240) and
\* a channel that never opens is watched by nobody.
Fairness == WF_vars(RetryTimer) /\ \A t \in Transports : WF_vars(Collect(t))

FairSpec == Spec /\ Fairness

-----------------------------------------------------------------------------
(* Properties.                                                             *)

\* A session that waits to reconnect has its timer pending: no failure, in any order
\* of errors and closes, parks the phone in reconnecting.
BackoffArmed == conn.status = "reconnecting" /\ lastAuth # None => timer

\* A session that says connecting has a transport that is still trying.
ConnectingHasAttempt ==
    conn.status = "connecting" =>
        transport # None /\ net[transport] \in {"connecting", "linking"}

\* A transport the session no longer holds has been closed: reconnecting, re-scanning
\* and falling back to the code leave no second connection behind.
NoOrphanTransport ==
    \A t \in Transports : t # transport => net[t] \in {"unused", "closed"}

\* Whatever a transport that was given up still delivers, a close, an error, an open or
\* a message, neither the session that replaced it nor that session's transport is
\* touched, although disconnectDevice leaves its handlers subscribed.
LateEventHarmless ==
    [][\A t \in Transports : LateEvent(t) => UNCHANGED <<session, net>>]_vars

\* While an ack is outstanding the send lock is held: one text at a time.
AckOwedLocks == conn.status = "connected" /\ owed => sending

\* useConnections.ts:355-357 "connecting with no pending timer is the only state that
\* cannot heal itself": left alone, the retries of a session that lost its connection
\* add up until it connects or gives up, unless one attempt hangs for ever; there is
\* no endless round of reconnecting and connecting.
RetriesEnd ==
    [](conn.status = "reconnecting" /\ lastAuth # None =>
         <>(conn.status \in {"connected", "offline", "none"} \/ [](conn.status = "connecting")))

-----------------------------------------------------------------------------
(* What comments of the code say and the code does not do.                 *)

\* rtcTransport.ts:175 "the time-out guarantees that an attempt ends in bounded time":
\* refuted.  Only the POST of the offer has one; the fetch that waits for the answer has
\* none.
AttemptEnds == conn.status = "connecting" ~> conn.status # "connecting"

\* useConnections.ts:23 "statuses: the single source of truth that drives the UI": a
\* device shown as connected has had its channel opened.
ConnectedHasChannel ==
    conn.status = "connected" => transport # None /\ net[transport] = "open"
=============================================================================
