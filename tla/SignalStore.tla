---------------------------- MODULE SignalStore ----------------------------
(***************************************************************************)
(* The rendezvous of the pairing server: api/signaling.rs (the store) and  *)
(* the handlers of api/signaling_handlers.rs that drive it.                *)
(*                                                                         *)
(* A phone posts an offer for a device; the offer becomes a session and is *)
(* pushed into the channel of the device's SSE subscription.  The desktop  *)
(* answers the session and the phone collects the answer by long polling.  *)
(*                                                                         *)
(* A step is one critical section of a lock, one atomic operation, or one  *)
(* await: everything a handler does between two of those is in one action. *)
(* A session id, a ticket, an SSE request (which is also its sub_id) and a *)
(* poll request are each a value of a CONSTANT set.  The clock is replaced *)
(* by actions that let a session or a ticket expire at any moment, which   *)
(* allows every timing the real clock allows and more.                     *)
(***************************************************************************)
EXTENDS Naturals, Sequences, FiniteSets

CONSTANTS
    Devices,     \* registered desktops
    Sessions,    \* session ids, one per POST offer
    Tickets,     \* SSE subscription tickets
    Conns,       \* SSE requests; a request is its own sub_id
    Polls,       \* slots for long-poll requests
    None,        \* no device, ticket, session or subscription
    MaxSessions, \* MAX_SESSIONS_PER_DEVICE
    ChannelCap,  \* capacity of the offer channel (16)
    MaxSse,      \* MAX_CONCURRENT_SSE
    MaxPolls     \* MAX_CONCURRENT_POLLS

ASSUME FiniteAssumption == IsFiniteSet(Sessions) /\ IsFiniteSet(Polls) /\ IsFiniteSet(Conns)
ASSUME NoneAssumption == None \notin Devices \cup Sessions \cup Tickets \cup Conns
ASSUME LimitAssumption ==
    /\ MaxSessions \in Nat \ {0}
    /\ ChannelCap \in Nat \ {0}
    /\ MaxSse \in Nat \ {0}
    /\ MaxPolls \in Nat \ {0}

VARIABLES
    session,     \* lifecycle of each session id in the store
    sessionDev,  \* the device a session was created for
    answer,      \* what the desktop submitted for it
    offerReq,    \* where the POST offer that owns the session id stands
    ticket,      \* lifecycle of each ticket, with the device it is bound to
    subscriber,  \* offers: the subscription registered for a device
    conn,        \* where each SSE request and its task stand
    connDev,     \* the device of an SSE request
    connTicket,  \* the ticket it presented (history)
    client,      \* whether the desktop still reads the SSE response
    channel,     \* offer events between push_offer and the SSE task
    delivered,   \* offers that reached the desktop, with the connection
    poll,        \* where each long-poll request stands
    pollSession, \* the session it asks for
    notified,    \* whether its Notified future has been woken
    collected,   \* the answers phones were given, with the session (history)
    sseActive,   \* the sse_active gauge
    pollActive   \* the poll_active gauge

sessionVars == <<session, sessionDev, answer, offerReq>>
sseVars     == <<ticket, subscriber, conn, connDev, connTicket, client, channel,
                 delivered, sseActive>>
pollVars    == <<poll, pollSession, notified, collected, pollActive>>
vars        == <<sessionVars, sseVars, pollVars>>

Answers      == {"accepted", "rejected"}
SessionState == {"unused", "live", "expired", "gone"}
OfferState   == {"idle", "created", "fetched", "ok", "offline", "too_many",
                 "not_found", "cancelled"}
TicketState  == {"unused", "live", "expired", "gone"}
ConnState    == {"idle", "redeemed", "admitted", "counted", "running", "exiting",
                 "unsubscribed", "closed", "refused"}
PollState    == {"idle", "admitted", "counted", "peeked", "waiting"}

SessionTypeOK ==
    /\ session \in [Sessions -> SessionState]
    /\ sessionDev \in [Sessions -> Devices \cup {None}]
    /\ answer \in [Sessions -> Answers \cup {"none"}]
    /\ offerReq \in [Sessions -> OfferState]

SseTypeOK ==
    /\ ticket \in [Tickets -> [state : TicketState, dev : Devices \cup {None}]]
    /\ subscriber \in [Devices -> Conns \cup {None}]
    /\ conn \in [Conns -> ConnState]
    /\ connDev \in [Conns -> Devices \cup {None}]
    /\ connTicket \in [Conns -> Tickets \cup {None}]
    /\ client \in [Conns -> {"up", "dead", "dropped"}]
    /\ channel \in [Conns -> Seq(Sessions)]
    /\ delivered \in SUBSET (Sessions \X Conns)
    /\ sseActive \in Nat

PollTypeOK ==
    /\ poll \in [Polls -> PollState]
    /\ pollSession \in [Polls -> Sessions \cup {None}]
    /\ notified \in [Polls -> BOOLEAN]
    /\ collected \in SUBSET (Sessions \X Answers)
    /\ pollActive \in Nat

\* The type of the store, of its streams and of its polls.
TypeOK == SessionTypeOK /\ SseTypeOK /\ PollTypeOK

Init ==
    /\ session = [s \in Sessions |-> "unused"]
    /\ sessionDev = [s \in Sessions |-> None]
    /\ answer = [s \in Sessions |-> "none"]
    /\ offerReq = [s \in Sessions |-> "idle"]
    /\ ticket = [t \in Tickets |-> [state |-> "unused", dev |-> None]]
    /\ subscriber = [d \in Devices |-> None]
    /\ conn = [c \in Conns |-> "idle"]
    /\ connDev = [c \in Conns |-> None]
    /\ connTicket = [c \in Conns |-> None]
    /\ client = [c \in Conns |-> "up"]
    /\ channel = [c \in Conns |-> <<>>]
    /\ delivered = {}
    /\ poll = [p \in Polls |-> "idle"]
    /\ pollSession = [p \in Polls |-> None]
    /\ notified = [p \in Polls |-> FALSE]
    /\ collected = {}
    /\ sseActive = 0
    /\ pollActive = 0

-----------------------------------------------------------------------------
(* POST offer: create_offer.                                               *)

Active(d) == {s \in Sessions : session[s] = "live" /\ sessionDev[s] = d}

\* Mutant: the cap is off by one.
HasRoom_OffByOne(d) == Cardinality(Active(d)) <= MaxSessions

HasRoom(d) == Cardinality(Active(d)) < MaxSessions

\* create_session, under the write lock of the session map.
create_session(s, d) ==
    /\ offerReq[s] = "idle"
    /\ sessionDev' = [sessionDev EXCEPT ![s] = d]
    /\ \/ /\ ~HasRoom(d)
          /\ offerReq' = [offerReq EXCEPT ![s] = "too_many"]
          /\ UNCHANGED session
       \/ /\ HasRoom(d)
          /\ offerReq' = [offerReq EXCEPT ![s] = "created"]
          /\ session' = [session EXCEPT ![s] = "live"]
    /\ UNCHANGED <<answer, sseVars, pollVars>>

\* get_session does not look at the age of the session it finds.
get_session(s) ==
    /\ offerReq[s] = "created"
    /\ offerReq' = [offerReq EXCEPT ![s] =
                      IF session[s] \in {"live", "expired"} THEN "fetched" ELSE "not_found"]
    /\ UNCHANGED <<session, sessionDev, answer, sseVars, pollVars>>

CanPush(d) == subscriber[d] # None /\ Len(channel[subscriber[d]]) < ChannelCap

\* push_offer.  A refused push answers 503 and leaves the session in the store.
push_offer(s) ==
    LET d == sessionDev[s] IN
    /\ offerReq[s] = "fetched"
    /\ \/ /\ CanPush(d)
          /\ channel' = [channel EXCEPT ![subscriber[d]] = Append(@, s)]
          /\ offerReq' = [offerReq EXCEPT ![s] = "ok"]
       \/ /\ ~CanPush(d)
          /\ offerReq' = [offerReq EXCEPT ![s] = "offline"]
          /\ UNCHANGED channel
    /\ UNCHANGED <<session, sessionDev, answer, ticket, subscriber, conn, connDev,
                   connTicket, client, delivered, sseActive, pollVars>>

\* The phone hangs up: the handler future is dropped at one of its awaits.
CancelOffer(s) ==
    /\ offerReq[s] \in {"created", "fetched"}
    /\ offerReq' = [offerReq EXCEPT ![s] = "cancelled"]
    /\ UNCHANGED <<session, sessionDev, answer, sseVars, pollVars>>

-----------------------------------------------------------------------------
(* POST answer and the age of a session.                                   *)

\* notify_waiters wakes the futures that exist now; no permit is kept.
Woken(s) == [p \in Polls |-> notified[p] \/ (poll[p] = "waiting" /\ pollSession[p] = s)]

\* The desktop answers an offer it received, once.
submit_answer(s, a) ==
    /\ \E c \in Conns : <<s, c>> \in delivered
    /\ answer[s] = "none"
    /\ \/ /\ session[s] = "live"
          /\ answer' = [answer EXCEPT ![s] = a]
          /\ notified' = Woken(s)
          /\ UNCHANGED session
       \/ /\ session[s] = "expired"
          /\ session' = [session EXCEPT ![s] = "gone"]
          /\ UNCHANGED <<answer, notified>>
    /\ UNCHANGED <<sessionDev, offerReq, sseVars, poll, pollSession, collected, pollActive>>

\* SIGNAL_SESSION_TTL elapses.
ExpireSession(s) ==
    /\ session[s] = "live"
    /\ session' = [session EXCEPT ![s] = "expired"]
    /\ UNCHANGED <<sessionDev, answer, offerReq, sseVars, pollVars>>

cleanup_expired_sessions ==
    /\ \E s \in Sessions : session[s] = "expired"
    /\ session' = [s \in Sessions |-> IF session[s] = "expired" THEN "gone" ELSE session[s]]
    /\ UNCHANGED <<sessionDev, answer, offerReq, sseVars, pollVars>>

-----------------------------------------------------------------------------
(* POST subscribe and GET events.                                          *)

\* issue_ticket also sweeps the tickets that have expired.
issue_ticket(t, d) ==
    /\ ticket[t].state = "unused"
    /\ ticket' = [u \in Tickets |->
                    IF u = t THEN [state |-> "live", dev |-> d]
                    ELSE IF ticket[u].state = "expired" THEN [ticket[u] EXCEPT !.state = "gone"]
                    ELSE ticket[u]]
    /\ UNCHANGED <<subscriber, conn, connDev, connTicket, client, channel, delivered,
                   sseActive, sessionVars, pollVars>>

\* SSE_TICKET_TTL elapses.
ExpireTicket(t) ==
    /\ ticket[t].state = "live"
    /\ ticket' = [ticket EXCEPT ![t].state = "expired"]
    /\ UNCHANGED <<subscriber, conn, connDev, connTicket, client, channel, delivered,
                   sseActive, sessionVars, pollVars>>

\* Mutant: the ticket is looked up instead of removed.
redeem_ticket_Reusable(c, t, d) ==
    /\ conn[c] = "idle"
    /\ ticket[t] = [state |-> "live", dev |-> d]
    /\ conn' = [conn EXCEPT ![c] = "redeemed"]
    /\ connDev' = [connDev EXCEPT ![c] = d]
    /\ connTicket' = [connTicket EXCEPT ![c] = t]
    /\ UNCHANGED <<ticket, subscriber, client, channel, delivered, sseActive, sessionVars,
                   pollVars>>

\* redeem_ticket: whatever the verdict, a ticket that was found is removed.
redeem_ticket(c, t, d) ==
    /\ conn[c] = "idle"
    /\ ticket[t].state # "unused"
    /\ ticket' = [ticket EXCEPT ![t].state = "gone"]
    /\ conn' = [conn EXCEPT ![c] =
                  IF ticket[t] = [state |-> "live", dev |-> d] THEN "redeemed" ELSE "refused"]
    /\ connDev' = [connDev EXCEPT ![c] = d]
    /\ connTicket' = [connTicket EXCEPT ![c] = t]
    /\ UNCHANGED <<subscriber, client, channel, delivered, sseActive, sessionVars, pollVars>>

\* The load of the gauge and its increment are two atomic operations.
AdmitSse(c) ==
    /\ conn[c] = "redeemed"
    /\ conn' = [conn EXCEPT ![c] = IF sseActive < MaxSse THEN "admitted" ELSE "refused"]
    /\ UNCHANGED <<ticket, subscriber, connDev, connTicket, client, channel, delivered,
                   sseActive, sessionVars, pollVars>>

\* Mutant: the increment of the gauge is forgotten.
CountSse_Forgotten(c) ==
    /\ conn[c] = "admitted"
    /\ conn' = [conn EXCEPT ![c] = "counted"]
    /\ UNCHANGED <<ticket, subscriber, connDev, connTicket, client, channel, delivered,
                   sseActive, sessionVars, pollVars>>

CountSse(c) ==
    /\ conn[c] = "admitted"
    /\ conn' = [conn EXCEPT ![c] = "counted"]
    /\ sseActive' = sseActive + 1
    /\ UNCHANGED <<ticket, subscriber, connDev, connTicket, client, channel, delivered,
                   sessionVars, pollVars>>

\* subscribe_offers replaces whatever subscription the device had, which drops
\* the sender of the replaced channel; the SSE task is spawned.
subscribe_offers(c) ==
    /\ conn[c] = "counted"
    /\ conn' = [conn EXCEPT ![c] = "running"]
    /\ subscriber' = [subscriber EXCEPT ![connDev[c]] = c]
    /\ UNCHANGED <<ticket, connDev, connTicket, client, channel, delivered, sseActive,
                   sessionVars, pollVars>>

\* The desktop hangs up while subscribe_offers waits for the lock: the handler
\* is dropped before the task that would decrement the gauge exists.
CancelSse(c) ==
    /\ conn[c] = "counted"
    /\ conn' = [conn EXCEPT ![c] = "closed"]
    /\ UNCHANGED <<ticket, subscriber, connDev, connTicket, client, channel, delivered,
                   sseActive, sessionVars, pollVars>>

\* The desktop stops reading; the server may (dropped) or may not (dead) know.
LoseClient(c, how) ==
    /\ conn[c] = "running"
    /\ client[c] # "dropped" /\ client[c] # how
    /\ client' = [client EXCEPT ![c] = how]
    /\ UNCHANGED <<ticket, subscriber, conn, connDev, connTicket, channel, delivered,
                   sseActive, sessionVars, pollVars>>

\* Mutant: the event is sent but stays in the channel.
ForwardOffer_Peek(c) ==
    /\ conn[c] = "running"
    /\ channel[c] # <<>>
    /\ client[c] = "up"
    /\ delivered' = delivered \cup {<<Head(channel[c]), c>>}
    /\ UNCHANGED <<ticket, subscriber, conn, connDev, connTicket, client, channel,
                   sseActive, sessionVars, pollVars>>

\* The biased select takes an offer first.
ForwardOffer(c) ==
    /\ conn[c] = "running"
    /\ channel[c] # <<>>
    /\ channel' = [channel EXCEPT ![c] = Tail(@)]
    /\ delivered' = IF client[c] = "up" THEN delivered \cup {<<Head(channel[c]), c>>}
                                       ELSE delivered
    /\ conn' = [conn EXCEPT ![c] = IF client[c] = "dropped" THEN "exiting" ELSE "running"]
    /\ UNCHANGED <<ticket, subscriber, connDev, connTicket, client, sseActive,
                   sessionVars, pollVars>>

\* Mutant: an unbiased select lets the end of the stream overtake its offers.
StopForwarding_Unbiased(c) ==
    /\ conn[c] = "running"
    /\ conn' = [conn EXCEPT ![c] = "exiting"]
    /\ UNCHANGED <<ticket, subscriber, connDev, connTicket, client, channel, delivered,
                   sseActive, sessionVars, pollVars>>

\* Mutant: the task returns from inside its loop, without unsubscribing.
StopForwarding_Return(c) ==
    /\ conn[c] = "running"
    /\ channel[c] = <<>>
    /\ conn' = [conn EXCEPT ![c] = "unsubscribed"]
    /\ UNCHANGED <<ticket, subscriber, connDev, connTicket, client, channel, delivered,
                   sseActive, sessionVars, pollVars>>

\* The channel is drained and the task leaves its loop: it was replaced (recv
\* returns None), a ping could not be sent, or SSE_MAX_LIFETIME elapsed.
StopForwarding(c) ==
    /\ conn[c] = "running"
    /\ channel[c] = <<>>
    /\ conn' = [conn EXCEPT ![c] = "exiting"]
    /\ UNCHANGED <<ticket, subscriber, connDev, connTicket, client, channel, delivered,
                   sseActive, sessionVars, pollVars>>

\* Mutant: removal by device, without comparing the identity.
unsubscribe_offers_ByDevice(c) ==
    /\ conn[c] = "exiting"
    /\ conn' = [conn EXCEPT ![c] = "unsubscribed"]
    /\ subscriber' = [subscriber EXCEPT ![connDev[c]] = None]
    /\ UNCHANGED <<ticket, connDev, connTicket, client, channel, delivered, sseActive,
                   sessionVars, pollVars>>

\* Mutant: a replaced task returns early and keeps its place in the gauge.
unsubscribe_offers_OnlyOwner(c) ==
    /\ conn[c] = "exiting"
    /\ subscriber[connDev[c]] = c
    /\ conn' = [conn EXCEPT ![c] = "unsubscribed"]
    /\ subscriber' = [subscriber EXCEPT ![connDev[c]] = None]
    /\ UNCHANGED <<ticket, connDev, connTicket, client, channel, delivered, sseActive,
                   sessionVars, pollVars>>

\* Compare-and-delete by sub_id.
unsubscribe_offers(c) ==
    /\ conn[c] = "exiting"
    /\ conn' = [conn EXCEPT ![c] = "unsubscribed"]
    /\ subscriber' = [subscriber EXCEPT ![connDev[c]] = IF @ = c THEN None ELSE @]
    /\ UNCHANGED <<ticket, connDev, connTicket, client, channel, delivered, sseActive,
                   sessionVars, pollVars>>

\* The gauge is released and the receiver dropped with what it still holds.
ReleaseSse(c) ==
    /\ conn[c] = "unsubscribed"
    /\ conn' = [conn EXCEPT ![c] = "closed"]
    /\ channel' = [channel EXCEPT ![c] = <<>>]
    /\ sseActive' = sseActive - 1
    /\ UNCHANGED <<ticket, subscriber, connDev, connTicket, client, delivered,
                   sessionVars, pollVars>>

-----------------------------------------------------------------------------
(* GET answer: poll_answer.  ConnGuard gives the gauge back wherever the   *)
(* handler ends, its cancellation included.                                *)

\* The load of the gauge; over the cap the request ends with 429.
AdmitPoll(p, s) ==
    /\ poll[p] = "idle"
    /\ offerReq[s] = "ok"
    /\ pollActive < MaxPolls
    /\ poll' = [poll EXCEPT ![p] = "admitted"]
    /\ pollSession' = [pollSession EXCEPT ![p] = s]
    /\ UNCHANGED <<notified, collected, pollActive, sessionVars, sseVars>>

\* ConnGuard::new.
CountPoll(p) ==
    /\ poll[p] = "admitted"
    /\ poll' = [poll EXCEPT ![p] = "counted"]
    /\ pollActive' = pollActive + 1
    /\ UNCHANGED <<pollSession, notified, collected, sessionVars, sseVars>>

Answered(s) == session[s] = "live" /\ answer[s] # "none"

\* Mutant: no answer in time is reported to the phone as a refusal.
Respond_Refuse(p) ==
    LET s == pollSession[p] IN
    /\ poll' = [poll EXCEPT ![p] = "idle"]
    /\ notified' = [notified EXCEPT ![p] = FALSE]
    /\ collected' = collected \cup {<<s, IF Answered(s) THEN answer[s] ELSE "rejected">>}
    /\ pollActive' = pollActive - 1
    /\ pollSession' = [pollSession EXCEPT ![p] = None]
    /\ UNCHANGED <<sessionVars, sseVars>>

\* The handler of slot p returns; the phone learns the answer if there is one.
Respond(p) ==
    LET s == pollSession[p] IN
    /\ poll' = [poll EXCEPT ![p] = "idle"]
    /\ notified' = [notified EXCEPT ![p] = FALSE]
    /\ collected' = IF Answered(s) THEN collected \cup {<<s, answer[s]>>} ELSE collected
    /\ pollActive' = pollActive - 1
    /\ pollSession' = [pollSession EXCEPT ![p] = None]
    /\ UNCHANGED <<sessionVars, sseVars>>

\* The first look: 404 or the answer at once, or go on to wait.
peek_answer(p) ==
    LET s == pollSession[p] IN
    /\ poll[p] = "counted"
    /\ \/ /\ session[s] # "live" \/ answer[s] # "none"
          /\ Respond(p)
       \/ /\ session[s] = "live" /\ answer[s] = "none"
          /\ poll' = [poll EXCEPT ![p] = "peeked"]
          /\ UNCHANGED <<pollSession, notified, collected, pollActive, sessionVars, sseVars>>

\* notify.notified(): the future exists from here on.
AwaitNotify(p) ==
    /\ poll[p] = "peeked"
    /\ poll' = [poll EXCEPT ![p] = "waiting"]
    /\ UNCHANGED <<pollSession, notified, collected, pollActive, sessionVars, sseVars>>

\* The future is woken; the handler looks a second time.
WakePoll(p) ==
    /\ poll[p] = "waiting"
    /\ notified[p]
    /\ Respond(p)

\* Mutant: the wait for the notification has no time limit.
TimeoutPoll_Never(p) == FALSE /\ Respond(p)

\* LONG_POLL_HOLD elapses; the handler looks a second time all the same.
TimeoutPoll(p) ==
    /\ poll[p] = "waiting"
    /\ ~notified[p]
    /\ Respond(p)

\* Mutant: the gauge is decremented on the normal path only, without a guard.
CancelPoll_Leak(p) ==
    /\ poll[p] \in {"counted", "waiting"}
    /\ poll' = [poll EXCEPT ![p] = "idle"]
    /\ notified' = [notified EXCEPT ![p] = FALSE]
    /\ pollSession' = [pollSession EXCEPT ![p] = None]
    /\ UNCHANGED <<pollActive, collected, sessionVars, sseVars>>

\* The phone hangs up: the future and its guard are dropped.
CancelPoll(p) ==
    /\ poll[p] \in {"counted", "waiting"}
    /\ poll' = [poll EXCEPT ![p] = "idle"]
    /\ notified' = [notified EXCEPT ![p] = FALSE]
    /\ pollActive' = pollActive - 1
    /\ pollSession' = [pollSession EXCEPT ![p] = None]
    /\ UNCHANGED <<collected, sessionVars, sseVars>>

-----------------------------------------------------------------------------
OfferHandler(s) == get_session(s) \/ push_offer(s)

SseTask(c) ==
    \/ ForwardOffer(c)
    \/ StopForwarding(c)
    \/ unsubscribe_offers(c)
    \/ ReleaseSse(c)

PollHandler(p) ==
    \/ CountPoll(p)
    \/ peek_answer(p)
    \/ AwaitNotify(p)
    \/ WakePoll(p)
    \/ TimeoutPoll(p)

Phone ==
    \/ \E s \in Sessions, d \in Devices : create_session(s, d)
    \/ \E s \in Sessions : CancelOffer(s)
    \/ \E p \in Polls, s \in Sessions : AdmitPoll(p, s)
    \/ \E p \in Polls : CancelPoll(p)

Desktop ==
    \/ \E s \in Sessions, a \in Answers : submit_answer(s, a)
    \/ \E t \in Tickets, d \in Devices : issue_ticket(t, d)
    \/ \E c \in Conns, t \in Tickets, d \in Devices : redeem_ticket(c, t, d)
    \/ \E c \in Conns : CancelSse(c)
    \/ \E c \in Conns, how \in {"dead", "dropped"} : LoseClient(c, how)

Server ==
    \/ \E s \in Sessions : OfferHandler(s)
    \/ \E c \in Conns : AdmitSse(c) \/ CountSse(c) \/ subscribe_offers(c) \/ SseTask(c)
    \/ \E p \in Polls : PollHandler(p)
    \/ cleanup_expired_sessions

Clock ==
    \/ \E s \in Sessions : ExpireSession(s)
    \/ \E t \in Tickets : ExpireTicket(t)

Next == Phone \/ Desktop \/ Server \/ Clock

Spec == Init /\ [][Next]_vars

\* The runtime keeps polling a handler or a task that is ready to go on; the
\* hold of a poll and the lifetime of a stream are timers that do elapse.
Fairness ==
    /\ \A s \in Sessions : WF_vars(OfferHandler(s))
    /\ \A p \in Polls : WF_vars(PollHandler(p))
    /\ \A c \in Conns : WF_vars(SseTask(c))

FairSpec == Spec /\ Fairness

-----------------------------------------------------------------------------
(* Properties.                                                             *)

\* create_session never lets one device hold more than MAX_SESSIONS_PER_DEVICE
\* unexpired sessions, whatever the interleaving of offers, expiry and GC.
SessionsCapped == \A d \in Devices : Cardinality(Active(d)) <= MaxSessions

\* Requests that got past redeem_ticket hold distinct tickets, each bound to the
\* device it is used for: a ticket opens one event stream at most.
PastTicket(c) == conn[c] \notin {"idle", "refused"}

TicketOpensOneStream ==
    /\ \A c, e \in Conns :
         PastTicket(c) /\ PastTicket(e) /\ connTicket[c] = connTicket[e] => c = e
    /\ \A c \in Conns : PastTicket(c) => ticket[connTicket[c]].dev = connDev[c]

\* A registered subscription has a task behind it that will still unregister it:
\* push_offer never feeds a channel whose task has ended, for ever.
SubscriptionHasTask ==
    \A d \in Devices : subscriber[d] # None =>
        conn[subscriber[d]] \in {"running", "exiting"} /\ connDev[subscriber[d]] = d

\* A subscription disappears only because its own task ended or because a newer
\* request replaced it; the exit of an old task never removes a newer one.
NoStaleUnsubscribe ==
    [][\A d \in Devices : subscriber'[d] # subscriber[d] =>
         \/ subscriber[d] # None /\ conn[subscriber[d]] = "exiting" /\ subscriber'[d] = None
         \/ \E c \in Conns : conn[c] = "counted" /\ subscriber'[d] = c]_vars

\* An offer reaches at most one event stream, one of the device it was made for,
\* and it does not wait in a channel any more once it was delivered.
Queued(s, c) == \E i \in 1 .. Len(channel[c]) : channel[c][i] = s
OfferDeliveredOnce ==
    /\ \A m, n \in delivered : m[1] = n[1] => m = n
    /\ \A m \in delivered : connDev[m[2]] = sessionDev[m[1]]
    /\ \A m \in delivered, c \in Conns : ~Queued(m[1], c)

\* The poll gauge is exactly the number of handlers that hold a guard, so it
\* neither leaks nor wraps below zero.
Guarded == {p \in Polls : poll[p] \in {"counted", "peeked", "waiting"}}
PollGaugeExact == pollActive = Cardinality(Guarded)

\* The SSE gauge never counts fewer streams than exist (it may count more: a
\* handler dropped while it waits for the lock leaves its increment behind).
Streaming == {c \in Conns : conn[c] \in {"counted", "running", "exiting", "unsubscribed"}}
SseGaugeCovers == sseActive >= Cardinality(Streaming)

\* A stream ends and gives its place in the gauge back, replaced or not.
StreamEnds == \A c \in Conns : conn[c] = "running" ~> conn[c] = "closed"

\* Every long poll is answered: the hold timer makes up for a lost wake-up.
PollReturns == \A p \in Polls : poll[p] = "waiting" ~> poll[p] = "idle"

\* An offer in the channel of a running task is sent to the desktop unless the
\* desktop goes away: neither the replacement of the stream nor the end of its
\* life leaves an offer behind.
QueuedOfferSent ==
    \A s \in Sessions, c \in Conns :
        (Queued(s, c) /\ conn[c] = "running" /\ client[c] = "up")
            ~> (<<s, c>> \in delivered \/ client[c] # "up")

-----------------------------------------------------------------------------
(* The store implements Rendezvous.                                        *)

R == INSTANCE Rendezvous WITH
       owner   <- [s \in Sessions |-> IF offerReq[s] = "ok" THEN sessionDev[s] ELSE None],
       inbox   <- [d \in Devices |->
                     {s \in Sessions : \E c \in Conns : <<s, c>> \in delivered /\ connDev[c] = d}],
       verdict <- answer,
       learned <- collected

\* Sessions, channels, streams and polls together keep the promise of the
\* abstract specification, however requests, exits and expiries interleave.
ImplementsRendezvous == R!RendezvousSpec

-----------------------------------------------------------------------------
(* What comments of the code say and the code does not do.                 *)

\* signaling.rs:40 "Notify stores one permit, wake-up is reliable under the
\* double check": no poll sleeps on without a wake-up once the answer is there.
NoLostWakeup ==
    \A p \in Polls : poll[p] = "waiting" /\ Answered(pollSession[p]) => notified[p]

\* signaling_handlers.rs:176 "no active subscription: 503 fast-fail ... rather
\* than create a session and wait": an offer refused with 503 leaves no session.
OfflineLeavesNoSession ==
    \A s \in Sessions : offerReq[s] = "offline" => session[s] # "live"
=============================================================================
