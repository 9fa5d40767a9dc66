------------------------- MODULE SignalStoreProofs -------------------------
(***************************************************************************)
(* Theorems about SignalStore, for every set of devices, sessions, tickets,*)
(* streams and polls and every limit.                                      *)
(***************************************************************************)
EXTENDS SignalStore, FiniteSetTheorems, TLAPS

\* The types are not inductive by themselves: the gauges stay natural numbers
\* only because they cover the requests that will decrement them.
SseInv  == SseTypeOK /\ SseGaugeCovers
PollInv ==
    /\ PollTypeOK
    /\ PollGaugeExact
    /\ \A p \in Polls : poll[p] # "idle" => pollSession[p] \in Sessions
GaugeInv == SessionTypeOK /\ SseInv /\ PollInv

-----------------------------------------------------------------------------
(* What a step leaves alone keeps its part of the invariant.               *)

LEMMA SessionFrame ==
    ASSUME SessionTypeOK, UNCHANGED sessionVars PROVE SessionTypeOK'
  BY DEF SessionTypeOK, sessionVars

LEMMA SseFrame ==
    ASSUME SseInv, UNCHANGED sseVars PROVE SseInv'
  BY DEF SseInv, SseTypeOK, SseGaugeCovers, Streaming, sseVars

LEMMA PollFrame ==
    ASSUME PollInv, UNCHANGED pollVars PROVE PollInv'
  BY DEF PollInv, PollTypeOK, PollGaugeExact, Guarded, pollVars

-----------------------------------------------------------------------------
(* The gauges.                                                             *)

LEMMA GuardedFinite == IsFiniteSet(Guarded) /\ Cardinality(Guarded) \in Nat
  BY FiniteAssumption, FS_Subset, FS_CardinalityType DEF Guarded

LEMMA StreamingFinite == IsFiniteSet(Streaming) /\ Cardinality(Streaming) \in Nat
  BY FiniteAssumption, FS_Subset, FS_CardinalityType DEF Streaming

\* A handler that returns or is cancelled takes its guard with it.
LEMMA GuardReleased ==
    ASSUME PollInv, NEW p \in Polls,
           poll[p] \in {"counted", "peeked", "waiting"},
           poll' = [poll EXCEPT ![p] = "idle"],
           pollActive' = pollActive - 1
    PROVE  pollActive' \in Nat /\ PollGaugeExact'
<1>1. p \in Guarded
  BY DEF Guarded
<1>2. Guarded' = Guarded \ {p}
  BY DEF Guarded, PollInv, PollTypeOK
<1>3. /\ Cardinality(Guarded \ {p}) = Cardinality(Guarded) - 1
      /\ IsFiniteSet(Guarded \ {p})
  BY <1>1, GuardedFinite, FS_RemoveElement
<1>4. Cardinality(Guarded \ {p}) \in Nat
  BY <1>3, FS_CardinalityType
<1>5. QED
  BY <1>2, <1>3, <1>4 DEF PollInv, PollGaugeExact

\* A stream that ends gives back a place the gauge has counted.
LEMMA StreamReleased ==
    ASSUME SseInv, NEW c \in Conns,
           conn[c] = "unsubscribed",
           conn' = [conn EXCEPT ![c] = "closed"],
           sseActive' = sseActive - 1
    PROVE  sseActive' \in Nat /\ SseGaugeCovers'
<1>1. c \in Streaming
  BY DEF Streaming
<1>2. Streaming' = Streaming \ {c}
  BY DEF Streaming, SseInv, SseTypeOK
<1>3. /\ Cardinality(Streaming \ {c}) = Cardinality(Streaming) - 1
      /\ IsFiniteSet(Streaming \ {c})
  BY <1>1, StreamingFinite, FS_RemoveElement
<1>4. Cardinality(Streaming \ {c}) \in Nat
  BY <1>3, FS_CardinalityType
<1>5. Cardinality(Streaming) \in Nat /\ sseActive \in Nat /\ sseActive >= Cardinality(Streaming)
  BY StreamingFinite DEF SseInv, SseTypeOK, SseGaugeCovers
<1>6. QED
  BY <1>2, <1>3, <1>4, <1>5 DEF SseGaugeCovers

\* A step that opens no stream leaves the gauge large enough.
LEMMA StreamsKept ==
    ASSUME SseInv, Streaming' \subseteq Streaming, sseActive' = sseActive
    PROVE  SseGaugeCovers'
<1>1. Cardinality(Streaming') <= Cardinality(Streaming) /\ Cardinality(Streaming') \in Nat
  BY StreamingFinite, FS_Subset, FS_CardinalityType
<1>2. QED
  BY <1>1, StreamingFinite DEF SseInv, SseTypeOK, SseGaugeCovers
-----------------------------------------------------------------------------
(* One lemma per group of actions.                                         *)

SessionAction ==
    \/ \E s \in Sessions, d \in Devices : create_session(s, d)
    \/ \E s \in Sessions : CancelOffer(s) \/ get_session(s) \/ ExpireSession(s)
    \/ cleanup_expired_sessions

LEMMA SessionStep == ASSUME GaugeInv, SessionAction PROVE GaugeInv'
<1>1. UNCHANGED sseVars /\ UNCHANGED pollVars
  BY DEF SessionAction, create_session, CancelOffer, get_session, ExpireSession,
         cleanup_expired_sessions
<1>2. ASSUME NEW s \in Sessions, NEW d \in Devices, create_session(s, d)
      PROVE  SessionTypeOK'
  BY <1>2 DEF GaugeInv, SessionTypeOK, create_session, SessionState, OfferState
<1>3. ASSUME NEW s \in Sessions, CancelOffer(s) \/ get_session(s) \/ ExpireSession(s)
      PROVE  SessionTypeOK'
  BY <1>3 DEF GaugeInv, SessionTypeOK, CancelOffer, get_session, ExpireSession,
              SessionState, OfferState
<1>4. ASSUME cleanup_expired_sessions PROVE SessionTypeOK'
  BY <1>4 DEF GaugeInv, SessionTypeOK, cleanup_expired_sessions, SessionState
<1>5. QED
  BY <1>1, <1>2, <1>3, <1>4, SseFrame, PollFrame DEF SessionAction, GaugeInv

LEMMA PushStep == ASSUME GaugeInv, NEW s \in Sessions, push_offer(s) PROVE GaugeInv'
<1>1. SessionTypeOK'
  BY DEF GaugeInv, SessionTypeOK, push_offer, OfferState
<1>2. channel' \in [Conns -> Seq(Sessions)]
  <2>1. channel \in [Conns -> Seq(Sessions)]
    BY DEF GaugeInv, SseInv, SseTypeOK
  <2>2. \/ UNCHANGED channel
        \/ channel' = [channel EXCEPT ![subscriber[sessionDev[s]]] = Append(@, s)]
    BY DEF push_offer
  <2>3. \A c \in Conns : Append(channel[c], s) \in Seq(Sessions)
    BY <2>1
  <2>4. QED
    BY <2>1, <2>2, <2>3
<1>3. UNCHANGED <<ticket, subscriber, conn, connDev, connTicket, client, delivered, sseActive>>
  BY DEF push_offer
<1>4. SseInv'
  BY <1>2, <1>3 DEF GaugeInv, SseInv, SseTypeOK, SseGaugeCovers, Streaming
<1>5. QED
  BY <1>1, <1>4, PollFrame DEF push_offer, GaugeInv

LEMMA AnswerStep ==
    ASSUME GaugeInv, NEW s \in Sessions, NEW a \in Answers, submit_answer(s, a)
    PROVE  GaugeInv'
<1>1. SessionTypeOK'
  BY DEF GaugeInv, SessionTypeOK, submit_answer, Woken, SessionState
<1>2. notified' \in [Polls -> BOOLEAN]
  BY DEF GaugeInv, PollInv, PollTypeOK, submit_answer, Woken
<1>3. UNCHANGED <<poll, pollSession, collected, pollActive>>
  BY DEF submit_answer, Woken
<1>4. PollInv'
  BY <1>2, <1>3 DEF GaugeInv, PollInv, PollTypeOK, PollGaugeExact, Guarded
<1>5. QED
  BY <1>1, <1>4, SseFrame DEF submit_answer, Woken, GaugeInv

StreamAction(c) ==
    \/ AdmitSse(c) \/ subscribe_offers(c) \/ CancelSse(c)
    \/ \E how \in {"dead", "dropped"} : LoseClient(c, how)
    \/ ForwardOffer(c) \/ StopForwarding(c) \/ unsubscribe_offers(c)

LEMMA TicketStep ==
    ASSUME GaugeInv,
           \/ \E t \in Tickets, d \in Devices : issue_ticket(t, d)
           \/ \E t \in Tickets : ExpireTicket(t)
           \/ \E c \in Conns, t \in Tickets, d \in Devices : redeem_ticket(c, t, d)
    PROVE  GaugeInv'
<1>1. UNCHANGED <<sessionVars, pollVars, subscriber, client, channel, delivered, sseActive>>
  BY DEF issue_ticket, ExpireTicket, redeem_ticket
<1>2. ASSUME NEW t \in Tickets, NEW d \in Devices, issue_ticket(t, d) PROVE SseInv'
  <2>1. ticket' \in [Tickets -> [state : TicketState, dev : Devices \cup {None}]]
    <3>1. \A u \in Tickets : ticket[u] \in [state : TicketState, dev : Devices \cup {None}]
      BY DEF GaugeInv, SseInv, SseTypeOK
    <3>2. \A u \in Tickets : [ticket[u] EXCEPT !.state = "gone"]
                               \in [state : TicketState, dev : Devices \cup {None}]
      BY <3>1 DEF TicketState
    <3>3. [state |-> "live", dev |-> d] \in [state : TicketState, dev : Devices \cup {None}]
      BY DEF TicketState
    <3>4. QED
      BY <1>2, <3>1, <3>2, <3>3 DEF issue_ticket
  <2>2. QED
    BY <1>2, <2>1 DEF GaugeInv, SseInv, SseTypeOK, SseGaugeCovers, Streaming, issue_ticket
<1>3. ASSUME NEW t \in Tickets, ExpireTicket(t) PROVE SseInv'
  <2>1. ticket' \in [Tickets -> [state : TicketState, dev : Devices \cup {None}]]
    <3>1. ticket[t] \in [state : TicketState, dev : Devices \cup {None}]
      BY DEF GaugeInv, SseInv, SseTypeOK
    <3>2. [ticket[t] EXCEPT !.state = "expired"] \in [state : TicketState, dev : Devices \cup {None}]
      BY <3>1 DEF TicketState
    <3>3. ticket' = [ticket EXCEPT ![t] = [ticket[t] EXCEPT !.state = "expired"]]
      BY <1>3 DEF ExpireTicket
    <3>4. QED
      BY <3>2, <3>3 DEF GaugeInv, SseInv, SseTypeOK
  <2>2. QED
    BY <1>3, <2>1 DEF GaugeInv, SseInv, SseTypeOK, SseGaugeCovers, Streaming, ExpireTicket
<1>4. ASSUME NEW c \in Conns, NEW t \in Tickets, NEW d \in Devices, redeem_ticket(c, t, d)
      PROVE  SseInv'
  <2>1. ticket' \in [Tickets -> [state : TicketState, dev : Devices \cup {None}]]
    <3>1. ticket[t] \in [state : TicketState, dev : Devices \cup {None}]
      BY DEF GaugeInv, SseInv, SseTypeOK
    <3>2. [ticket[t] EXCEPT !.state = "gone"] \in [state : TicketState, dev : Devices \cup {None}]
      BY <3>1 DEF TicketState
    <3>3. ticket' = [ticket EXCEPT ![t] = [ticket[t] EXCEPT !.state = "gone"]]
      BY <1>4 DEF redeem_ticket
    <3>4. QED
      BY <3>2, <3>3 DEF GaugeInv, SseInv, SseTypeOK
  <2>2. /\ conn' \in [Conns -> ConnState]
        /\ connDev' \in [Conns -> Devices \cup {None}]
        /\ connTicket' \in [Conns -> Tickets \cup {None}]
    BY <1>4 DEF GaugeInv, SseInv, SseTypeOK, redeem_ticket, ConnState
  <2>3. Streaming' \subseteq Streaming
    BY <1>4 DEF GaugeInv, SseInv, SseTypeOK, redeem_ticket, Streaming
  <2>4. SseGaugeCovers'
    BY <1>1, <2>3, StreamsKept DEF GaugeInv
  <2>5. QED
    BY <1>1, <2>1, <2>2, <2>4 DEF GaugeInv, SseInv, SseTypeOK
<1>5. QED
  BY <1>1, <1>2, <1>3, <1>4, SessionFrame, PollFrame DEF GaugeInv

LEMMA StreamStep == ASSUME GaugeInv, NEW c \in Conns, StreamAction(c) PROVE GaugeInv'
<1>1. UNCHANGED <<sessionVars, pollVars, ticket, connDev, connTicket, sseActive>>
  BY DEF StreamAction, AdmitSse, subscribe_offers, CancelSse, LoseClient, ForwardOffer,
         StopForwarding, unsubscribe_offers
<1>2. conn' \in [Conns -> ConnState] /\ Streaming' \subseteq Streaming
  <2>1. \E v \in ConnState : conn' \in {conn, [conn EXCEPT ![c] = v]}
    BY DEF ConnState, StreamAction, AdmitSse, subscribe_offers, CancelSse, LoseClient,
           ForwardOffer, StopForwarding, unsubscribe_offers
  <2>2. conn' \in [Conns -> ConnState]
    BY <2>1 DEF GaugeInv, SseInv, SseTypeOK
  <2>3. ASSUME NEW e \in Conns PROVE e \in Streaming' => e \in Streaming
    BY SMTT(20) DEF GaugeInv, SseInv, SseTypeOK, Streaming, StreamAction, AdmitSse,
           subscribe_offers, CancelSse, LoseClient, ForwardOffer, StopForwarding,
           unsubscribe_offers
  <2>4. QED
    BY <2>2, <2>3 DEF Streaming
<1>3. SseGaugeCovers'
  BY <1>1, <1>2, StreamsKept DEF GaugeInv
<1>4. /\ client' \in [Conns -> {"up", "dead", "dropped"}]
      /\ subscriber' \in [Devices -> Conns \cup {None}]
  <2>1. \E how \in {"up", "dead", "dropped"} : client' \in {client, [client EXCEPT ![c] = how]}
    BY DEF StreamAction, AdmitSse, subscribe_offers, CancelSse, LoseClient, ForwardOffer,
           StopForwarding, unsubscribe_offers
  <2>2. \E d \in {connDev[c]}, e \in {c, None, subscriber[connDev[c]]} :
          subscriber' \in {subscriber, [subscriber EXCEPT ![d] = e]}
    BY DEF StreamAction, AdmitSse, subscribe_offers, CancelSse, LoseClient, ForwardOffer,
           StopForwarding, unsubscribe_offers
  <2>3. connDev[c] \in Devices => subscriber[connDev[c]] \in Conns \cup {None}
    BY DEF GaugeInv, SseInv, SseTypeOK
  <2>4. client' \in [Conns -> {"up", "dead", "dropped"}]
    BY <2>1 DEF GaugeInv, SseInv, SseTypeOK
  <2>5. subscriber \in [Devices -> Conns \cup {None}]
    BY DEF GaugeInv, SseInv, SseTypeOK
  <2>6. QED
    BY <2>2, <2>3, <2>4, <2>5
<1>5. /\ channel' \in [Conns -> Seq(Sessions)]
      /\ delivered' \in SUBSET (Sessions \X Conns)
  <2>1. CASE ForwardOffer(c)
    <3>1. channel[c] \in Seq(Sessions) /\ channel[c] # <<>>
      BY <2>1 DEF GaugeInv, SseInv, SseTypeOK, ForwardOffer
    <3>2. Head(channel[c]) \in Sessions /\ Tail(channel[c]) \in Seq(Sessions)
      BY <3>1
    <3>3. QED
      BY <2>1, <3>2 DEF GaugeInv, SseInv, SseTypeOK, ForwardOffer
  <2>2. CASE ~ForwardOffer(c)
    BY <2>2 DEF GaugeInv, SseInv, SseTypeOK, StreamAction, AdmitSse, subscribe_offers,
                CancelSse, LoseClient, StopForwarding, unsubscribe_offers
  <2>3. QED
    BY <2>1, <2>2
<1>6. SseInv'
  BY <1>1, <1>2, <1>3, <1>4, <1>5 DEF GaugeInv, SseInv, SseTypeOK
<1>7. QED
  BY <1>1, <1>6, SessionFrame, PollFrame DEF GaugeInv

LEMMA GaugeStep ==
    ASSUME GaugeInv, NEW c \in Conns, CountSse(c) \/ ReleaseSse(c) PROVE GaugeInv'
<1>1. UNCHANGED <<sessionVars, pollVars>>
  BY DEF CountSse, ReleaseSse
<1>2. CASE CountSse(c)
  <2>1. c \notin Streaming /\ Streaming' = Streaming \cup {c}
    BY <1>2 DEF GaugeInv, SseInv, SseTypeOK, CountSse, Streaming
  <2>2. Cardinality(Streaming') = Cardinality(Streaming) + 1
    BY <2>1, StreamingFinite, FS_AddElement
  <2>3. SseGaugeCovers'
    BY <1>2, <2>2, StreamingFinite DEF GaugeInv, SseInv, SseTypeOK, SseGaugeCovers, CountSse
  <2>4. SseTypeOK'
    BY <1>2 DEF GaugeInv, SseInv, SseTypeOK, CountSse, ConnState
  <2>5. QED
    BY <1>1, <2>3, <2>4, SessionFrame, PollFrame DEF GaugeInv, SseInv
<1>3. CASE ReleaseSse(c)
  <2>1. sseActive' \in Nat /\ SseGaugeCovers'
    BY <1>3, StreamReleased DEF GaugeInv, ReleaseSse
  <2>2. SseTypeOK'
    BY <1>3, <2>1 DEF GaugeInv, SseInv, SseTypeOK, ReleaseSse, ConnState
  <2>3. QED
    BY <1>1, <2>1, <2>2, SessionFrame, PollFrame DEF GaugeInv, SseInv
<1>4. QED
  BY <1>2, <1>3

LEMMA RespondStep ==
    ASSUME GaugeInv, NEW p \in Polls, poll[p] \in {"counted", "peeked", "waiting"}, Respond(p)
    PROVE  GaugeInv'
<1>1. pollActive' \in Nat /\ PollGaugeExact'
  BY GuardReleased DEF GaugeInv, Respond
<1>2. collected' \in SUBSET (Sessions \X Answers)
  <2>1. ASSUME Answered(pollSession[p])
        PROVE  <<pollSession[p], answer[pollSession[p]]>> \in Sessions \X Answers
    BY <2>1 DEF GaugeInv, SessionTypeOK, PollInv, Answered, Answers
  <2>2. QED
    BY <2>1 DEF GaugeInv, PollInv, PollTypeOK, Respond
<1>3. PollTypeOK'
  BY <1>1, <1>2 DEF GaugeInv, PollInv, PollTypeOK, Respond, PollState
<1>4. \A q \in Polls : poll'[q] # "idle" => pollSession'[q] \in Sessions
  BY DEF GaugeInv, PollInv, PollTypeOK, Respond
<1>5. QED
  BY <1>1, <1>3, <1>4, SessionFrame, SseFrame DEF GaugeInv, PollInv, Respond

LEMMA PollStep ==
    ASSUME GaugeInv, NEW p \in Polls,
           (\E s \in Sessions : AdmitPoll(p, s)) \/ PollHandler(p) \/ CancelPoll(p)
    PROVE  GaugeInv'
<1>1. ASSUME NEW s \in Sessions, AdmitPoll(p, s) PROVE GaugeInv'
  <2>1. Guarded' = Guarded
    BY <1>1 DEF GaugeInv, PollInv, PollTypeOK, AdmitPoll, Guarded
  <2>2. PollInv'
    BY <1>1, <2>1 DEF GaugeInv, PollInv, PollTypeOK, PollGaugeExact, AdmitPoll, PollState
  <2>3. QED
    BY <1>1, <2>2, SessionFrame, SseFrame DEF GaugeInv, AdmitPoll
<1>2. CASE CountPoll(p)
  <2>1. p \notin Guarded /\ Guarded' = Guarded \cup {p}
    BY <1>2 DEF GaugeInv, PollInv, PollTypeOK, CountPoll, Guarded
  <2>2. Cardinality(Guarded') = Cardinality(Guarded) + 1
    BY <2>1, GuardedFinite, FS_AddElement
  <2>3. PollGaugeExact'
    BY <1>2, <2>2 DEF GaugeInv, PollInv, PollGaugeExact, CountPoll
  <2>4. PollTypeOK' /\ \A q \in Polls : poll'[q] # "idle" => pollSession'[q] \in Sessions
    BY <1>2 DEF GaugeInv, PollInv, PollTypeOK, CountPoll, PollState
  <2>5. QED
    BY <1>2, <2>3, <2>4, SessionFrame, SseFrame DEF GaugeInv, PollInv, CountPoll
<1>3. ASSUME poll[p] \in {"counted", "peeked"},
             poll' = [poll EXCEPT ![p] = IF poll[p] = "counted" THEN "peeked" ELSE "waiting"],
             UNCHANGED <<pollSession, notified, collected, pollActive, sessionVars, sseVars>>
      PROVE  GaugeInv'
  <2>1. Guarded' = Guarded
    BY <1>3 DEF GaugeInv, PollInv, PollTypeOK, Guarded
  <2>2. PollInv'
    BY <1>3, <2>1 DEF GaugeInv, PollInv, PollTypeOK, PollGaugeExact, PollState
  <2>3. QED
    BY <1>3, <2>2, SessionFrame, SseFrame DEF GaugeInv
<1>4. CASE peek_answer(p)
  BY <1>3, <1>4, RespondStep DEF peek_answer
<1>5. CASE AwaitNotify(p)
  BY <1>3, <1>5 DEF AwaitNotify
<1>6. CASE WakePoll(p) \/ TimeoutPoll(p)
  BY <1>6, RespondStep DEF WakePoll, TimeoutPoll
<1>7. CASE CancelPoll(p)
  <2>1. pollActive' \in Nat /\ PollGaugeExact'
    BY <1>7, GuardReleased DEF GaugeInv, CancelPoll
  <2>2. PollTypeOK' /\ \A q \in Polls : poll'[q] # "idle" => pollSession'[q] \in Sessions
    BY <1>7, <2>1 DEF GaugeInv, PollInv, PollTypeOK, CancelPoll, PollState
  <2>3. QED
    BY <1>7, <2>1, <2>2, SessionFrame, SseFrame DEF GaugeInv, PollInv, CancelPoll
<1>8. QED
  BY <1>1, <1>2, <1>4, <1>5, <1>6, <1>7 DEF PollHandler

-----------------------------------------------------------------------------

LEMMA InitGauges == Init => GaugeInv
<1>1. ASSUME Init PROVE GaugeInv
  <2>1. SessionTypeOK
    BY <1>1 DEF Init, SessionTypeOK, SessionState, OfferState
  <2>2. SseTypeOK
    BY <1>1 DEF Init, SseTypeOK, TicketState, ConnState
  <2>3. PollTypeOK /\ \A p \in Polls : poll[p] # "idle" => pollSession[p] \in Sessions
    BY <1>1 DEF Init, PollTypeOK, PollState
  <2>4. Streaming = {} /\ Guarded = {}
    BY <1>1 DEF Init, Streaming, Guarded
  <2>5. SseGaugeCovers /\ PollGaugeExact
    BY <1>1, <2>4, FS_EmptySet DEF Init, SseGaugeCovers, PollGaugeExact
  <2>6. QED
    BY <2>1, <2>2, <2>3, <2>5 DEF GaugeInv, SseInv, PollInv
<1>2. QED
  BY <1>1

LEMMA StepGauges == GaugeInv /\ [Next]_vars => GaugeInv'
<1> SUFFICES ASSUME GaugeInv, [Next]_vars PROVE GaugeInv'
  OBVIOUS
<1>1. CASE Phone
  BY <1>1, SessionStep, PollStep DEF Phone, SessionAction
<1>2. CASE Desktop
  BY <1>2, AnswerStep, TicketStep, StreamStep DEF Desktop, StreamAction
<1>3. CASE Server
  <2>1. ASSUME NEW s \in Sessions, OfferHandler(s) PROVE GaugeInv'
    BY <2>1, SessionStep, PushStep DEF OfferHandler, SessionAction
  <2>2. ASSUME NEW c \in Conns,
               AdmitSse(c) \/ CountSse(c) \/ subscribe_offers(c) \/ SseTask(c)
        PROVE  GaugeInv'
    BY <2>2, StreamStep, GaugeStep DEF SseTask, StreamAction
  <2>3. ASSUME cleanup_expired_sessions PROVE GaugeInv'
    BY <2>3, SessionStep DEF SessionAction
  <2>4. QED
    BY <1>3, <2>1, <2>2, <2>3, PollStep DEF Server
<1>4. CASE Clock
  BY <1>4, SessionStep, TicketStep DEF Clock, SessionAction
<1>5. CASE UNCHANGED vars
  BY <1>5, SessionFrame, SseFrame, PollFrame DEF GaugeInv, vars
<1>6. QED
  BY <1>1, <1>2, <1>3, <1>4, <1>5 DEF Next

THEOREM GaugesInvariant == Spec => []GaugeInv
  BY InitGauges, StepGauges, PTL DEF Spec

\* Every state of every instance is well typed; in particular the gauges, which
\* are unsigned in the code, are never decremented below zero.
THEOREM TypeCorrect == Spec => []TypeOK
<1>1. GaugeInv => TypeOK
  BY DEF GaugeInv, SseInv, PollInv, TypeOK
<1>2. QED
  BY <1>1, GaugesInvariant, PTL

\* ConnGuard: the poll gauge is exactly the number of handlers holding a guard.
THEOREM PollGauge == Spec => []PollGaugeExact
<1>1. GaugeInv => PollGaugeExact
  BY DEF GaugeInv, PollInv
<1>2. QED
  BY <1>1, GaugesInvariant, PTL

\* The SSE gauge never under-counts the streams that exist.
THEOREM SseGauge == Spec => []SseGaugeCovers
<1>1. GaugeInv => SseGaugeCovers
  BY DEF GaugeInv, SseInv
<1>2. QED
  BY <1>1, GaugesInvariant, PTL

-----------------------------------------------------------------------------
(* The subscription table and the tickets.                                 *)

SseChange(c) ==
    \/ AdmitSse(c) \/ CountSse(c) \/ subscribe_offers(c) \/ CancelSse(c) \/ SseTask(c)
    \/ \E how \in {"dead", "dropped"} : LoseClient(c, how)

\* A step of anything but a ticket or a stream.
OtherStep ==
    UNCHANGED <<ticket, subscriber, conn, connDev, connTicket>>

LEMMA NextSplit ==
    ASSUME [Next]_vars
    PROVE  \/ OtherStep
           \/ \E t \in Tickets, d \in Devices : issue_ticket(t, d)
           \/ \E t \in Tickets : ExpireTicket(t)
           \/ \E c \in Conns, t \in Tickets, d \in Devices : redeem_ticket(c, t, d)
           \/ \E c \in Conns : SseChange(c)
<1>1. Phone => OtherStep
  BY DEF Phone, OtherStep, create_session, CancelOffer, AdmitPoll, CancelPoll, sseVars
<1>2. ASSUME NEW s \in Sessions, OfferHandler(s) PROVE OtherStep
  BY <1>2 DEF OfferHandler, OtherStep, get_session, push_offer, sseVars
<1>3. ASSUME NEW p \in Polls, PollHandler(p) PROVE OtherStep
  BY <1>3 DEF PollHandler, OtherStep, CountPoll, peek_answer, AwaitNotify, WakePoll,
              TimeoutPoll, Respond, sseVars
<1>4. ASSUME NEW s \in Sessions,
             (\E a \in Answers : submit_answer(s, a)) \/ ExpireSession(s) \/ cleanup_expired_sessions
      PROVE  OtherStep
  BY <1>4 DEF OtherStep, submit_answer, Woken, ExpireSession, cleanup_expired_sessions, sseVars
<1>5. cleanup_expired_sessions => OtherStep
  BY DEF OtherStep, cleanup_expired_sessions, sseVars
<1>6. UNCHANGED vars => OtherStep
  BY DEF OtherStep, vars, sseVars
<1>7. QED
  BY <1>1, <1>2, <1>3, <1>4, <1>5, <1>6 DEF Next, Desktop, Server, Clock, SseChange

LEMMA TableStep == ASSUME SseTypeOK, SubscriptionHasTask, [Next]_vars PROVE SubscriptionHasTask'
<1>1. CASE OtherStep
  BY <1>1 DEF OtherStep, SubscriptionHasTask
<1>2. CASE \E t \in Tickets : ExpireTicket(t) \/ \E d \in Devices : issue_ticket(t, d)
  BY <1>2 DEF ExpireTicket, issue_ticket, SubscriptionHasTask
<1>3. ASSUME NEW c \in Conns, NEW t \in Tickets, NEW d \in Devices, redeem_ticket(c, t, d)
      PROVE  SubscriptionHasTask'
  BY <1>3 DEF redeem_ticket, SubscriptionHasTask, SseTypeOK
<1>4. ASSUME NEW c \in Conns, SseChange(c) PROVE SubscriptionHasTask'
  <2>1. CASE subscribe_offers(c)
    BY <2>1, NoneAssumption DEF subscribe_offers, SubscriptionHasTask, SseTypeOK
  <2>2. CASE unsubscribe_offers(c)
    BY <2>2, NoneAssumption DEF unsubscribe_offers, SubscriptionHasTask, SseTypeOK
  <2>3. CASE ~subscribe_offers(c) /\ ~unsubscribe_offers(c)
    <3>1. UNCHANGED <<subscriber, connDev>>
      BY <1>4, <2>3 DEF SseChange, SseTask, AdmitSse, CountSse, CancelSse, LoseClient,
                        ForwardOffer, StopForwarding, ReleaseSse
    <3>2. \A e \in Conns : conn[e] \in {"running", "exiting"} => conn'[e] \in {"running", "exiting"}
      BY <1>4, <2>3 DEF SseChange, SseTask, AdmitSse, CountSse, CancelSse, LoseClient,
                        ForwardOffer, StopForwarding, ReleaseSse, SseTypeOK
    <3>3. QED
      BY <3>1, <3>2 DEF SubscriptionHasTask, SseTypeOK
  <2>4. QED
    BY <2>1, <2>2, <2>3
<1>5. QED
  BY <1>1, <1>2, <1>3, <1>4, NextSplit

\* A registered subscription always has a task that will still remove it.
THEOREM SubscriptionTable == Spec => []SubscriptionHasTask
<1>1. Init => SubscriptionHasTask
  BY DEF Init, SubscriptionHasTask
<1>2. GaugeInv /\ SubscriptionHasTask /\ [Next]_vars => SubscriptionHasTask'
  BY TableStep DEF GaugeInv, SseInv
<1>3. QED
  BY <1>1, <1>2, GaugesInvariant, PTL DEF Spec

\* Only its own task or a newer request ever removes a subscription.
THEOREM IdentityDelete == Spec => NoStaleUnsubscribe
<1>1. ASSUME SseTypeOK, [Next]_vars,
             NEW d \in Devices, subscriber'[d] # subscriber[d]
      PROVE  \/ subscriber[d] # None /\ conn[subscriber[d]] = "exiting" /\ subscriber'[d] = None
             \/ \E c \in Conns : conn[c] = "counted" /\ subscriber'[d] = c
  <2>1. PICK c \in Conns : subscribe_offers(c) \/ unsubscribe_offers(c)
    BY <1>1, NextSplit
       DEF OtherStep, issue_ticket, ExpireTicket, redeem_ticket, SseChange, SseTask, AdmitSse,
           CountSse, CancelSse, LoseClient, ForwardOffer, StopForwarding, ReleaseSse
  <2>2. QED
    BY <1>1, <2>1, NoneAssumption DEF subscribe_offers, unsubscribe_offers, SseTypeOK
<1>2. GaugeInv /\ [Next]_vars =>
        [\A d \in Devices : subscriber'[d] # subscriber[d] =>
          \/ subscriber[d] # None /\ conn[subscriber[d]] = "exiting" /\ subscriber'[d] = None
          \/ \E c \in Conns : conn[c] = "counted" /\ subscriber'[d] = c]_vars
  BY <1>1 DEF GaugeInv, SseInv
<1>3. QED
  BY <1>2, GaugesInvariant, PTL DEF Spec, NoStaleUnsubscribe

\* Why a ticket opens one stream: it is gone once a request got past it, and a
\* ticket that is gone never changes again.
TicketInv ==
    /\ TicketOpensOneStream
    /\ \A c \in Conns : PastTicket(c) => connTicket[c] \in Tickets /\ ticket[connTicket[c]].state = "gone"

LEMMA TicketInvStep == ASSUME SseTypeOK, TicketInv, [Next]_vars PROVE TicketInv'
<1>1. CASE OtherStep
  BY <1>1 DEF OtherStep, TicketInv, TicketOpensOneStream, PastTicket
<1>2. ASSUME NEW t \in Tickets, ExpireTicket(t) \/ \E d \in Devices : issue_ticket(t, d)
      PROVE  TicketInv'
  <2>1. UNCHANGED <<conn, connDev, connTicket>>
    BY <1>2 DEF ExpireTicket, issue_ticket
  <2>2. \A u \in Tickets : ticket[u].state = "gone" => ticket'[u] = ticket[u]
    BY <1>2 DEF ExpireTicket, issue_ticket, SseTypeOK
  <2>3. QED
    BY <2>1, <2>2 DEF TicketInv, TicketOpensOneStream, PastTicket
<1>3. ASSUME NEW c \in Conns, NEW t \in Tickets, NEW d \in Devices, redeem_ticket(c, t, d)
      PROVE  TicketInv'
  <2>1. \A u \in Tickets : /\ ticket'[u].dev = ticket[u].dev
                           /\ ticket'[u].state = IF u = t THEN "gone" ELSE ticket[u].state
    BY <1>3 DEF redeem_ticket, SseTypeOK
  <2>2. PastTicket(c)' => ticket[t].state = "live" /\ ticket[t].dev = d
    BY <1>3 DEF redeem_ticket, SseTypeOK, PastTicket
  <2>3. \A e \in Conns \ {c} : /\ connTicket'[e] = connTicket[e]
                                /\ connDev'[e] = connDev[e]
                                /\ PastTicket(e)' = PastTicket(e)
    BY <1>3 DEF redeem_ticket, SseTypeOK, PastTicket
  <2>4. connTicket'[c] = t /\ connDev'[c] = d
    BY <1>3 DEF redeem_ticket, SseTypeOK
  <2>5. QED
    BY <2>1, <2>2, <2>3, <2>4 DEF TicketInv, TicketOpensOneStream
<1>4. ASSUME NEW c \in Conns, SseChange(c) PROVE TicketInv'
  <2>1. UNCHANGED <<ticket, connDev, connTicket>>
    BY <1>4 DEF SseChange, SseTask, AdmitSse, CountSse, subscribe_offers, CancelSse, LoseClient,
                ForwardOffer, StopForwarding, unsubscribe_offers, ReleaseSse
  <2>2. \A e \in Conns : PastTicket(e)' => PastTicket(e)
    BY <1>4 DEF SseChange, SseTask, AdmitSse, CountSse, subscribe_offers, CancelSse, LoseClient,
                ForwardOffer, StopForwarding, unsubscribe_offers, ReleaseSse, PastTicket, SseTypeOK
  <2>3. QED
    BY <2>1, <2>2 DEF TicketInv, TicketOpensOneStream
<1>5. QED
  BY <1>1, <1>2, <1>3, <1>4, NextSplit

\* A ticket opens one event stream at most, and for its own device.
THEOREM SingleUseTicket == Spec => []TicketOpensOneStream
<1>1. Init => TicketInv
  BY DEF Init, TicketInv, TicketOpensOneStream, PastTicket
<1>2. GaugeInv /\ TicketInv /\ [Next]_vars => TicketInv'
  BY TicketInvStep DEF GaugeInv, SseInv
<1>3. TicketInv => TicketOpensOneStream
  BY DEF TicketInv
<1>4. QED
  BY <1>1, <1>2, <1>3, GaugesInvariant, PTL DEF Spec

-----------------------------------------------------------------------------
(* The session cap.                                                        *)

\* A session id is fresh until the offer that owns it creates the session.
CapInv ==
    /\ SessionsCapped
    /\ \A s \in Sessions : IF offerReq[s] = "idle" THEN session[s] = "unused"
                           ELSE sessionDev[s] \in Devices

LEMMA ActiveFinite ==
    ASSUME NEW d PROVE IsFiniteSet(Active(d)) /\ Cardinality(Active(d)) \in Nat
  BY FiniteAssumption, FS_Subset, FS_CardinalityType DEF Active

\* A step that makes no session of a device live keeps the device below its cap.
LEMMA ActiveShrinks ==
    ASSUME SessionsCapped, NEW d \in Devices, Active(d)' \subseteq Active(d)
    PROVE  Cardinality(Active(d)') <= MaxSessions
<1>1. Cardinality(Active(d)') <= Cardinality(Active(d)) /\ Cardinality(Active(d)') \in Nat
  BY ActiveFinite, FS_Subset, FS_CardinalityType
<1>2. QED
  BY <1>1, ActiveFinite, LimitAssumption DEF SessionsCapped

\* Every step but create_session only ends sessions and never touches a fresh id.
LEMMA OnlyEnds ==
    ASSUME SessionTypeOK, [Next]_vars,
           ~ \E s \in Sessions, d \in Devices : create_session(s, d)
    PROVE  /\ UNCHANGED sessionDev
           /\ \A s \in Sessions : /\ session'[s] = "live" => session[s] = "live"
                                  /\ session[s] = "unused" => session'[s] = "unused"
                                  /\ offerReq'[s] = "idle" => offerReq[s] = "idle"
                                  /\ offerReq[s] = "idle" => offerReq'[s] = "idle"
                                  /\ offerReq[s] = "ok" => offerReq'[s] = "ok"
<1> DEFINE Goal == /\ UNCHANGED sessionDev
                   /\ \A s \in Sessions : /\ session'[s] = "live" => session[s] = "live"
                                          /\ session[s] = "unused" => session'[s] = "unused"
                                          /\ offerReq'[s] = "idle" => offerReq[s] = "idle"
                                          /\ offerReq[s] = "idle" => offerReq'[s] = "idle"
                                          /\ offerReq[s] = "ok" => offerReq'[s] = "ok"
<1>1. UNCHANGED sessionVars => Goal
  BY DEF sessionVars
<1>2. ASSUME NEW s \in Sessions, CancelOffer(s) \/ OfferHandler(s) PROVE Goal
  BY <1>2 DEF CancelOffer, OfferHandler, get_session, push_offer, SessionTypeOK
<1>3. ASSUME NEW s \in Sessions, ExpireSession(s) \/ \E a \in Answers : submit_answer(s, a)
      PROVE  Goal
  BY <1>3 DEF ExpireSession, submit_answer, SessionTypeOK
<1>4. cleanup_expired_sessions => Goal
  BY DEF cleanup_expired_sessions, SessionTypeOK
<1>5. ASSUME NEW p \in Polls,
             (\E s \in Sessions : AdmitPoll(p, s)) \/ CancelPoll(p) \/ PollHandler(p)
      PROVE  UNCHANGED sessionVars
  BY <1>5 DEF AdmitPoll, CancelPoll, PollHandler, CountPoll, peek_answer, AwaitNotify, WakePoll,
              TimeoutPoll, Respond
<1>6. ASSUME NEW c \in Conns, SseChange(c) PROVE UNCHANGED sessionVars
  BY <1>6 DEF SseChange, SseTask, AdmitSse, CountSse, subscribe_offers, CancelSse, LoseClient,
              ForwardOffer, StopForwarding, unsubscribe_offers, ReleaseSse
<1>7. ASSUME \/ \E t \in Tickets, d \in Devices : issue_ticket(t, d)
             \/ \E t \in Tickets : ExpireTicket(t)
             \/ \E c \in Conns, t \in Tickets, d \in Devices : redeem_ticket(c, t, d)
      PROVE  UNCHANGED sessionVars
  BY <1>7 DEF issue_ticket, ExpireTicket, redeem_ticket
<1>8. UNCHANGED vars => UNCHANGED sessionVars
  BY DEF vars
<1>9. Goal
  BY <1>1, <1>2, <1>3, <1>4, <1>5, <1>6, <1>7, <1>8
     DEF Next, Phone, Desktop, Server, Clock, SseChange
<1>10. QED
  BY <1>9

LEMMA CapStep == ASSUME SessionTypeOK, CapInv, [Next]_vars PROVE CapInv'
<1>1. ASSUME NEW s \in Sessions, NEW d \in Devices, create_session(s, d) PROVE CapInv'
  <2>1. session[s] = "unused" /\ s \notin Active(d)
    BY <1>1 DEF create_session, CapInv, Active
  <2>2. \A e \in Devices \ {d} : Active(e)' \subseteq Active(e)
    BY <1>1 DEF create_session, Active, SessionTypeOK
  <2>3. CASE HasRoom(d)
    <3>1. Active(d)' = Active(d) \cup {s}
      BY <1>1, <2>1, <2>3 DEF create_session, Active, SessionTypeOK
    <3>2. Cardinality(Active(d)') = Cardinality(Active(d)) + 1
      BY <2>1, <3>1, ActiveFinite, FS_AddElement
    <3>3. Cardinality(Active(d)') <= MaxSessions
      BY <2>3, <3>2, ActiveFinite, LimitAssumption DEF HasRoom
    <3>4. SessionsCapped'
      BY <2>2, <3>3, ActiveShrinks DEF CapInv, SessionsCapped
    <3>5. QED
      BY <1>1, <2>1, <3>4 DEF create_session, CapInv, SessionTypeOK
  <2>4. CASE ~HasRoom(d)
    <3>1. Active(d)' \subseteq Active(d)
      BY <1>1, <2>1, <2>4 DEF create_session, Active, SessionTypeOK
    <3>2. SessionsCapped'
      BY <2>2, <3>1, ActiveShrinks DEF CapInv, SessionsCapped
    <3>3. QED
      BY <1>1, <2>4, <3>2 DEF create_session, CapInv, SessionTypeOK
  <2>5. QED
    BY <2>3, <2>4
<1>2. ASSUME ~ \E s \in Sessions, d \in Devices : create_session(s, d) PROVE CapInv'
  <2>1. \A d \in Devices : Active(d)' \subseteq Active(d)
    BY <1>2, OnlyEnds DEF Active
  <2>2. SessionsCapped'
    BY <2>1, ActiveShrinks DEF CapInv, SessionsCapped
  <2>3. QED
    BY <1>2, <2>2, OnlyEnds DEF CapInv
<1>3. QED
  BY <1>1, <1>2

LEMMA CapInvariant == Spec => []CapInv
<1>1. ASSUME Init PROVE CapInv
  <2>1. ASSUME NEW d \in Devices PROVE Cardinality(Active(d)) <= MaxSessions
    <3>1. Active(d) = {}
      BY <1>1 DEF Init, Active
    <3>2. QED
      BY <3>1, FS_EmptySet, LimitAssumption
  <2>2. QED
    BY <1>1, <2>1 DEF Init, CapInv, SessionsCapped
<1>2. GaugeInv /\ CapInv /\ [Next]_vars => CapInv'
  BY CapStep DEF GaugeInv
<1>3. QED
  BY <1>1, <1>2, GaugesInvariant, PTL DEF Spec

\* However offers, expiry and collection interleave, no device holds more than
\* MAX_SESSIONS_PER_DEVICE unexpired sessions.
THEOREM SessionCap == Spec => []SessionsCapped
<1>1. CapInv => SessionsCapped
  BY DEF CapInv
<1>2. QED
  BY <1>1, CapInvariant, PTL
-----------------------------------------------------------------------------
(* Offers.                                                                 *)

\* Why an offer is delivered once: only a pushed offer is anywhere, it stands in
\* one channel at one place or was delivered, and the stream it is in serves the
\* device of its session.  A stream that has not begun holds nothing.
ChannelInv ==
    /\ \A s \in Sessions, c \in Conns :
         Queued(s, c) => /\ offerReq[s] = "ok"
                         /\ conn[c] # "idle"
                         /\ connDev[c] = sessionDev[s]
                         /\ \A e \in Conns : <<s, e>> \notin delivered
                         /\ \A e \in Conns : Queued(s, e) => e = c
    /\ \A c \in Conns : \A i, j \in 1 .. Len(channel[c]) :
         channel[c][i] = channel[c][j] => i = j
DeliveredInv ==
    /\ \A m \in delivered : /\ offerReq[m[1]] = "ok"
                            /\ conn[m[2]] # "idle"
                            /\ connDev[m[2]] = sessionDev[m[1]]
    /\ \A m, n \in delivered : m[1] = n[1] => m = n
OfferInv == ChannelInv /\ DeliveredInv

LEMMA DeliveredOnce == ASSUME SseTypeOK, OfferInv PROVE OfferDeliveredOnce
<1>1. ASSUME NEW m \in delivered, NEW c \in Conns PROVE ~Queued(m[1], c)
  <2>1. m[1] \in Sessions /\ m[2] \in Conns /\ m = <<m[1], m[2]>>
    BY DEF SseTypeOK
  <2>2. QED
    BY <2>1 DEF OfferInv, ChannelInv
<1>2. QED
  BY <1>1 DEF OfferInv, DeliveredInv, OfferDeliveredOnce

\* Steps that move no offer and change neither its owner nor a stream that began.
LEMMA OffersKept ==
    ASSUME SseTypeOK, OfferInv,
           UNCHANGED <<channel, delivered>>,
           \A s \in Sessions : offerReq[s] = "ok" => offerReq'[s] = "ok" /\ sessionDev'[s] = sessionDev[s],
           \A c \in Conns : conn[c] # "idle" => conn'[c] # "idle" /\ connDev'[c] = connDev[c]
    PROVE  OfferInv'
<1>1. ChannelInv'
  BY DEF OfferInv, ChannelInv, Queued
<1>2. \A m \in delivered : m[1] \in Sessions /\ m[2] \in Conns
  BY DEF SseTypeOK
<1>3. DeliveredInv'
  BY <1>2 DEF OfferInv, DeliveredInv
<1>4. QED
  BY <1>1, <1>3 DEF OfferInv

LEMMA PushKeepsOffers ==
    ASSUME SessionTypeOK, SseTypeOK, SubscriptionHasTask, CapInv, OfferInv,
           NEW s \in Sessions, push_offer(s)
    PROVE  OfferInv'
<1>1. UNCHANGED <<delivered, conn, connDev, sessionDev>> /\ offerReq[s] = "fetched"
  BY DEF push_offer
<1>2. CASE UNCHANGED channel
  BY <1>1, <1>2, OffersKept DEF push_offer, SessionTypeOK
<1>3. CASE ~UNCHANGED channel
  <2>1. PICK c \in Conns : /\ channel' = [channel EXCEPT ![c] = Append(@, s)]
                           /\ conn[c] # "idle" /\ connDev[c] = sessionDev[s]
                           /\ offerReq' = [offerReq EXCEPT ![s] = "ok"]
    <3>1. /\ CanPush(sessionDev[s])
          /\ channel' = [channel EXCEPT ![subscriber[sessionDev[s]]] = Append(@, s)]
          /\ offerReq' = [offerReq EXCEPT ![s] = "ok"]
      BY <1>3 DEF push_offer
    <3>2. sessionDev[s] \in Devices
      BY <1>1 DEF CapInv
    <3>3. subscriber[sessionDev[s]] # None /\ subscriber[sessionDev[s]] \in Conns
      BY <3>1, <3>2 DEF CanPush, SseTypeOK
    <3>4. /\ conn[subscriber[sessionDev[s]]] \in {"running", "exiting"}
          /\ connDev[subscriber[sessionDev[s]]] = sessionDev[s]
      BY <3>2, <3>3 DEF SubscriptionHasTask
    <3>5. QED
      BY <3>1, <3>3, <3>4
  <2>2. /\ \A e \in Conns \ {c} : channel'[e] = channel[e]
        /\ Len(channel'[c]) = Len(channel[c]) + 1
        /\ channel'[c][Len(channel[c]) + 1] = s
        /\ \A i \in 1 .. Len(channel[c]) : channel'[c][i] = channel[c][i]
        /\ Len(channel[c]) \in Nat
    BY <2>1 DEF SseTypeOK
  <2>3. ASSUME NEW r \in Sessions, NEW e \in Conns
        PROVE  Queued(r, e)' <=> Queued(r, e) \/ (r = s /\ e = c)
    <3>1. CASE e # c
      BY <2>2, <3>1 DEF Queued
    <3>2. CASE e = c
      <4>1. Len(channel[c]) + 1 \in 1 .. Len(channel'[c])
        BY <2>2
      <4>2. \A i \in 1 .. Len(channel'[c]) : i \in 1 .. Len(channel[c]) \/ i = Len(channel[c]) + 1
        BY <2>2
      <4>3. \A i \in 1 .. Len(channel[c]) : i \in 1 .. Len(channel'[c])
        BY <2>2
      <4>4. QED
        BY <2>2, <3>2, <4>1, <4>2, <4>3 DEF Queued
    <3>3. QED
      BY <3>1, <3>2
  <2>4. \A e \in Conns : ~Queued(s, e) /\ <<s, e>> \notin delivered
    BY <1>1 DEF OfferInv, ChannelInv, DeliveredInv
  <2>5. \A r \in Sessions : offerReq[r] = "ok" => offerReq'[r] = "ok"
    BY <2>1 DEF SessionTypeOK
  <2>6. offerReq'[s] = "ok"
    BY <2>1 DEF SessionTypeOK
  <2>7. ASSUME NEW r \in Sessions, NEW e \in Conns, Queued(r, e)'
        PROVE  /\ offerReq'[r] = "ok" /\ conn'[e] # "idle" /\ connDev'[e] = sessionDev'[r]
               /\ \A f \in Conns : <<r, f>> \notin delivered'
               /\ \A f \in Conns : Queued(r, f)' => f = e
    BY <1>1, <2>1, <2>3, <2>4, <2>5, <2>6, <2>7 DEF OfferInv, ChannelInv
  <2>8. ASSUME NEW e \in Conns, NEW i \in 1 .. Len(channel'[e]), NEW j \in 1 .. Len(channel'[e]),
               channel'[e][i] = channel'[e][j]
        PROVE  i = j
    <3>1. CASE e # c
      BY <2>2, <2>8, <3>1 DEF OfferInv, ChannelInv
    <3>2. CASE e = c
      <4>1. \A k \in 1 .. Len(channel[c]) : channel[c][k] # s
        BY <2>4 DEF Queued
      <4>2. \A k \in 1 .. Len(channel'[c]) : k \in 1 .. Len(channel[c]) \/ k = Len(channel[c]) + 1
        BY <2>2
      <4>3. i \in 1 .. Len(channel'[c]) /\ j \in 1 .. Len(channel'[c]) /\ channel'[c][i] = channel'[c][j]
        BY <2>8, <3>2
      <4>4. CASE i \in 1 .. Len(channel[c]) /\ j \in 1 .. Len(channel[c])
        BY <2>2, <4>3, <4>4 DEF OfferInv, ChannelInv
      <4>5. CASE i \notin 1 .. Len(channel[c]) \/ j \notin 1 .. Len(channel[c])
        BY <2>2, <4>1, <4>2, <4>3, <4>5
      <4>6. QED
        BY <4>4, <4>5
    <3>3. QED
      BY <3>1, <3>2
  <2>9. ChannelInv'
    BY <2>7, <2>8 DEF ChannelInv
  <2>10. DeliveredInv'
    BY <1>1, <2>5 DEF OfferInv, DeliveredInv, SseTypeOK
  <2>11. QED
    BY <2>9, <2>10 DEF OfferInv
<1>4. QED
  BY <1>2, <1>3

LEMMA ForwardKeepsOffers ==
    ASSUME SessionTypeOK, SseTypeOK, OfferInv, NEW c \in Conns, ForwardOffer(c)
    PROVE  OfferInv'
<1> DEFINE s == Head(channel[c])
<1>1. /\ UNCHANGED <<offerReq, sessionDev, connDev>>
      /\ conn[c] = "running" /\ channel[c] # <<>>
      /\ channel' = [channel EXCEPT ![c] = Tail(@)]
      /\ delivered' \in {delivered, delivered \cup {<<s, c>>}}
  BY DEF ForwardOffer, sessionVars
<1>2. \A e \in Conns : conn[e] # "idle" => conn'[e] # "idle"
  BY DEF ForwardOffer, SseTypeOK
<1>3. /\ \A e \in Conns \ {c} : channel'[e] = channel[e]
      /\ Len(channel[c]) \in Nat \ {0} /\ Len(channel'[c]) = Len(channel[c]) - 1
      /\ \A i \in 1 .. Len(channel'[c]) : channel'[c][i] = channel[c][i + 1]
      /\ s = channel[c][1] /\ s \in Sessions
  <2>1. channel[c] \in Seq(Sessions) /\ channel'[c] = Tail(channel[c])
    BY <1>1 DEF SseTypeOK
  <2>2. QED
    BY <1>1, <2>1 DEF SseTypeOK
<1>4. Queued(s, c)
  BY <1>3 DEF Queued
<1>5. ASSUME NEW r \in Sessions, NEW e \in Conns, Queued(r, e)'
      PROVE  Queued(r, e) /\ r # s
  <2>1. CASE e # c
    <3>1. Queued(r, e)
      BY <1>3, <1>5, <2>1 DEF Queued
    <3>2. QED
      BY <1>4, <2>1, <3>1 DEF OfferInv, ChannelInv
  <2>2. CASE e = c
    <3>1. PICK i \in 1 .. Len(channel'[c]) : channel'[c][i] = r
      BY <1>5, <2>2 DEF Queued
    <3>2. i + 1 \in 1 .. Len(channel[c]) /\ channel[c][i + 1] = r /\ i + 1 # 1 /\ 1 \in 1 .. Len(channel[c])
      BY <1>3, <3>1
    <3>3. r # s
      BY <1>3, <3>2 DEF OfferInv, ChannelInv
    <3>4. QED
      BY <2>2, <3>2, <3>3 DEF Queued
  <2>3. QED
    BY <2>1, <2>2
<1>6. ASSUME NEW e \in Conns, NEW i \in 1 .. Len(channel'[e]), NEW j \in 1 .. Len(channel'[e]),
             channel'[e][i] = channel'[e][j]
      PROVE  i = j
  <2>1. CASE e # c
    BY <1>3, <1>6, <2>1 DEF OfferInv, ChannelInv
  <2>2. CASE e = c
    <3>1. /\ i + 1 \in 1 .. Len(channel[c]) /\ j + 1 \in 1 .. Len(channel[c])
          /\ channel[c][i + 1] = channel[c][j + 1]
      <4>1. i \in 1 .. Len(channel'[c]) /\ j \in 1 .. Len(channel'[c]) /\ channel'[c][i] = channel'[c][j]
        BY <1>6, <2>2
      <4>2. channel'[c][i] = channel[c][i + 1] /\ channel'[c][j] = channel[c][j + 1]
        BY <1>3, <4>1
      <4>3. i + 1 \in 1 .. Len(channel[c]) /\ j + 1 \in 1 .. Len(channel[c])
        BY <1>3, <4>1
      <4>4. QED
        BY <4>1, <4>2, <4>3
    <3>2. i + 1 = j + 1
      BY <3>1 DEF OfferInv, ChannelInv
    <3>3. QED
      BY <2>2, <1>3, <3>2
  <2>3. QED
    BY <2>1, <2>2
<1>7. ASSUME NEW r \in Sessions, NEW e \in Conns, Queued(r, e)'
      PROVE  /\ offerReq'[r] = "ok" /\ conn'[e] # "idle" /\ connDev'[e] = sessionDev'[r]
             /\ \A f \in Conns : <<r, f>> \notin delivered'
             /\ \A f \in Conns : Queued(r, f)' => f = e
  BY <1>1, <1>2, <1>5, <1>7 DEF OfferInv, ChannelInv
<1>8. ChannelInv'
  BY <1>6, <1>7 DEF ChannelInv
<1>9. DeliveredInv'
  <2>1. /\ offerReq[s] = "ok" /\ conn[c] # "idle" /\ connDev[c] = sessionDev[s]
        /\ \A e \in Conns : <<s, e>> \notin delivered
    BY <1>3, <1>4 DEF OfferInv, ChannelInv
  <2>2. \A m \in delivered : m[1] \in Sessions /\ m[2] \in Conns /\ m = <<m[1], m[2]>>
    BY DEF SseTypeOK
  <2>3. \A m \in delivered : m[1] # s
    BY <2>1, <2>2
  <2>4. QED
    BY <1>1, <1>2, <2>1, <2>2, <2>3 DEF OfferInv, DeliveredInv
<1>10. QED
  BY <1>8, <1>9 DEF OfferInv

LEMMA ReleaseKeepsOffers ==
    ASSUME SseTypeOK, OfferInv, NEW c \in Conns, ReleaseSse(c)
    PROVE  OfferInv'
<1>1. /\ UNCHANGED <<offerReq, sessionDev, connDev, delivered>>
      /\ channel' = [channel EXCEPT ![c] = <<>>]
      /\ conn' = [conn EXCEPT ![c] = "closed"]
  BY DEF ReleaseSse, sessionVars
<1>2. \A e \in Conns : channel'[e] = <<>> \/ channel'[e] = channel[e]
  BY <1>1 DEF SseTypeOK
<1>3. \A e \in Conns : conn[e] # "idle" => conn'[e] # "idle"
  BY <1>1 DEF SseTypeOK
<1>4. ASSUME NEW r \in Sessions, NEW e \in Conns, Queued(r, e)' PROVE Queued(r, e)
  BY <1>2, <1>4 DEF Queued
<1>5. ChannelInv'
  <2>1. ASSUME NEW e \in Conns PROVE \A i, j \in 1 .. Len(channel'[e]) :
                                       channel'[e][i] = channel'[e][j] => i = j
    BY <1>2 DEF OfferInv, ChannelInv
  <2>2. ASSUME NEW r \in Sessions, NEW e \in Conns, Queued(r, e)'
        PROVE  /\ offerReq'[r] = "ok" /\ conn'[e] # "idle" /\ connDev'[e] = sessionDev'[r]
               /\ \A f \in Conns : <<r, f>> \notin delivered'
               /\ \A f \in Conns : Queued(r, f)' => f = e
    BY <1>1, <1>3, <1>4, <2>2 DEF OfferInv, ChannelInv
  <2>3. QED
    BY <2>1, <2>2 DEF ChannelInv
<1>6. DeliveredInv'
  BY <1>1, <1>3 DEF OfferInv, DeliveredInv, SseTypeOK
<1>7. QED
  BY <1>5, <1>6 DEF OfferInv

LEMMA OfferStep ==
    ASSUME SessionTypeOK, SseTypeOK, SubscriptionHasTask, CapInv, OfferInv, [Next]_vars
    PROVE  OfferInv'
<1>1. ASSUME NEW s \in Sessions, push_offer(s) PROVE OfferInv'
  BY <1>1, PushKeepsOffers
<1>2. ASSUME NEW c \in Conns, ForwardOffer(c) \/ ReleaseSse(c) PROVE OfferInv'
  BY <1>2, ForwardKeepsOffers, ReleaseKeepsOffers
<1>3. ASSUME ~ \E s \in Sessions : push_offer(s), ~ \E c \in Conns : ForwardOffer(c) \/ ReleaseSse(c)
      PROVE  OfferInv'
  <2>1. UNCHANGED <<channel, delivered>>
    <3>1. Phone => UNCHANGED <<channel, delivered>>
      BY DEF Phone, create_session, CancelOffer, AdmitPoll, CancelPoll, sseVars
    <3>2. Desktop => UNCHANGED <<channel, delivered>>
      BY DEF Desktop, submit_answer, issue_ticket, redeem_ticket, CancelSse, LoseClient, sseVars
    <3>3. ASSUME NEW s \in Sessions, OfferHandler(s) PROVE UNCHANGED <<channel, delivered>>
      BY <1>3, <3>3 DEF OfferHandler, get_session, sseVars
    <3>4. ASSUME NEW c \in Conns, AdmitSse(c) \/ CountSse(c) \/ subscribe_offers(c) \/ SseTask(c)
          PROVE  UNCHANGED <<channel, delivered>>
      BY <1>3, <3>4 DEF AdmitSse, CountSse, subscribe_offers, SseTask, StopForwarding, unsubscribe_offers
    <3>5. ASSUME NEW p \in Polls, PollHandler(p) PROVE UNCHANGED <<channel, delivered>>
      BY <3>5 DEF PollHandler, CountPoll, peek_answer, AwaitNotify, WakePoll, TimeoutPoll, Respond, sseVars
    <3>6. cleanup_expired_sessions => UNCHANGED <<channel, delivered>>
      BY DEF cleanup_expired_sessions, sseVars
    <3>7. Clock => UNCHANGED <<channel, delivered>>
      BY DEF Clock, ExpireSession, ExpireTicket, sseVars
    <3>8. UNCHANGED vars => UNCHANGED <<channel, delivered>>
      BY DEF vars, sseVars
    <3>9. QED
      BY <3>1, <3>2, <3>3, <3>4, <3>5, <3>6, <3>7, <3>8 DEF Next, Server
  <2>2. \A s \in Sessions : offerReq[s] = "ok" => offerReq'[s] = "ok" /\ sessionDev'[s] = sessionDev[s]
    <3>1. ASSUME NEW s \in Sessions, NEW d \in Devices, create_session(s, d)
          PROVE  \A r \in Sessions : offerReq[r] = "ok" => offerReq'[r] = "ok" /\ sessionDev'[r] = sessionDev[r]
      BY <3>1 DEF create_session, SessionTypeOK
    <3>2. QED
      BY <3>1, OnlyEnds
  <2>3. \A c \in Conns : conn[c] # "idle" => conn'[c] # "idle" /\ connDev'[c] = connDev[c]
    <3>1. CASE OtherStep \/ (\E t \in Tickets : ExpireTicket(t) \/ \E d \in Devices : issue_ticket(t, d))
      BY <3>1 DEF OtherStep, ExpireTicket, issue_ticket
    <3>2. ASSUME NEW c \in Conns, NEW t \in Tickets, NEW d \in Devices, redeem_ticket(c, t, d)
          PROVE  \A e \in Conns : conn[e] # "idle" => conn'[e] # "idle" /\ connDev'[e] = connDev[e]
      BY <3>2 DEF redeem_ticket, SseTypeOK
    <3>3. ASSUME NEW c \in Conns, SseChange(c)
          PROVE  \A e \in Conns : conn[e] # "idle" => conn'[e] # "idle" /\ connDev'[e] = connDev[e]
      BY <3>3 DEF SseChange, SseTask, AdmitSse, CountSse, subscribe_offers, CancelSse, LoseClient,
                  ForwardOffer, StopForwarding, unsubscribe_offers, ReleaseSse, SseTypeOK
    <3>4. QED
      BY <3>1, <3>2, <3>3, NextSplit
  <2>4. QED
    BY <2>1, <2>2, <2>3, OffersKept
<1>4. QED
  BY <1>1, <1>2, <1>3

LEMMA OfferInvariant == Spec => []OfferInv
<1>1. Init => OfferInv
  BY DEF Init, OfferInv, ChannelInv, DeliveredInv, Queued
<1>2. GaugeInv /\ SubscriptionHasTask /\ CapInv /\ OfferInv /\ [Next]_vars => OfferInv'
  BY OfferStep DEF GaugeInv, SseInv
<1>3. QED
  BY <1>1, <1>2, GaugesInvariant, SubscriptionTable, CapInvariant, PTL DEF Spec

\* An offer reaches at most one stream, one of its own device, and leaves the
\* channel when it does.
THEOREM OfferOnce == Spec => []OfferDeliveredOnce
<1>1. GaugeInv /\ OfferInv => OfferDeliveredOnce
  BY DeliveredOnce DEF GaugeInv, SseInv
<1>2. QED
  BY <1>1, GaugesInvariant, OfferInvariant, PTL

-----------------------------------------------------------------------------
(* The refinement of Rendezvous: each critical section of the store is one *)
(* step of the promise or none.                                            *)

Owner(s) == IF offerReq[s] = "ok" THEN sessionDev[s] ELSE None
Inbox(d) == {s \in Sessions : \E c \in Conns : <<s, c>> \in delivered /\ connDev[c] = d}

\* What the mapping does not see: a step that accepts, delivers, decides and
\* reports nothing, and moves no owner and no stream that has begun.
Silent ==
    /\ UNCHANGED <<delivered, answer, collected>>
    /\ \A s \in Sessions : /\ offerReq'[s] = "ok" <=> offerReq[s] = "ok"
                           /\ offerReq[s] = "ok" => sessionDev'[s] = sessionDev[s]
    /\ \A c \in Conns : conn[c] # "idle" => connDev'[c] = connDev[c]

LEMMA SilentStutters ==
    ASSUME SseTypeOK, DeliveredInv, Silent PROVE UNCHANGED R!abstractVars
<1>1. \A s \in Sessions : Owner(s)' = Owner(s)
  BY DEF Silent, Owner
<1>2. ASSUME NEW d \in Devices PROVE Inbox(d)' = Inbox(d)
  <2>1. \A s \in Sessions, c \in Conns : <<s, c>> \in delivered => connDev'[c] = connDev[c]
    BY DEF DeliveredInv, Silent
  <2>2. QED
    BY <2>1 DEF Silent, Inbox
<1>3. QED
  BY <1>1, <1>2 DEF R!abstractVars, Silent, Owner, Inbox

\* An accepted push is the acceptance of the offer.
LEMMA PushMaps ==
    ASSUME SessionTypeOK, SseTypeOK, CapInv, DeliveredInv, NEW s \in Sessions, push_offer(s)
    PROVE  [R!Step]_(R!abstractVars)
<1>1. /\ offerReq[s] = "fetched" /\ UNCHANGED <<sessionDev, answer, delivered, conn, connDev, collected>>
      /\ offerReq' \in {[offerReq EXCEPT ![s] = "ok"], [offerReq EXCEPT ![s] = "offline"]}
  BY DEF push_offer, pollVars
<1>2. CASE offerReq' = [offerReq EXCEPT ![s] = "ok"]
  <2>1. PICK d \in Devices : d = sessionDev[s]
    BY <1>1 DEF CapInv
  <2>2. Owner(s) = None /\ Owner(s)' = d /\ \A r \in Sessions \ {s} : Owner(r)' = Owner(r)
    BY <1>1, <1>2, <2>1 DEF Owner, SessionTypeOK
  <2>3. /\ [r \in Sessions |-> Owner(r)][s] = None
        /\ [r \in Sessions |-> Owner(r)]' = [[r \in Sessions |-> Owner(r)] EXCEPT ![s] = d]
    BY <2>2
  <2>4. UNCHANGED [e \in Devices |-> Inbox(e)]
    BY <1>1 DEF Inbox
  <2>5. R!Offer(s, d)
    BY <1>1, <2>3, <2>4 DEF R!Offer, Owner, Inbox
  <2>6. QED
    BY <2>5 DEF R!Step
<1>3. CASE offerReq' = [offerReq EXCEPT ![s] = "offline"]
  <2>1. Silent
    BY <1>1, <1>3 DEF Silent, SessionTypeOK
  <2>2. QED
    BY <2>1, SilentStutters
<1>4. QED
  BY <1>1, <1>2, <1>3

\* Sending an offer to a desktop that still reads is the hand-over.
LEMMA ForwardMaps ==
    ASSUME SessionTypeOK, SseTypeOK, CapInv, OfferInv, NEW c \in Conns, ForwardOffer(c)
    PROVE  [R!Step]_(R!abstractVars)
<1>1. /\ UNCHANGED <<offerReq, sessionDev, answer, connDev, collected>>
      /\ channel[c] # <<>>
      /\ delivered' = IF client[c] = "up" THEN delivered \cup {<<Head(channel[c]), c>>} ELSE delivered
  BY DEF ForwardOffer, sessionVars, pollVars
<1>2. CASE client[c] = "up"
  <2>1. PICK s \in Sessions : s = Head(channel[c]) /\ Queued(s, c)
    <3>1. channel[c] \in Seq(Sessions) /\ channel[c] # <<>>
      BY <1>1 DEF SseTypeOK
    <3>2. /\ 1 \in 1 .. Len(channel[c]) /\ channel[c][1] = Head(channel[c])
          /\ Head(channel[c]) \in Sessions
      BY <3>1
    <3>3. QED
      BY <3>2 DEF Queued
  <2>2. /\ offerReq[s] = "ok" /\ connDev[c] = sessionDev[s]
        /\ \A e \in Conns : <<s, e>> \notin delivered
    BY <2>1 DEF OfferInv, ChannelInv
  <2>3. PICK d \in Devices : d = connDev[c] /\ Owner(s) = d
    BY <2>1, <2>2 DEF CapInv, Owner
  <2>4. \A e \in Devices : s \notin Inbox(e)
    BY <2>2 DEF Inbox
  <2>5. delivered' = delivered \cup {<<s, c>>}
    BY <1>1, <1>2, <2>1
  <2>6. ASSUME NEW e \in Devices PROVE Inbox(e)' = IF e = d THEN Inbox(e) \cup {s} ELSE Inbox(e)
    <3>1. ASSUME NEW r \in Sessions
          PROVE  r \in Inbox(e)' <=> r \in Inbox(e) \/ (r = s /\ e = d)
      <4>1. \A f \in Conns : <<r, f>> \in delivered' <=> <<r, f>> \in delivered \/ (r = s /\ f = c)
        BY <2>5
      <4>2. QED
        BY <1>1, <2>3, <4>1 DEF Inbox
    <3>2. Inbox(e)' \subseteq Sessions /\ Inbox(e) \subseteq Sessions
      BY DEF Inbox
    <3>3. QED
      BY <2>1, <3>1, <3>2
  <2>7. /\ [r \in Sessions |-> Owner(r)][s] = d
        /\ \A e \in Devices : s \notin [f \in Devices |-> Inbox(f)][e]
        /\ [e \in Devices |-> Inbox(e)]' = [[e \in Devices |-> Inbox(e)] EXCEPT ![d] = @ \cup {s}]
        /\ UNCHANGED [r \in Sessions |-> Owner(r)]
    <3>1. \A r \in Sessions : Owner(r)' = Owner(r)
      BY <1>1 DEF Owner
    <3>2. QED
      BY <2>1, <2>3, <2>4, <2>6, <3>1
  <2>8. R!HandOver(s, d)
    BY <1>1, <2>7 DEF R!HandOver, Owner, Inbox
  <2>9. QED
    BY <2>8 DEF R!Step
<1>3. CASE client[c] # "up"
  <2>1. Silent
    BY <1>1, <1>3 DEF Silent
  <2>2. QED
    BY <2>1, SilentStutters DEF OfferInv
<1>4. QED
  BY <1>2, <1>3

\* Storing the answer of a session that is still live is the verdict.
LEMMA AnswerMaps ==
    ASSUME SessionTypeOK, SseTypeOK, CapInv, DeliveredInv,
           NEW s \in Sessions, NEW a \in Answers, submit_answer(s, a)
    PROVE  [R!Step]_(R!abstractVars)
<1>1. /\ UNCHANGED <<offerReq, sessionDev, delivered, conn, connDev, collected>>
      /\ answer[s] = "none"
      /\ answer' \in {answer, [answer EXCEPT ![s] = a]}
  BY DEF submit_answer, sseVars
<1>2. CASE answer' = [answer EXCEPT ![s] = a]
  <2>1. PICK c \in Conns : <<s, c>> \in delivered
    BY DEF submit_answer
  <2>2. offerReq[s] = "ok" /\ connDev[c] = sessionDev[s] /\ sessionDev[s] \in Devices
    BY <2>1 DEF DeliveredInv, CapInv
  <2>3. s \in Inbox(sessionDev[s])
    BY <2>1, <2>2 DEF Inbox
  <2>4. R!Decide(s, sessionDev[s], a)
    BY <1>1, <1>2, <2>2, <2>3 DEF R!Decide, Inbox
  <2>5. QED
    BY <2>2, <2>4 DEF R!Step
<1>3. CASE answer' = answer
  <2>1. Silent
    BY <1>1, <1>3 DEF Silent
  <2>2. QED
    BY <2>1, SilentStutters
<1>4. QED
  BY <1>1, <1>2, <1>3

\* A poll that returns an answer is the phone learning it.
LEMMA RespondMaps ==
    ASSUME PollInv, SseTypeOK, DeliveredInv, NEW p \in Polls, poll[p] # "idle", Respond(p)
    PROVE  [R!Step]_(R!abstractVars)
<1> DEFINE s == pollSession[p]
<1>1. /\ UNCHANGED <<offerReq, sessionDev, answer, delivered, conn, connDev>>
      /\ collected' = IF Answered(s) THEN collected \cup {<<s, answer[s]>>} ELSE collected
  BY DEF Respond, sessionVars, sseVars
<1>2. CASE Answered(s)
  <2>1. s \in Sessions /\ answer[s] # "none"
    BY <1>2 DEF PollInv, Answered
  <2>2. R!Learn(s)
    BY <1>1, <1>2, <2>1 DEF R!Learn
  <2>3. QED
    BY <2>1, <2>2 DEF R!Step
<1>3. CASE ~Answered(s)
  <2>1. Silent
    BY <1>1, <1>3 DEF Silent
  <2>2. QED
    BY <2>1, SilentStutters
<1>4. QED
  BY <1>2, <1>3

LEMMA RendezvousStep ==
    ASSUME GaugeInv, CapInv, OfferInv, [Next]_vars PROVE [R!Step]_(R!abstractVars)
<1>1. SessionTypeOK /\ SseTypeOK /\ PollInv /\ DeliveredInv
  BY DEF GaugeInv, SseInv, OfferInv
<1>2. ASSUME Silent PROVE [R!Step]_(R!abstractVars)
  BY <1>1, <1>2, SilentStutters
<1>3. CASE Phone
  <2>1. Silent
    BY <1>1, <1>3 DEF Phone, create_session, CancelOffer, AdmitPoll, CancelPoll, Silent,
                      SessionTypeOK, sessionVars, sseVars, pollVars
  <2>2. QED
    BY <1>2, <2>1
<1>4. CASE Desktop
  <2>1. ASSUME NEW s \in Sessions, NEW a \in Answers, submit_answer(s, a)
        PROVE  [R!Step]_(R!abstractVars)
    BY <1>1, <2>1, AnswerMaps
  <2>2. ASSUME NEW c \in Conns, NEW t \in Tickets, NEW d \in Devices, redeem_ticket(c, t, d)
        PROVE  Silent
    BY <1>1, <2>2 DEF redeem_ticket, Silent, SseTypeOK, sessionVars, pollVars
  <2>3. ASSUME \/ \E t \in Tickets, d \in Devices : issue_ticket(t, d)
               \/ \E c \in Conns : CancelSse(c)
               \/ \E c \in Conns, how \in {"dead", "dropped"} : LoseClient(c, how)
        PROVE  Silent
    BY <2>3 DEF issue_ticket, CancelSse, LoseClient, Silent, sessionVars, pollVars
  <2>4. QED
    BY <1>2, <1>4, <2>1, <2>2, <2>3 DEF Desktop
<1>5. CASE Server
  <2>1. ASSUME NEW s \in Sessions, get_session(s) PROVE Silent
    BY <1>1, <2>1 DEF get_session, Silent, SessionTypeOK, sseVars, pollVars
  <2>2. ASSUME NEW s \in Sessions, OfferHandler(s) PROVE [R!Step]_(R!abstractVars)
    BY <1>1, <1>2, <2>1, <2>2, PushMaps DEF OfferHandler
  <2>3. ASSUME NEW c \in Conns,
               \/ AdmitSse(c) \/ CountSse(c) \/ subscribe_offers(c)
               \/ StopForwarding(c) \/ unsubscribe_offers(c) \/ ReleaseSse(c)
        PROVE  Silent
    BY <2>3 DEF AdmitSse, CountSse, subscribe_offers, StopForwarding, unsubscribe_offers,
                ReleaseSse, Silent, sessionVars, pollVars
  <2>4. ASSUME NEW c \in Conns,
               AdmitSse(c) \/ CountSse(c) \/ subscribe_offers(c) \/ SseTask(c)
        PROVE  [R!Step]_(R!abstractVars)
    BY <1>1, <1>2, <2>3, <2>4, ForwardMaps DEF SseTask
  <2>5. ASSUME NEW p \in Polls, PollHandler(p) PROVE [R!Step]_(R!abstractVars)
    <3>1. ASSUME poll[p] # "idle", Respond(p) PROVE [R!Step]_(R!abstractVars)
      BY <1>1, <3>1, RespondMaps
    <3>2. ASSUME CountPoll(p) \/ AwaitNotify(p) PROVE Silent
      BY <3>2 DEF CountPoll, AwaitNotify, Silent, sessionVars, sseVars
    <3>3. ASSUME peek_answer(p) PROVE Silent \/ (poll[p] # "idle" /\ Respond(p))
      BY <3>3 DEF peek_answer, Silent, sessionVars, sseVars
    <3>4. WakePoll(p) \/ TimeoutPoll(p) => poll[p] # "idle" /\ Respond(p)
      BY DEF WakePoll, TimeoutPoll
    <3>5. QED
      BY <1>2, <2>5, <3>1, <3>2, <3>3, <3>4 DEF PollHandler
  <2>6. ASSUME cleanup_expired_sessions PROVE Silent
    BY <2>6 DEF cleanup_expired_sessions, Silent, sseVars, pollVars
  <2>7. QED
    BY <1>2, <1>5, <2>2, <2>4, <2>5, <2>6 DEF Server
<1>6. CASE Clock
  <2>1. Silent
    BY <1>6 DEF Clock, ExpireSession, ExpireTicket, Silent, sessionVars, sseVars, pollVars
  <2>2. QED
    BY <1>2, <2>1
<1>7. CASE UNCHANGED vars
  <2>1. Silent
    BY <1>7 DEF vars, sessionVars, sseVars, pollVars, Silent
  <2>2. QED
    BY <1>2, <2>1
<1>8. QED
  BY <1>3, <1>4, <1>5, <1>6, <1>7 DEF Next

\* The store keeps the promise of Rendezvous however the offers, streams, polls,
\* hang-ups and expiries interleave: an offer is handed over once, to the desktop
\* it was made for; that desktop gives one verdict on it; and a phone is told
\* that verdict, for that offer, or nothing.
THEOREM RendezvousImplemented == Spec => ImplementsRendezvous
<1>1. Init => R!Start
  BY DEF Init, R!Start
<1>2. GaugeInv /\ CapInv /\ OfferInv /\ [Next]_vars => [R!Step]_(R!abstractVars)
  BY RendezvousStep
<1>3. QED
  BY <1>1, <1>2, GaugesInvariant, CapInvariant, OfferInvariant, PTL
     DEF Spec, ImplementsRendezvous, R!RendezvousSpec
=============================================================================
