------------------------ MODULE AnswerSessionsProofs -----------------------
(***************************************************************************)
(* Theorems about AnswerSessions, for every set of sessions and phones and *)
(* every limit.                                                            *)
(***************************************************************************)
EXTENDS AnswerSessions, FiniteSetTheorems, TLAPS

\* Where a session can be.  The properties follow from it: an entry is owned by
\* the registry, a wired session that is no entry has a closer, and a closer that
\* ended has closed the connection or was cut off.
SessionInv(s) ==
    /\ s \in entries =>
         offer[s] = "done" /\ closer[s] = "none" /\ ctx[s] \notin closedGens
    /\ offer[s] = "done" /\ s \notin entries => closer[s] # "none"
    /\ closer[s] # "none" => offer[s] = "done"
    /\ closer[s] = "cut" => s \in aborted
    /\ closer[s] = "done" => link[s] = "closed"
    /\ grace[s] = "attached" => s \in entries /\ link[s] = "down"

\* A running service has a context, so close_all closes one.
ServiceInv == service # "down" => gen \in 1 .. MaxGen

RegistryInv == TypeOK /\ ServiceInv /\ \A s \in Sids : SessionInv(s)

LEMMA InitHolds == Init => RegistryInv
<1> SUFFICES ASSUME Init PROVE RegistryInv
  OBVIOUS
<1>1. TypeOK
  BY LimitAssumption DEF Init, TypeOK, Keys, ServiceState, OfferState, LinkState,
     ChanState, OpenState, HelloState, CloserState
<1>2. ServiceInv /\ \A s \in Sids : SessionInv(s)
  BY DEF Init, ServiceInv, SessionInv
<1>3. QED
  BY <1>1, <1>2 DEF RegistryInv

-----------------------------------------------------------------------------
(* One lemma per group of actions.                                         *)

\* The channel's tasks touch neither the registry nor the connection.
LEMMA ChannelFrame ==
    ASSUME RegistryInv, UNCHANGED serviceVars, UNCHANGED sessionVars, TypeOK'
    PROVE  RegistryInv'
  BY DEF RegistryInv, ServiceInv, SessionInv, serviceVars, sessionVars

LEMMA ServiceStep ==
    ASSUME RegistryInv, StartSignaling \/ PublishState \/ close_all \/ TakeState
    PROVE  RegistryInv'
<1>1. ASSUME StartSignaling \/ PublishState \/ TakeState PROVE RegistryInv'
  <2>1. ASSUME StartSignaling PROVE TypeOK' /\ ServiceInv'
    <3>1. gen \in 0 .. MaxGen /\ gen' \in 1 .. MaxGen
      BY <2>1, LimitAssumption DEF RegistryInv, TypeOK, StartSignaling
    <3>2. QED
      BY <2>1, <3>1 DEF RegistryInv, TypeOK, ServiceInv, StartSignaling, ServiceState,
         sessionVars, channelVars
  <2>2. ASSUME PublishState \/ TakeState PROVE TypeOK' /\ ServiceInv'
    BY <2>2 DEF RegistryInv, TypeOK, ServiceInv, PublishState, TakeState, ServiceState,
       sessionVars, channelVars
  <2>3. \A s \in Sids : SessionInv(s)'
    BY <1>1 DEF RegistryInv, SessionInv, StartSignaling, PublishState, TakeState, sessionVars
  <2>4. QED
    BY <1>1, <2>1, <2>2, <2>3 DEF RegistryInv
<1>2. ASSUME close_all PROVE RegistryInv'
  <2>1. gen \in 1 .. MaxGen
    BY <1>2 DEF close_all, RegistryInv, ServiceInv
  <2>2. TypeOK' /\ ServiceInv'
    BY <1>2, <2>1 DEF RegistryInv, TypeOK, ServiceInv, close_all, ServiceState, CloserState,
       channelVars
  <2>3. ASSUME NEW s \in Sids PROVE SessionInv(s)'
    BY <1>2, <2>3 DEF RegistryInv, TypeOK, SessionInv, close_all
  <2>4. QED
    BY <2>2, <2>3 DEF RegistryInv
<1>3. QED
  BY <1>1, <1>2

LEMMA OfferStep ==
    ASSUME RegistryInv, NEW s \in Sids,
           \/ spawn_offer_session(s) \/ Answer(s) \/ AnswerFailed(s)
           \/ SetHandlers(s) \/ insert(s)
    PROVE  RegistryInv'
<1>1. ASSUME spawn_offer_session(s) PROVE RegistryInv'
  <2>1. gen \in 0 .. MaxGen
    BY DEF RegistryInv, TypeOK
  <2>2. TypeOK' /\ ServiceInv'
    BY <1>1, <2>1 DEF RegistryInv, TypeOK, ServiceInv, spawn_offer_session, OfferState,
       serviceVars, channelVars
  <2>3. \A t \in Sids : SessionInv(t)'
    BY <1>1 DEF RegistryInv, TypeOK, SessionInv, spawn_offer_session, serviceVars
  <2>4. QED
    BY <2>2, <2>3 DEF RegistryInv
<1>2. ASSUME Answer(s) \/ AnswerFailed(s) \/ SetHandlers(s) PROVE RegistryInv'
  <2>1. \E o \in {"answered", "dropped", "wired"} :
          offer[s] # "done" /\ offer' = [offer EXCEPT ![s] = o]
    BY <1>2 DEF Answer, AnswerFailed, SetHandlers
  <2>2. UNCHANGED <<serviceVars, clients, ctx, entries, link, grace, closer, aborted, channelVars>>
    BY <1>2 DEF Answer, AnswerFailed, SetHandlers
  <2>3. TypeOK' /\ ServiceInv'
    BY <2>1, <2>2 DEF RegistryInv, TypeOK, ServiceInv, OfferState, serviceVars, channelVars
  <2>4. \A t \in Sids : SessionInv(t)'
    BY <2>1, <2>2 DEF RegistryInv, TypeOK, SessionInv, serviceVars
  <2>5. QED
    BY <2>3, <2>4 DEF RegistryInv
<1>3. ASSUME insert(s) PROVE RegistryInv'
  <2>1. TypeOK' /\ ServiceInv'
    BY <1>3 DEF RegistryInv, TypeOK, ServiceInv, insert, OfferState, LinkState,
       serviceVars, channelVars
  <2>2. \A t \in Sids : SessionInv(t)'
    BY <1>3 DEF RegistryInv, TypeOK, SessionInv, insert, serviceVars
  <2>3. QED
    BY <2>1, <2>2 DEF RegistryInv
<1>4. QED
  BY <1>1, <1>2, <1>3

LEMMA LinkStep ==
    ASSUME RegistryInv, NEW s \in Sids,
           LinkUp(s) \/ LinkDown(s) \/ LinkFailed(s) \/ GraceFires(s)
    PROVE  RegistryInv'
<1>1. TypeOK' /\ ServiceInv'
  BY DEF RegistryInv, TypeOK, ServiceInv, LinkUp, LinkDown, LinkFailed, GraceFires,
     TakeEntry, LinkState, CloserState, serviceVars, channelVars
<1>2. ASSUME NEW t \in Sids, LinkUp(s) \/ LinkDown(s) PROVE SessionInv(t)'
  BY <1>2 DEF RegistryInv, TypeOK, SessionInv, LinkUp, LinkDown, serviceVars
<1>3. ASSUME NEW t \in Sids, LinkFailed(s) \/ GraceFires(s) PROVE SessionInv(t)'
  BY <1>3 DEF RegistryInv, TypeOK, SessionInv, LinkFailed, GraceFires, TakeEntry, serviceVars
<1>4. QED
  BY <1>1, <1>2, <1>3 DEF RegistryInv

LEMMA CloserStep ==
    ASSUME RegistryInv, NEW s \in Sids,
           CloserUnregister(s) \/ CloserClose(s) \/ CloserCut(s)
    PROVE  RegistryInv'
<1>1. TypeOK' /\ ServiceInv'
  BY DEF RegistryInv, TypeOK, ServiceInv, CloserUnregister, CloserClose, CloserCut,
     Unregistered, LinkState, CloserState, serviceVars, channelVars
<1>2. \A t \in Sids : SessionInv(t)'
  BY DEF RegistryInv, TypeOK, SessionInv, CloserUnregister, CloserClose, CloserCut, serviceVars
<1>3. QED
  BY <1>1, <1>2 DEF RegistryInv

ChannelAction(s) ==
    \/ ChannelOpens(s) \/ OpenRead(s) \/ OpenRegister(s)
    \/ HelloRekey(s) \/ HelloUnregister(s) \/ HelloRegister(s)
    \/ EndChannel(s) \/ CloseUnregister(s)

LEMMA ChannelStep ==
    ASSUME RegistryInv, NEW s \in Sids, ChannelAction(s)
    PROVE  RegistryInv'
<1>1. UNCHANGED serviceVars /\ UNCHANGED sessionVars
  BY DEF ChannelAction, ChannelOpens, OpenRead, OpenRegister, HelloRekey, HelloUnregister,
     HelloRegister, EndChannel, CloseUnregister
<1>2. s \in Keys /\ PhoneOf[s] \in Keys
  BY PhoneAssumption DEF Keys
<1>3. ASSUME ChannelOpens(s) \/ OpenRead(s) \/ HelloRekey(s) \/ EndChannel(s) PROVE TypeOK'
  BY <1>1, <1>2, <1>3 DEF RegistryInv, TypeOK, ChannelOpens, OpenRead, HelloRekey, EndChannel,
     ChanState, OpenState, HelloState, serviceVars, sessionVars
<1>4. ASSUME OpenRegister(s) \/ HelloUnregister(s) \/ HelloRegister(s) \/ CloseUnregister(s)
      PROVE  TypeOK'
  BY <1>1, <1>2, <1>4 DEF RegistryInv, TypeOK, OpenRegister, HelloUnregister, HelloRegister,
     CloseUnregister, Unregistered, ChanState, OpenState, HelloState, serviceVars, sessionVars
<1>5. QED
  BY <1>1, <1>3, <1>4, ChannelFrame DEF ChannelAction

LEMMA NextHolds == RegistryInv /\ [Next]_vars => RegistryInv'
<1> SUFFICES ASSUME RegistryInv, [Next]_vars PROVE RegistryInv'
  OBVIOUS
<1>1. CASE UNCHANGED vars
  BY <1>1 DEF RegistryInv, TypeOK, ServiceInv, SessionInv, vars, serviceVars, sessionVars,
     channelVars
<1>2. CASE StartSignaling \/ PublishState \/ close_all \/ TakeState
  BY <1>2, ServiceStep
<1>3. ASSUME NEW s \in Sids, Desktop(s) \/ Environment(s) PROVE RegistryInv'
  <2>1. \/ spawn_offer_session(s) \/ Answer(s) \/ AnswerFailed(s) \/ SetHandlers(s) \/ insert(s)
        \/ LinkUp(s) \/ LinkDown(s) \/ LinkFailed(s) \/ GraceFires(s)
        \/ CloserUnregister(s) \/ CloserClose(s) \/ CloserCut(s)
        \/ ChannelAction(s)
    BY <1>3 DEF Desktop, Environment, OfferTask, OnOpen, OnMessage, Closer, ChannelDown,
       RejectChannel, ChannelCollapses, PhoneCloses, ChannelAction
  <2>2. QED
    BY <2>1, OfferStep, LinkStep, CloserStep, ChannelStep
<1>4. QED
  BY <1>1, <1>2, <1>3 DEF Next

LEMMA RegistryInvariant == Spec => []RegistryInv
<1>1. QED
  BY InitHolds, NextHolds, PTL DEF Spec

-----------------------------------------------------------------------------
(* The registry.                                                           *)

\* Every reachable state of the answerer is well typed (webrtc/mod.rs:78-190).
THEOREM AnswererTypeCorrect == Spec => []TypeOK
<1>1. RegistryInv => TypeOK
  BY DEF RegistryInv
<1>2. QED
  BY <1>1, RegistryInvariant, PTL

\* insert and close_all (webrtc/mod.rs:108, 165) decide their race: a context that
\* was stopped never holds a session again.
THEOREM StoppedRegistryEmpty == Spec => []ClosedRegistryEmpty
<1>1. RegistryInv => ClosedRegistryEmpty
  BY DEF RegistryInv, SessionInv, TypeOK, ClosedRegistryEmpty
<1>2. QED
  BY <1>1, RegistryInvariant, PTL

\* No wired connection is forgotten: it is in the registry, being closed, closed,
\* or was left by a timer that aborted itself (webrtc/mod.rs:130, 401).
THEOREM ConnectionsTracked == Spec => []PcTracked
<1>1. RegistryInv => PcTracked
  BY DEF RegistryInv, SessionInv, TypeOK, PcTracked, CloserState
<1>2. QED
  BY <1>1, RegistryInvariant, PTL

\* Connected always cancels the timer of the entry (webrtc/mod.rs:155, 393).
THEOREM TimerWhileDown == Spec => []TimerOnlyWhileDown
<1>1. RegistryInv => TimerOnlyWhileDown
  BY DEF RegistryInv, SessionInv, TimerOnlyWhileDown
<1>2. QED
  BY <1>1, RegistryInvariant, PTL

-----------------------------------------------------------------------------
(* The client limit.                                                       *)

\* What any step does to the registered keys.
ClientsStep ==
    \/ clients' \subseteq clients
    \/ \E k \in Keys : HasPlace(k) /\ clients' = clients \cup {k}

LEMMA StepOfClients == ASSUME TypeOK, [Next]_vars PROVE ClientsStep
<1>1. ASSUME NEW s \in Sids, OpenRegister(s) PROVE ClientsStep
  BY <1>1 DEF OpenRegister, ClientsStep, TypeOK
<1>2. ASSUME NEW s \in Sids, HelloRegister(s) PROVE ClientsStep
  BY <1>2, PhoneAssumption DEF HelloRegister, ClientsStep, Keys
<1>3. ASSUME NEW s \in Sids,
             CloserUnregister(s) \/ HelloUnregister(s) \/ CloseUnregister(s)
      PROVE  clients' \subseteq clients
  BY <1>3 DEF CloserUnregister, HelloUnregister, CloseUnregister, Unregistered
<1>4. ASSUME StartSignaling \/ PublishState \/ close_all \/ TakeState PROVE clients' \subseteq clients
  BY <1>4 DEF StartSignaling, PublishState, close_all, TakeState
<1>5. ASSUME NEW s \in Sids,
             \/ spawn_offer_session(s) \/ Answer(s) \/ AnswerFailed(s) \/ SetHandlers(s)
             \/ insert(s) \/ LinkUp(s) \/ LinkDown(s) \/ LinkFailed(s) \/ GraceFires(s)
             \/ CloserClose(s) \/ CloserCut(s) \/ ChannelOpens(s) \/ OpenRead(s)
             \/ HelloRekey(s) \/ EndChannel(s)
      PROVE  clients' \subseteq clients
  BY <1>5 DEF spawn_offer_session, Answer, AnswerFailed, SetHandlers, insert, LinkUp, LinkDown,
     LinkFailed, GraceFires, CloserClose, CloserCut, ChannelOpens, OpenRead, HelloRekey, EndChannel
<1>6. ASSUME NEW s \in Sids, Desktop(s) \/ Environment(s) PROVE ClientsStep
  BY <1>1, <1>2, <1>3, <1>5, <1>6 DEF Desktop, Environment, OfferTask, OnOpen, OnMessage, Closer,
     ChannelDown, RejectChannel, ChannelCollapses, PhoneCloses, ClientsStep
<1>7. ASSUME UNCHANGED vars PROVE ClientsStep
  BY <1>7 DEF vars, ClientsStep
<1>8. QED
  BY <1>4, <1>6, <1>7 DEF Next, ClientsStep

LEMMA KeysFinite == IsFiniteSet(Keys)
  BY FiniteAssumption, FS_Union DEF Keys

\* However registrations, re-keyings and removals of different sessions interleave,
\* ConnectionManager::register (connection.rs:95) keeps max_connections.
THEOREM ClientLimit == Spec => []ClientsBounded
<1>1. Init => ClientsBounded
  BY FS_EmptySet, LimitAssumption DEF Init, ClientsBounded
<1>2. ASSUME TypeOK, ClientsBounded, [Next]_vars PROVE ClientsBounded'
  <2>1. IsFiniteSet(clients) /\ Cardinality(clients) \in Nat
    BY <1>2, KeysFinite, FS_Subset, FS_CardinalityType DEF TypeOK
  <2>2. ASSUME clients' \subseteq clients PROVE ClientsBounded'
    <3>1. Cardinality(clients') <= Cardinality(clients) /\ Cardinality(clients') \in Nat
      BY <2>1, <2>2, FS_Subset, FS_CardinalityType
    <3>2. QED
      BY <3>1, <2>1, <1>2, LimitAssumption DEF ClientsBounded
  <2>3. ASSUME NEW k \in Keys, HasPlace(k), clients' = clients \cup {k} PROVE ClientsBounded'
    <3>1. CASE k \in clients
      <4>1. clients' = clients
        BY <2>3, <3>1
      <4>2. QED
        BY <4>1, <1>2 DEF ClientsBounded
    <3>2. CASE k \notin clients
      <4>1. Cardinality(clients') = Cardinality(clients) + 1
        BY <2>1, <2>3, <3>2, FS_AddElement
      <4>2. Cardinality(clients) < MaxConnections
        BY <2>3, <3>2 DEF HasPlace
      <4>3. QED
        BY <4>1, <4>2, <2>1, LimitAssumption DEF ClientsBounded
    <3>3. QED
      BY <3>1, <3>2
  <2>4. QED
    BY <1>2, <2>2, <2>3, StepOfClients DEF ClientsStep
<1>3. QED
  BY <1>1, <1>2, AnswererTypeCorrect, PTL DEF Spec
=============================================================================
