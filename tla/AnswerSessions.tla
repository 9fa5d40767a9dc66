--------------------------- MODULE AnswerSessions --------------------------
(***************************************************************************)
(* The desktop's answerer (webrtc/mod.rs): one peer connection per offer,  *)
(* the registry of answer sessions, the callbacks of the peer connection   *)
(* and of its data channel, the clients they register with the             *)
(* ConnectionManager (connection.rs), and start_server / stop_server       *)
(* (commands/server.rs) around them.                                       *)
(*                                                                         *)
(* Every callback is a task of its own; a step is what one of them does    *)
(* between two awaits on a lock another task may hold.  Messages of one    *)
(* channel are handled in order and on_close comes after the last of them, *)
(* while the on_open task runs beside them.                                *)
(***************************************************************************)
EXTENDS Naturals, FiniteSets

CONSTANTS
    Sids,            \* session ids, one per offer
    Phones,          \* stable client ids
    PhoneOf,         \* the phone behind each offer
    MaxConnections,  \* security.max_connections
    MaxGen,          \* bound: how often the service is started
    Lossy            \* bound: the sessions whose link may be lost

ASSUME PhoneAssumption == PhoneOf \in [Sids -> Phones] /\ Sids \cap Phones = {}
ASSUME FiniteAssumption == IsFiniteSet(Sids) /\ IsFiniteSet(Phones)
ASSUME LimitAssumption == MaxConnections \in Nat /\ MaxGen \in Nat \ {0}
ASSUME LossyAssumption == Lossy \subseteq Sids

VARIABLES
    service,      \* where start_server / stop_server stand
    gen,          \* the current AnswerContext; each start makes a new one
    closedGens,   \* contexts whose registry is closed
    clients,      \* registration keys in the current ConnectionManager
    offer,        \* where run_offer_session stands
    ctx,          \* the context an offer session belongs to
    entries,      \* sessions present in the registry of their context
    reg,          \* reg_id: the key a session registers under
    link,         \* the peer connection
    chan,         \* the data channel
    openTask,     \* the on_open task
    openKey,      \* the key it read from reg_id
    hello,        \* how far handle_hello got
    grace,        \* the grace timer of a disconnected session
    closer,       \* the task that closes a session taken from the registry
    aborted,      \* closers that are the grace task their own remove aborted
    draining      \* sessions whose closer is close_all

serviceVars == <<service, gen, closedGens, draining>>
sessionVars == <<offer, ctx, entries, link, grace, closer, aborted>>
channelVars == <<reg, chan, openTask, openKey, hello>>
vars        == <<serviceVars, clients, sessionVars, channelVars>>

Keys         == Sids \cup Phones
ServiceState == {"down", "starting", "up", "stopping"}
OfferState   == {"none", "spawned", "answered", "wired", "done", "dropped"}
LinkState    == {"new", "up", "down", "failed", "closed"}
ChanState    == {"none", "deaf", "open", "closing", "closed"}
OpenState    == {"none", "spawned", "read", "done", "refused"}
HelloState   == {"none", "rekeyed", "unregistered", "done", "failed"}
CloserState  == {"none", "unregister", "close", "done", "cut"}

TypeOK ==
    /\ service \in ServiceState
    /\ gen \in 0 .. MaxGen
    /\ closedGens \subseteq 1 .. MaxGen
    /\ clients \subseteq Keys
    /\ offer \in [Sids -> OfferState]
    /\ ctx \in [Sids -> 0 .. MaxGen]
    /\ entries \subseteq Sids
    /\ reg \in [Sids -> Keys]
    /\ link \in [Sids -> LinkState]
    /\ chan \in [Sids -> ChanState]
    /\ openTask \in [Sids -> OpenState]
    /\ openKey \in [Sids -> Keys]
    /\ hello \in [Sids -> HelloState]
    /\ grace \in [Sids -> {"none", "attached", "detached"}]
    /\ closer \in [Sids -> CloserState]
    /\ aborted \subseteq Sids
    /\ draining \subseteq Sids

Init ==
    /\ service = "down"
    /\ gen = 0
    /\ closedGens = {}
    /\ clients = {}
    /\ offer = [s \in Sids |-> "none"]
    /\ ctx = [s \in Sids |-> 0]
    /\ entries = {}
    /\ reg = [s \in Sids |-> s]
    /\ link = [s \in Sids |-> "new"]
    /\ chan = [s \in Sids |-> "none"]
    /\ openTask = [s \in Sids |-> "none"]
    /\ openKey = [s \in Sids |-> s]
    /\ hello = [s \in Sids |-> "none"]
    /\ grace = [s \in Sids |-> "none"]
    /\ closer = [s \in Sids |-> "none"]
    /\ aborted = {}
    /\ draining = {}

\* connection_state holds a ConnectionState.
Running == service \in {"up", "stopping"}

HasPlace_OffByOne(k) == k \in clients \/ Cardinality(clients) <= MaxConnections

HasPlace(k) == k \in clients \/ Cardinality(clients) < MaxConnections

\* unregister_client does nothing while no service runs.
Unregistered(k) == IF Running THEN clients \ {k} ELSE clients

-----------------------------------------------------------------------------
(* start_server and stop_server.                                           *)

\* The supervisor, and with it a new AnswerContext, is started first ...
StartSignaling ==
    /\ service = "down"
    /\ gen < MaxGen
    /\ service' = "starting"
    /\ gen' = gen + 1
    /\ UNCHANGED <<closedGens, draining, clients, sessionVars, channelVars>>

\* ... and the new ConnectionState is published after it.
PublishState ==
    /\ service = "starting"
    /\ service' = "up"
    /\ clients' = {}
    /\ UNCHANGED <<gen, closedGens, draining, sessionVars, channelVars>>

close_all_Forgets ==
    LET drained == {s \in entries : ctx[s] = gen} IN
    /\ service = "up"
    /\ service' = "stopping"
    /\ closedGens' = closedGens \cup {gen}
    /\ entries' = entries \ drained
    /\ grace' = [s \in Sids |-> IF s \in drained THEN "none" ELSE grace[s]]
    /\ UNCHANGED <<gen, draining, clients, offer, ctx, link, closer, aborted, channelVars>>

close_all_InAbortedTask ==
    LET drained == {s \in entries : ctx[s] = gen} IN
    /\ service = "up"
    /\ service' = "stopping"
    /\ closedGens' = closedGens \cup {gen}
    /\ draining' = draining \cup drained
    /\ entries' = entries \ drained
    /\ grace' = [s \in Sids |-> IF s \in drained THEN "none" ELSE grace[s]]
    /\ closer' = [s \in Sids |-> IF s \in drained THEN "unregister" ELSE closer[s]]
    /\ aborted' = aborted \cup drained
    /\ UNCHANGED <<gen, clients, offer, ctx, link, channelVars>>

\* stop_server stops the supervisor, whose last act is close_all: no session is
\* accepted any more and every entry is taken out to be closed.
close_all ==
    LET drained == {s \in entries : ctx[s] = gen} IN
    /\ service = "up"
    /\ service' = "stopping"
    /\ closedGens' = closedGens \cup {gen}
    /\ draining' = draining \cup drained
    /\ entries' = entries \ drained
    /\ grace' = [s \in Sids |-> IF s \in drained THEN "none" ELSE grace[s]]
    /\ closer' = [s \in Sids |-> IF s \in drained THEN "unregister" ELSE closer[s]]
    /\ UNCHANGED <<gen, clients, offer, ctx, link, aborted, channelVars>>

\* Once close_all has come to its end the ConnectionState is taken away.
TakeState ==
    /\ service = "stopping"
    /\ \A s \in draining : closer[s] = "done"
    /\ service' = "down"
    /\ clients' = {}
    /\ UNCHANGED <<gen, closedGens, draining, sessionVars, channelVars>>

-----------------------------------------------------------------------------
(* run_offer_session.                                                      *)

spawn_offer_session(s) ==
    /\ service \in {"starting", "up"}
    /\ offer[s] = "none"
    /\ offer' = [offer EXCEPT ![s] = "spawned"]
    /\ ctx' = [ctx EXCEPT ![s] = gen]
    /\ UNCHANGED <<serviceVars, clients, entries, link, grace, closer, aborted, channelVars>>

\* The credential is checked against the service that runs now, if any, and a
\* valid offer negotiated and answered: from here on the phone may connect.  An
\* invalid credential, or an error on the way, drops the session.
Answer(s) ==
    /\ offer[s] = "spawned"
    /\ \E verdict \in (IF Running THEN {"answered", "dropped"} ELSE {"dropped"}) :
         offer' = [offer EXCEPT ![s] = verdict]
    /\ UNCHANGED <<serviceVars, clients, ctx, entries, link, grace, closer, aborted, channelVars>>

\* The server took the answer but submit_answer reported an error.
AnswerFailed(s) ==
    /\ offer[s] = "answered"
    /\ offer' = [offer EXCEPT ![s] = "dropped"]
    /\ UNCHANGED <<serviceVars, clients, ctx, entries, link, grace, closer, aborted, channelVars>>

\* wire_session attaches the callbacks ...
SetHandlers(s) ==
    /\ offer[s] = "answered"
    /\ offer' = [offer EXCEPT ![s] = "wired"]
    /\ UNCHANGED <<serviceVars, clients, ctx, entries, link, grace, closer, aborted, channelVars>>

insert_Unchecked(s) ==
    /\ offer[s] = "wired"
    /\ entries' = entries \cup {s}
    /\ offer' = [offer EXCEPT ![s] = "done"]
    /\ UNCHANGED <<serviceVars, clients, ctx, link, grace, closer, aborted, channelVars>>

\* ... and enters the session, unless the registry was closed meanwhile.
insert(s) ==
    /\ offer[s] = "wired"
    /\ \/ /\ ctx[s] \notin closedGens
          /\ entries' = entries \cup {s}
          /\ offer' = [offer EXCEPT ![s] = "done"]
          /\ UNCHANGED link
       \/ /\ ctx[s] \in closedGens
          /\ offer' = [offer EXCEPT ![s] = "dropped"]
          /\ link' = [link EXCEPT ![s] = "closed"]
          /\ UNCHANGED entries
    /\ UNCHANGED <<serviceVars, clients, ctx, grace, closer, aborted, channelVars>>

-----------------------------------------------------------------------------
(* handle_connection_state and close_session.                              *)

HasHandlers(s) == offer[s] \in {"wired", "done"}
Reachable(s)  == offer[s] \in {"answered", "wired", "done"}

LinkUp_KeepTimer(s) ==
    /\ Reachable(s) /\ link[s] \in {"new", "down"}
    /\ link' = [link EXCEPT ![s] = "up"]
    /\ UNCHANGED <<serviceVars, clients, offer, ctx, entries, grace, closer, aborted, channelVars>>

\* Connected: cancel_grace finds the timer of an entry only.
LinkUp(s) ==
    /\ Reachable(s) /\ link[s] \in {"new", "down"}
    /\ link' = [link EXCEPT ![s] = "up"]
    /\ grace' = [grace EXCEPT ![s] =
                   IF s \in entries THEN "none" ELSE @]
    /\ UNCHANGED <<serviceVars, clients, offer, ctx, entries, closer, aborted, channelVars>>

LinkDown_NoTimer(s) ==
    /\ s \in Lossy /\ offer[s] = "done" /\ link[s] = "up"
    /\ link' = [link EXCEPT ![s] = "down"]
    /\ UNCHANGED <<serviceVars, clients, offer, ctx, entries, grace, closer, aborted, channelVars>>

\* Disconnected: the timer is attached to the entry, or runs on its own if there
\* is none.  ICE takes longer to miss a peer than REQUEST_TIMEOUT allows
\* submit_answer, so wire_session has ended by then.
LinkDown(s) ==
    /\ s \in Lossy /\ offer[s] = "done" /\ link[s] = "up"
    /\ link' = [link EXCEPT ![s] = "down"]
    /\ grace' = [grace EXCEPT ![s] = IF s \in entries THEN "attached" ELSE "detached"]
    /\ UNCHANGED <<serviceVars, clients, offer, ctx, entries, closer, aborted, channelVars>>

\* close_session takes the entry out, which makes this task its closer and
\* aborts the attached timer.
TakeEntry(s) ==
    /\ entries' = entries \ {s}
    /\ closer' = [closer EXCEPT ![s] = IF s \in entries THEN "unregister" ELSE @]

\* Failed.
LinkFailed(s) ==
    /\ s \in Lossy /\ offer[s] = "done" /\ link[s] \in {"new", "up", "down"}
    /\ link' = [link EXCEPT ![s] = "failed"]
    /\ TakeEntry(s)
    /\ grace' = [grace EXCEPT ![s] = IF s \in entries THEN "none" ELSE @]
    /\ UNCHANGED <<serviceVars, clients, offer, ctx, aborted, channelVars>>

\* DISCONNECT_GRACE elapses.  A task that runs as the attached timer has just
\* aborted itself: it goes on only until it next has to wait.
GraceFires(s) ==
    /\ grace[s] # "none"
    /\ grace' = [grace EXCEPT ![s] = "none"]
    /\ TakeEntry(s)
    /\ aborted' = IF s \in entries /\ grace[s] = "attached" THEN aborted \cup {s} ELSE aborted
    /\ UNCHANGED <<serviceVars, clients, offer, ctx, link, channelVars>>

CloserUnregister(s) ==
    /\ closer[s] = "unregister"
    /\ clients' = Unregistered(reg[s])
    /\ closer' = [closer EXCEPT ![s] = "close"]
    /\ UNCHANGED <<serviceVars, offer, ctx, entries, link, grace, aborted, channelVars>>

CloserClose(s) ==
    /\ closer[s] = "close"
    /\ link' = [link EXCEPT ![s] = "closed"]
    /\ closer' = [closer EXCEPT ![s] = "done"]
    /\ UNCHANGED <<serviceVars, clients, offer, ctx, entries, grace, aborted, channelVars>>

\* The aborted task is dropped at an await that is not ready.
CloserCut(s) ==
    /\ s \in aborted
    /\ closer[s] \in {"unregister", "close"}
    /\ closer' = [closer EXCEPT ![s] = "cut"]
    /\ UNCHANGED <<serviceVars, clients, offer, ctx, entries, link, grace, aborted, channelVars>>

-----------------------------------------------------------------------------
(* The data channel: wire_data_channel and handle_hello.                   *)

\* The phone's channel arrives and opens.  Before on_data_channel is attached
\* nobody takes notice of it.
ChannelOpens(s) ==
    /\ Reachable(s) /\ link[s] = "up" /\ chan[s] = "none"
    /\ \/ /\ HasHandlers(s)
          /\ chan' = [chan EXCEPT ![s] = "open"]
          /\ openTask' = [openTask EXCEPT ![s] = "spawned"]
       \/ /\ ~HasHandlers(s)
          /\ chan' = [chan EXCEPT ![s] = "deaf"]
          /\ UNCHANGED openTask
    /\ UNCHANGED <<serviceVars, clients, sessionVars, reg, openKey, hello>>

\* on_open reads the key ...
OpenRead(s) ==
    /\ openTask[s] = "spawned"
    /\ openTask' = [openTask EXCEPT ![s] = "read"]
    /\ openKey' = [openKey EXCEPT ![s] = reg[s]]
    /\ UNCHANGED <<serviceVars, clients, sessionVars, reg, chan, hello>>

\* ... and registers it, or rejects the session.
OpenRegister(s) ==
    /\ openTask[s] = "read"
    /\ \/ /\ Running /\ HasPlace(openKey[s])
          /\ clients' = clients \cup {openKey[s]}
          /\ openTask' = [openTask EXCEPT ![s] = "done"]
       \/ /\ ~(Running /\ HasPlace(openKey[s]))
          /\ openTask' = [openTask EXCEPT ![s] = "refused"]
          /\ UNCHANGED clients
    /\ openKey' = [openKey EXCEPT ![s] = s]
    /\ UNCHANGED <<serviceVars, sessionVars, reg, chan, hello>>

\* handle_hello replaces the key, takes the old registration back and registers
\* again; that this fails is only logged.
HelloRekey(s) ==
    /\ chan[s] = "open"
    /\ hello[s] = "none"
    /\ reg' = [reg EXCEPT ![s] = PhoneOf[s]]
    /\ hello' = [hello EXCEPT ![s] = "rekeyed"]
    /\ UNCHANGED <<serviceVars, clients, sessionVars, chan, openTask, openKey>>

HelloUnregister(s) ==
    /\ hello[s] = "rekeyed"
    /\ clients' = Unregistered(s)
    /\ hello' = [hello EXCEPT ![s] = "unregistered"]
    /\ UNCHANGED <<serviceVars, sessionVars, reg, chan, openTask, openKey>>

HelloRegister(s) ==
    /\ hello[s] = "unregistered"
    /\ \/ /\ Running /\ HasPlace(PhoneOf[s])
          /\ clients' = clients \cup {PhoneOf[s]}
          /\ hello' = [hello EXCEPT ![s] = "done"]
       \/ /\ ~(Running /\ HasPlace(PhoneOf[s]))
          /\ hello' = [hello EXCEPT ![s] = "failed"]
          /\ UNCHANGED clients
    /\ UNCHANGED <<serviceVars, sessionVars, reg, chan, openTask, openKey>>

\* The read loop is between two messages.
MessageDone(s) == hello[s] \notin {"rekeyed", "unregistered"}

EndChannel(s) ==
    /\ chan[s] = "open"
    /\ MessageDone(s)
    /\ chan' = [chan EXCEPT ![s] = "closing"]
    /\ UNCHANGED <<serviceVars, clients, sessionVars, reg, openTask, openKey, hello>>

\* The phone closes the channel or goes away.
PhoneCloses(s) == EndChannel(s)

RejectChannel_LogOnly(s) == FALSE

\* dc.close() after a refused registration.
RejectChannel(s) == openTask[s] = "refused" /\ EndChannel(s)

\* pc.close() ends the read loop of the channel.
ChannelCollapses(s) == link[s] = "closed" /\ EndChannel(s)

\* on_close.
CloseUnregister(s) ==
    /\ chan[s] = "closing"
    /\ clients' = Unregistered(reg[s])
    /\ chan' = [chan EXCEPT ![s] = "closed"]
    /\ UNCHANGED <<serviceVars, sessionVars, reg, openTask, openKey, hello>>

-----------------------------------------------------------------------------
OfferTask(s)   == Answer(s) \/ SetHandlers(s) \/ insert(s)
OnOpen(s)      == OpenRead(s) \/ OpenRegister(s)
OnMessage(s)   == HelloUnregister(s) \/ HelloRegister(s)
Closer(s)      == CloserUnregister(s) \/ CloserClose(s)
ChannelDown(s) == RejectChannel(s) \/ ChannelCollapses(s)

Desktop(s) ==
    \/ OfferTask(s) \/ OnOpen(s) \/ OnMessage(s) \/ Closer(s) \/ ChannelDown(s)
    \/ CloseUnregister(s) \/ GraceFires(s)

Environment(s) ==
    \/ spawn_offer_session(s) \/ AnswerFailed(s)
    \/ LinkUp(s) \/ LinkDown(s) \/ LinkFailed(s)
    \/ ChannelOpens(s) \/ HelloRekey(s) \/ PhoneCloses(s)
    \/ CloserCut(s)

Next ==
    \/ StartSignaling \/ PublishState \/ close_all \/ TakeState
    \/ \E s \in Sids : Desktop(s) \/ Environment(s)

Spec == Init /\ [][Next]_vars

\* Spawned tasks run on, timers elapse and a stop goes through; nothing is
\* assumed of the phone, of the network or of the user.
Fairness ==
    /\ WF_vars(PublishState)
    /\ WF_vars(TakeState)
    /\ \A s \in Sids :
         /\ WF_vars(OfferTask(s))
         /\ WF_vars(OnOpen(s))
         /\ WF_vars(OnMessage(s))
         /\ WF_vars(Closer(s))
         /\ WF_vars(ChannelDown(s))
         /\ WF_vars(CloseUnregister(s))
         /\ WF_vars(GraceFires(s))

FairSpec == Spec /\ Fairness

-----------------------------------------------------------------------------
(* Properties.                                                             *)

\* register: never more than max_connections keys, although sessions register,
\* re-key and unregister at the same time.
ClientsBounded == Cardinality(clients) <= MaxConnections

\* close_all and the closed flag decide the race of stop_server with a late
\* offer: once a context is closed its registry stays empty.
ClosedRegistryEmpty == \A s \in entries : ctx[s] \notin closedGens

\* A wired peer connection is in the registry, or closed, or some task is about to
\* close it -- unless that task was the grace timer and has aborted itself.
PcTracked ==
    \A s \in Sids : offer[s] = "done" =>
        \/ s \in entries
        \/ closer[s] \in {"unregister", "close"}
        \/ link[s] = "closed"
        \/ s \in aborted

\* A timer attached to a session runs only while its link is down: a connection
\* that recovered is not torn down by the timer of its earlier loss.
TimerOnlyWhileDown ==
    \A s \in Sids : s \in entries /\ grace[s] = "attached" => link[s] = "down"

\* A session that stays disconnected leaves the registry.
DisconnectedReaped ==
    \A s \in Sids : (s \in entries /\ link[s] = "down") ~> (s \notin entries \/ link[s] = "up")

\* A session refused at max_connections loses its channel.
RefusedIsClosed == \A s \in Sids : openTask[s] = "refused" ~> chan[s] = "closed"

\* stop_server comes to its end: close_all never waits for a closer that is gone.
StopCompletes == service = "stopping" ~> service = "down"

-----------------------------------------------------------------------------
(* What comments of the code say and the code does not do.                 *)

\* storage.ts:98 "the same phone is counted once however often it reconnects": a
\* phone whose session is open and said hello is among the clients.
ReconnectedPhoneCounted ==
    \A s \in Sids :
        (Running /\ chan[s] = "open" /\ openTask[s] = "done" /\ hello[s] = "done"
           /\ s \in entries /\ link[s] = "up") => PhoneOf[s] \in clients

\* mod.rs:487 "close: unregister the client": when the channel is closed and its
\* tasks are done, the session id is not registered any more.
ClosedChannelUnregistered ==
    \A s \in Sids :
        (chan[s] = "closed" /\ openTask[s] = "done" /\ closer[s] \in {"none", "done"})
            => s \notin clients

\* mod.rs:15, 400 "disconnected: clean up after 10s", "unregister, then close the
\* PC": a session taken from the registry ends with its connection closed.
RemovedIsClosed ==
    \A s \in Sids : closer[s] # "none" ~> link[s] = "closed"
=============================================================================
