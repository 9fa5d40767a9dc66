# DropVoice: TLA+ models, model checking and proofs

DropVoice types on a desktop what a phone dictates. The phone (a React PWA) and
the desktop (a Tauri application in Rust) talk over a WebRTC data channel; a
public pairing server (axum, SQLite) only lets them find each other. This
directory models the parts of that system whose correctness depends on the order
of things: on the pairing server the rendezvous and the registry of devices; on
the desktop the answerer, registration and configuration, the supervisor with the
start and stop commands, the pairing codes and the typing of texts; on the phone
the connection hook. Paths below are relative to `src/`.

Run `tlc -config <run>.cfg MC<Module>.tla` for a model-checking run and
`tlapm <Module>Proofs.tla` for a proof; `PROJECT.json` lists every run, its
properties and, for every definition, the lines it translates.

## 1. Inventory

### Pairing server (`apps/pairing-server/src`)

| part | state | operations | what makes it correct |
|---|---|---|---|
| signaling store, `api/signaling.rs` | sessions (offer, answer, expiry, a `Notify`), tickets, `offers`: one subscription per device | create_session, push_offer, submit_answer, peek_answer, issue/redeem_ticket, subscribe/unsubscribe_offers, clean-up | cap of sessions per device; a ticket opens one stream; an old stream never removes a newer subscription; a waiting poll is woken |
| handlers, `api/signaling_handlers.rs` | `sse_active`, `poll_active` gauges; one task per stream | create_offer, poll_answer (long poll), subscribe_events (SSE), submit_answer, create_ticket | gauges return to what they were on every exit, cancellation included; offers reach the desktop at most once; a poll returns |
| device registry, `api/devices.rs`, `store/device_repo.rs`, `cache/mod.rs`, `api/auth.rs` | devices table (token hash, issue time, address), token cache | register (create, reuse, rotate, refuse), report_status, verify_token, collection of stale devices | only the holder of a token gets the next one; a rotated or deleted token stops working |
| batch writer, `batch/mod.rs` | bounded channel, buffer | enqueue, flush by timer and by size | reports are not applied out of order; loss only at the limit |
| rate limiter, `api/auth.rs` | sliding windows per address | check, sweep | at most N requests per second and address |

### Desktop (`apps/desktop/src-tauri/src`)

| part | state | operations | what makes it correct |
|---|---|---|---|
| answerer, `webrtc/mod.rs` | registry of answer sessions with grace timers and a closed flag; per session a peer connection, a data channel and a `reg_id` | spawn_offer_session, wire_session, handle_connection_state, close_session, close_all, on_open, on_message, on_close, handle_hello | every wired connection is closed in the end; the clients registered are the channels that are open; nothing survives a stop |
| connection manager, `connection.rs` | registered clients, injection queue | register, unregister, enqueue_injection, processing task | max_connections holds; texts are typed once, in order, one at a time |
| credentials, `connection.rs`, `server/auth.rs` | pairing code with issue time, connection tokens | issue, rotate, validate, add token | a shown code is valid; an issued token works for its lifetime |
| configuration, `config/mod.rs` | `config.toml` and two copies in memory (`AppState.config`, `ConnectionState.config`) | load, save, settings commands | no copy overwrites what the other saved |
| heartbeat, `network/heartbeat.rs` | token, back-off, the token bus | register_with_backoff, heartbeat_loop, refresh_pairing_token | the device keeps its identity while the server knows it |
| supervisor, `network/signaling.rs` | the SSE stream, back-off | run_supervisor, wait_for_token, run_sse_once | reconnects after every failure, stops when told |
| commands, `commands/server.rs` | handles of the tasks, `connection_state` | start_server, stop_server, rotation timer | one service at a time; stop ends everything start began |

### Phone (`apps/mobile/src`, `packages/core/src`)

| part | state | operations | what makes it correct |
|---|---|---|---|
| reducer, `machines/connection.ts` | none (a function) | CONNECT, OPEN, CLOSE, FAIL | retries are counted and limited |
| hook, `hooks/useConnections.ts` | per device: state, transport, retry timer, credential, send lock | connect, disconnect, retry, send, handlers of transport events | every shown state is backed by a transport or a timer; a transport given up has no effect |
| transport, `lib/rtcTransport.ts` | peer connection, channel, abort controller | open, close, send; offer, poll for the answer, ICE | ends in open or in one error or close |
| storage, `lib/storage.ts`, `App.tsx` | devices, tokens, codes, client id in localStorage | add, remove, migrate | credentials survive a reload |

### How they interact

1. The desktop registers with the server (token), exchanges the token for a
   one-time ticket and opens an SSE stream with it.
2. The phone posts an offer with a credential (pairing code or connection token).
   The server creates a session and pushes the offer into the stream's channel,
   or answers 503.
3. The desktop checks the credential, negotiates, submits its answer and wires the
   peer connection. The phone collects the answer by long polling.
4. The data channel opens; the phone says hello with its stable client id; a phone
   that used a code is given a token. Texts are queued, typed and acknowledged.

### What is hard

Handlers and callbacks are tasks that interleave at every await; requests are
dropped at any await when a client hangs up; streams replace one another;
timers (grace, poll hold, stream lifetime, retry, expiry) race the events they
wait for; the service stops and starts under running callbacks; two tasks share
a token and two copies share a file. `PROJECT.json` lists each hazard at its line
with the properties that cover it, or why none does.

## 2. Modules

| module | models | built on |
|---|---|---|
| `Rendezvous` | what the server promises a phone and a desktop (abstract) | |
| `SignalStore` | signaling store and handlers of the pairing server | implements `Rendezvous` |
| `DeviceRegistry` | devices table, token cache, bearer authentication, batch writer | |
| `AnswerSessions` | the desktop's answerer, client registration | |
| `DesktopConfig` | config file and its copies, identity, registration with the server | |
| `Supervisor` | start and stop commands, life of heartbeat, supervisor and timer | |
| `PairingCodes` | pairing codes, connection tokens, the screen that shows a code | |
| `TypingLog` | what the injection queue promises (abstract) | |
| `TextInjection` | a text's way from the channel to the cursor | implements `TypingLog` |
| `ConnectionMachine` | the reducer of the phone's connection | |
| `MobileConnection` | one device of the phone's hook, with its transports | `ConnectionMachine` |
| `<Module>Proofs` | theorems about the module named | the module, TLAPS |
| `MC<Module>` | model values, inputs and symmetry for TLC | the module named |

Operators whose name has a suffix after an underscore and that stand before the
definition of the same stem (`HasRoom_OffByOne` before `HasRoom`) are slips the
code could contain; no specification uses them. They show which property notices.

Where two modules meet, one of them is open and the other decides: `Supervisor`
lets the server answer, refuse or fail at will; `DesktopConfig` says which of
these follows from the identity and the token sent, with an upsert as one step;
`DeviceRegistry` takes the upsert apart into its statements, for any client.
`AnswerSessions` accepts or refuses a credential at will; `PairingCodes` says
which are valid.

### SignalStore

A step is one critical section, one atomic operation or one await, so the model
has every interleaving tokio allows between them. A session id, a ticket, an SSE
request (also its `sub_id`) and a poll are values of constant sets. Time is
replaced by `ExpireSession` and `ExpireTicket`, enabled whenever the thing lives:
every real timing is among the behaviours.

* `offerReq` follows create_offer: `create_session` (one lock), `get_session` and
  `push_offer`, with `CancelOffer` at any await. A full or missing channel is 503.
* `conn` follows a stream: `redeem_ticket`, `AdmitSse` (the load), `CountSse` (the
  increment), `subscribe_offers`, the spawned task (`ForwardOffer`,
  `StopForwarding`), and its end in two steps, `unsubscribe_offers` then
  `ReleaseSse`. `CancelSse` drops the handler before it spawned the task: the
  increment stays behind, which is why the gauge is only an upper bound.
  The `select!` is biased: `StopForwarding` is not enabled while an offer is queued
  and the client reads. A client is up, dead but undetected, or dropped.
* `poll` follows poll_answer: the two halves of the cap, the first look, the
  creation of the `Notified` future, the wake-up or the hold, the second look, and
  the guard's drop. `notify_waiters` wakes only polls that already wait.

`Rendezvous` says what the whole is for: an offer reaches the desktop it was made
for at most once, the desktop decides once, and a phone learns that decision or
nothing. The mapping takes the owner of an offer from the response the phone got,
the inbox from what streams delivered, the verdict and the collected answers
directly.

### AnswerSessions

One function per stage of a session, each step what one task does between two
awaits on a lock another task may hold.

* `service` and `gen` follow start_server and stop_server. The AnswerContext is
  made before the ConnectionState is published, and offers of an old context
  look up whatever ConnectionState is there when they run.
* `offer` follows run_offer_session: the credential check (any verdict while a
  service runs), negotiation and answer, `SetHandlers`, and `insert`, which closes
  the connection if the registry was closed meanwhile.
* `link` is the peer connection's state as the environment drives it; `grace` is
  attached to an entry or, when the entry is not there, detached. The callback
  finds an entry that only `remove` takes out.
* `closer` is the task that took an entry out. When it is the grace timer itself,
  `remove` has aborted it (`aborted`), and it may be cut at any later await.
* `openTask` and `hello` are on_open and handle_hello, each in the steps its locks
  make. `chan = "deaf"` is a channel that opened before its callback was attached.

One assumption about time is built in: ICE notices a lost peer no sooner than
after 5 seconds of silence, and submit_answer is bounded by a request timeout of
3 seconds, so a link is not lost before `wire_session` has ended. One assumption
about the user interface: a second start_server is not issued while one runs.

### MobileConnection

One device; a step is one task of the page's event loop. Transports are objects
taken from a set and reused after they are collected. `net` is what a transport
does (connecting, linking, open, ended, dead, closed), `wired` whether the hook's
handlers are subscribed. A credential is a token, a code or none. `HandlerRuns` is
the guard `cur.transport !== transport` every handler begins with; `OnOpen`, `OnClose`,
`OnError`, `OnRejected` and `OnAck` are the handlers. `ConnectionMachine` gives the
reducer with the code's MAX_RETRIES.

A transport that disconnectDevice closed keeps its handlers subscribed and its connect()
running: the POST, the poll (whose abort is taken for a time-out) and the queued channel
events still end in a close, an open, an ack, an error or a rejection. `LateEvent` is any
of these, any number of times. That such a connect() may also make a session on the
server that nobody collects is the server's side: there a session that expires. The
branch for INVALID_CREDENTIAL and the like as channel messages
(`useConnections.ts:193-195`) is left out, because the only error the desktop sends over
the channel is INJECTION_FAILED (`webrtc/mod.rs:545`); `InjectionFailed` is that one.

### DeviceRegistry

A step is one SQL statement, one use of the cache's lock or one use of the
writer's channel; requests of any clients for any devices interleave between them.

* `req[r].at` is the statement a request is about to execute: for `register` select,
  insert (ON CONFLICT DO NOTHING) and re-read, rotate or mark online, invalidate and
  fill the cache, answer; for `report_status` the cache, the table behind it, the
  check of the path's device, the channel. `match_existing` is create, reuse, rotate
  or refuse. `known` is what each client was told.
* The batch writer is `queue` (the channel), `buf`, `FlushTick` (drain and flush)
  and `Receive` (one report, flush at the threshold). A flush is one transaction; it
  may fail and then keeps the buffer. `Restart` loses cache, channel, buffer and
  requests and keeps the table. A full channel drops the report and answers 200.
* A handler may end before any of its statements (`Drop`): hyper drops it when the
  client hangs up, or the statement before returned an error. The client may also miss
  an answer that was sent. `known` then does not grow, the table has changed.
* `lapsed` holds the tokens that died while the cache was not told: each of the four
  ways is written at the step where it happens (`Dies`, `Drop`, `delete_stale`).
  `contact` is when a device was last answered 200, `lost` tells that this answer was
  for a report the server dropped. These ghosts decide nothing; properties read them.
* The clean-up task's two statements are two actions, with handlers in between.
* `now` counts spans longer than any request: no request survives a `Tick`.

### DesktopConfig

* `file` is config.toml: a configuration, absent or `Broken`. `app` and `cs` are the
  copies of AppState and of ConnectionState. `Save` writes one copy whole and may
  fail. fs::write truncates first: `CrashInSave` leaves a file whose device section
  is missing, for which load takes the defaults. `SetOption` stands for every
  command that changes a setting.
* `task[t]` is a run of register_with_backoff in the heartbeat or in the supervisor's
  refresh: the snapshot it read, the request, the answer, and whether the identity was
  reset once. `Lose` loses the request or only its answer. `Registered` keeps, saves
  and publishes the token; `ResetIdentity` follows the first 401.
* `server` is the table of the pairing server, without a cache and with an atomic
  upsert; `Age` makes a token old enough to rotate, `Wipe` removes a row.
* `seen` remembers which faults a history had, so that a property can name its
  exceptions; every outside fault happens at most once.

### Supervisor

Every start that passes its check is a service with a token bus of its own; `slot`
holds whose handles AppState has, `told` what each task can see of its stop signal
(nothing, a written signal, a dropped sender).

* `hb` and `sup` are where a task is: the heartbeat in register, back-off, sleep,
  report and pause; the supervisor in wait_for_token, connect, stream, refresh with
  its back-off, pause, closing. Requests do not see a stop, sleeps do, and
  `refresh_pairing_token` sees none at all.
* stop_server takes handles in the order of the code, tells and joins; `JoinSignaling`
  and `JoinHeartbeat` wait for the task to be done.
* `fresh` is the watch channel's mark: a publication the supervisor has not seen.
* A wake-up that races the stop signal is one of two orders of the two steps, not a
  step of its own.
* With `Overlap = FALSE` a command begins only when the last one has returned, as
  the window does, which disables its button; nothing in the frontend calls
  stop_server. `Overlap = TRUE` lets two calls of start_server overlap.

### PairingCodes

`now` is the wall clock in units of a lifetime; `timer` is what the rotation task
still sleeps on the monotonic clock, which `HostSleeps` does not move. `lag` is the
time between the first code and the spawn of the timer. `poll` and `events` are
answers of get_connection_info and rotation events on their way to the window, whose
cache is `screen`; a poll reads the code under the lock and builds the QR payload
later. Tokens are numbered as issued; `AcceptToken` and `Offer` are the phone's side.

### TextInjection

Every start makes a manager with a queue and a task of its own, which no stop ends.
`handle_text` validates, enqueues and answers in one step (the state stays locked);
`pop_front`, `TypeChar`, `Finish` and `Fail` are the task. Characters are reduced to
the classes the injector distinguishes, and normalisation is the two replacements in
the order of the code. A text is typed character by character, as with a delay; with
the delay 0 some platforms pass the whole text in one call, which shows fewer
interleavings. `TypingLog` is the promise: every accepted text is attempted once, in
order, and at most the limit waits behind the one being typed.

## 3. Runs

All passing runs finish within a few minutes. Deadlock is not checked: every
model has states in which all requests were made and all bounds are used up.

| run | question | properties | bounds |
|---|---|---|---|
| `MCSignalStore_sse` | can two streams disturb each other or an offer; does a ticket open one stream; do the gauge and the session cap hold? | `SubscriptionHasTask`, `OfferDeliveredOnce`, `TicketOpensOneStream`, `SseGaugeCovers`, `SessionsCapped`, `NoStaleUnsubscribe` | 2 devices, 2 tickets, 2 streams, 2 offers, all caps 1 |
| `MCSignalStore_polls` | is the poll gauge exact; does the store implement `Rendezvous`? | `PollGaugeExact`, `ImplementsRendezvous` | 2 sessions, 2 polls, cap 1 |
| `MCSignalStore_live` | do streams end, polls return, queued offers leave? | `StreamEnds`, `PollReturns`, `QueuedOfferSent` | 2 streams, 1 offer, 1 poll |
| `MCDeviceRegistry_registry` | does a row stay with one party; when does a dead token stay cached; are reports written once and in order; who is shown offline? | `OneHolder`, `CacheMatchesTable`, `ReportsInOrder`, `OfflineIsSilent` | 1 device, 3 tokens, 2 clients, 2 requests at a time, channel 1, threshold 2, 2 time spans, 2 reports, 1 fault |
| `MCAnswerSessions_clients` | is max_connections kept through re-keying, losses and stop? | `ClientsBounded` | 2 sessions of 2 phones, limit 1 |
| `MCAnswerSessions_stop` | what do a stop and a restart leave behind; are lost sessions removed and refused ones closed; does the stop end? | `ClosedRegistryEmpty`, `PcTracked`, `TimerOnlyWhileDown`, `DisconnectedReaped`, `RefusedIsClosed`, `StopCompletes` | 1 session, 2 starts |
| `MCDesktopConfig_config` | what can cost the desktop its identity; does it come to listen again? | `IdentityKept`, `ListensUnlessLockedOut` | 2 launches, 1 outside fault, 1 token that ages, 1 refused report, 1 phone |
| `MCSupervisor_tasks` | is the service whole or gone between commands; is a new token ever missed; do stop and reconnection end? | `WholeOrQuiet`, `NoTokenMissed`, `StopReturns`, `ServiceListens` | 2 starts, 2 stops, 2 tokens, no overlap |
| `MCPairingCodes_codes` | how long do codes and tokens live; does the screen catch up? | `ExpiredOnlyBriefly`, `TokenLife`, `ScreenCatchesUp` | 2 codes, lifetimes 1, limit of 2 tokens, 3 issued, time up to 3 |
| `MCTextInjection_typing` | are texts typed once, in order, with their line breaks; is an acknowledged text attempted? | `ImplementsLog`, `AcknowledgedIsAttempted`, `LinesKept` | 2 phones with 3 and 2 texts of every class of character, queue 2, 2 starts |
| `MCMobileConnection_device` | is every shown state backed, is a given-up transport silent, do retries end? | `BackoffArmed`, `ConnectingHasAttempt`, `NoOrphanTransport`, `AckOwedLocks`, `LateEventHarmless`, `RetriesEnd` | 3 transports, 5 user actions, MAX_RETRIES 5 |
| `MCAnswerSessions_reconnect` | expected violation, see below | `ReconnectedPhoneCounted` | 2 sessions of 1 phone |

The interactions of these parts are pairwise: an old and a new stream, a poll and
an answer, two sessions at the limit, two registrations of one row, a report in
the buffer and one in the channel, an old and a new service, an old and a new
transport. Two of each, a limit of one and a channel of one reach every such
conflict; a second start is what a restart needs, a third token what pushes the
oldest of two out. The phone runs with the retry limit of the code, which five user
actions do not reset often enough to hide. The answerer loses the link of one
session at a time (`Lossy`). The registry runs with one device, because the
devices meet only in the cache's limit and in the batch, and its clients and its
requests are symmetric; the theorems have no such bound.

The type invariants are proved and therefore not repeated in the runs.

### Fairness

* SignalStore: weak fairness of the steps of handlers and of the stream's task.
  tokio polls a task that is ready; the poll's hold and the stream's lifetime are
  tokio timers, which elapse. Nothing is assumed of phones and desktops.
* AnswerSessions: weak fairness of spawned tasks, callbacks already delivered, the
  grace timer, and of stop and start going on. Nothing of the phone, the network
  or the user.
* DesktopConfig: the tasks run, the server answers a request or the request fails,
  and a stream ends at the server's lifetime. Status reports have no fairness.
* Supervisor: `FairSpec` says that commands and tasks run, sleeps end and every
  request ends one way or the other within its timeout. `OnlineSpec` adds that a
  server asked again and again answers in the end (strong fairness of `Answered`).
  Both liveness properties need it: out of reach of the server nothing listens, and a
  supervisor that refreshes its token does not look at its stop signal.
* PairingCodes: the window polls every second and its event loop runs. Nothing of
  phones or of the time that passes.
* TextInjection: the task polls its queue for ever and every call of the platform's
  keyboard interface returns.
* MobileConnection: a pending timer fires and a closed transport is collected (so that
  the model does not run out of transports). Nothing of the user, and nothing of an
  attempt: only the POST of the offer has a time limit, the fetch that waits for the
  answer has none (`rtcTransport.ts:240`), and after the answer nobody watches a channel
  that never opens. `RetriesEnd` therefore allows an attempt that hangs for ever.

### Where the code and its comments disagree

One is kept as a run. `MCAnswerSessions_reconnect`: the end of a phone's old session
unregisters the phone although its new session is open, so that it is counted zero
times where `storage.ts:98` promises once (`webrtc/mod.rs:495`).

The properties named below state what a comment or a test says and are refuted by the
same models. They stand in the modules for whoever changes the code, and no run is
spent on them.

* `NoLostWakeup` (SignalStore): `notify_waiters` stores no permit; an answer between a
  poll's first look and its wait wakes nobody and the phone waits out the hold
  (`signaling.rs:184`). The poll still returns (`PollReturns`).
* `OfflineLeavesNoSession` (SignalStore): a 503 leaves the session behind, counted
  against the device (`signaling_handlers.rs:184`). The cap holds (`SessionsCapped`).
* `AcceptedDeviceExists` (DeviceRegistry): the token of a collected device stays in the
  cache and its reports are accepted, so it never learns that it has to register
  (`device_repo.rs:283`).
* `OldTokenDies` (DeviceRegistry): after a rotation the old token stays in the cache when
  the handler ends between the UPDATE and `invalidate_token`, when two requests rotate
  one row, or when a request that read the table earlier caches it (`devices.rs:110`).
* `ClosedChannelUnregistered` (AnswerSessions): a channel that closes while on_open is
  between read and register leaves a client registered (`webrtc/mod.rs:430`).
* `RemovedIsClosed` (AnswerSessions): the grace timer aborts itself in `remove`;
  connection and client may stay (`webrtc/mod.rs:135`). `PcTracked` names this as the
  only such case.
* `RegistrationSucceeds` (DesktopConfig): when the answer that creates the new identity
  is lost, the server refuses every retry and a second reset is not allowed
  (`heartbeat.rs:88`).
* `PairedPhonesKept` (DesktopConfig): AppState.config keeps the token list of the
  launch, and saving it removes phones paired since from the file (`config/mod.rs:223`).
* `RescanReachesDesktop` (DesktopConfig): after an identity reset the QR code still
  names the old device until the service is restarted (`heartbeat.rs:153`).
* `NotStartedTwice` (Supervisor, `Overlap = TRUE`): the check and the publication of
  start_server are far apart; a second call in between starts everything twice
  (`server.rs:26`). Of commands that do not overlap it holds, and the tasks of two
  services never run together (`OneServiceRuns`): both are proved.
* `StopReturns` under `FairSpec` only: stop_server waits for ever while the server is
  out of reach and the supervisor is in `refresh_pairing_token` (`heartbeat.rs:281`).
* `CurrentCodeValid` (PairingCodes): on a host that slept, an expired code stays on the
  screen until the monotonic timer fires (`connection.rs:294`).
* `NoInterleaving` (TextInjection): after a restart the task of the old service types
  what is left while the new one types its own texts (`connection.rs:56`). The texts of
  one service stay apart (`TextsApart`), and with one start all do: both are proved.
* `AttemptEnds` (MobileConnection): a phone can show connecting for ever, because a fetch
  without a time limit hangs or the channel never opens; only the user or the return to
  the foreground ends it (`rtcTransport.ts:175`, `useConnections.ts:355`).
* `ConnectedHasChannel` (MobileConnection): a pending timer replaces an open channel
  while the phone shows connected (`useConnections.ts:180`).

Further behaviours that no comment denies but a reader may not expect:

* both gauges of the server are loaded and incremented in two steps, so several
  requests pass a cap at once (`signaling_handlers.rs:236`, `:414`);
* the sweep of the rate limiter, `retain(|_, b| !b.is_empty())`, removes nothing that
  is merely old; only the reset at the limit of buckets bounds it (`api/auth.rs`);
* a registration that fails after hello is only logged and the channel goes on
  uncounted (`webrtc/mod.rs:509`), where a failure in on_open rejects it;
* an offer of a stopped service that was being answered registers with the service
  started next (`webrtc/mod.rs:561`);
* a retry without a credential ends in reconnecting with no timer
  (`useConnections.ts:329`), not offline as the comment at `:37` says;
* the timer of a first close can fire after a second close used up the retries, and
  the phone leaves offline by itself (`useConnections.ts:158`);
* `sending` is not released by INJECTION_FAILED (`useConnections.ts:196`).

## 4. Proofs

TLAPS proves the following for every value of the constants that satisfies the
modules' named assumptions (finite sets where a cardinality is taken, `None` outside
the sets, limits that are naturals, positive where the code needs it).

**SignalStoreProofs.** `TypeCorrect`, `PollGauge`, `SseGauge`, `SubscriptionTable`,
`IdentityDelete`, `SingleUseTicket`, `SessionCap`, `OfferOnce` and the refinement
`RendezvousImplemented`. `TypeOK` is not
inductive: a gauge that is decremented stays a natural number only because it counts
something. `GaugeInv` adds that `pollActive` equals the number of guarded polls and
that `sseActive` is at least the number of streams; lemmas on the cardinality of these
sets when one member enters or leaves carry the arithmetic. `SubscriptionHasTask` is
strengthened with what each stage of a stream implies about the table;
`NoStaleUnsubscribe` follows from it and the identity check of `unsubscribe_offers`.
`TicketInv` adds that the ticket of a request that was redeemed is gone, so no second
request can redeem it. `CapInv` adds to `SessionsCapped` that a session id is unused
until its offer creates the session. `OfferInv` follows an offer: only a pushed one is
anywhere, it stands in one channel at one place or was delivered, and the stream it is
in serves the device of its session.

`RendezvousImplemented` is `Spec => R!RendezvousSpec`, with the mapping of
`SignalStore`. Most steps leave the mapped state alone (`Silent`); four map to a step:
`push_offer` to Offer, a delivery to HandOver, `submit_answer` to Decide and whatever
answers a poll to Learn. That the guards of these hold needs the invariants above: an
offer that is forwarded was in no inbox yet because it stands in one place only, and
the desktop it is handed to is the one it was made for because of the stream's device.

**DeviceRegistryProofs.** `TypeCorrect`, `ReportOrder`, `OneHolderOfToken`,
`CacheAgrees` and `SilentBeforeOffline`. `ReportInv` says that written, buffered and queued reports are the
accepted ones in order. `HolderInv` strengthens the single holder from rows to all
tokens: a token that a request may still answer as new is with nobody else (`Fresh`),
and a bearer, or the token of a row that is only marked, is one the client was told
(`Presented`). `CacheInv` has no restriction on the history:
a cached token is its device's or lapsed (`Good`), or is about to be invalidated
(`Covered`), and so is a token that a request is about to cache (`Sound`); a rotation
keeps this because it lets lapse exactly the tokens that somebody is about to cache
or that its own invalidation will not name (`Dies`), and a handler that ends before its
invalidation lets its bearer lapse (`Drop`). `SilentBeforeOffline` proves
`OfflineIsSilent`: `SilenceInv` says that a row is as recent as the last request of its
device that was answered 200, and online or too old (`Silent`), unless a report of it is
in the channel or the buffer or was dropped (`Heard`), that those were accepted in the
present span of time, and that nothing is dated ahead of the clock. A flush refreshes every
row that has a report in the batch; the lemma on concatenation says what is in a batch.

**AnswerSessionsProofs.** `AnswererTypeCorrect`, `StoppedRegistryEmpty`,
`ConnectionsTracked` and `TimerWhileDown` follow from one inductive invariant,
`RegistryInv`: the types, that the current context is a started one while a
service is not down, and per session what `offer`, `entries`, `closer`, `grace` and
`link` say of each other. `ClientLimit` is proved on top of it by a lemma that a
register step adds a key only if there is room.

**DesktopConfigProofs.** `TypeCorrect` and `OneIdentity`. `IdentityKept` says nothing
about where identities are; `IdentityInv` adds that, without one of the causes, file,
copy of the application name the one identity in use and the same token
(`SameIdentity`), and that the server's row for it, if there is one, holds the token
saved or the one in the only answer under way (`RowMatches`): no refusal, hence no
reset. `RunInv` says that there are no tasks without the service.

**SupervisorProofs.** `TypeCorrect`, `TokenSeen` and `ServiceWhole`; with `Overlap =
FALSE`, `OneService` and `StartsOnce`. `TokenSeen` is inductive with the types. The
others need `CommandInv`, an invariant while no command overlaps another: nothing runs
whose handle is neither in its slot nor being joined (`Kept`), a handle in a slot was
not used yet (`Untold`), and all handles belong to one service, cut off at the step of
the command that runs (`Alone`), the one stop_server waits for included, hence at
every moment, not only between commands, tasks of one service at most. `StartsOnce`
adds `StillPublished`: without a stop nothing takes back the state a start has
published.

**PairingCodesProofs.** `TypeCorrect`, `CodeAge` and `TokenLifetime`. `TimerInv`: while
the host is awake, the age of the code and what the timer still sleeps add up to one
interval, or to that and the lag of the start. `NewestInv`: the token list is the
newest `MaxTokens` of all tokens issued, each under its number and its time.

**TextInjectionProofs.** `LogImplemented` is the refinement `Spec => Log!Spec`.
`QueueInv` says that the accepted texts are those attempted, then the one being typed,
then the queue; with it each step is a step of the log or a stutter. `TypeCorrect` adds
the bound of the queues.

`LinesAreKept` has a pure part and a part about histories. The pure part,
`LinesOfNormalized`, is what normalize_newlines computes for every text. The recursion
of its first replacement runs to the right, so it is unfolded from the end of the text
(`Leftwards`: what holds at a position whenever it holds further right holds at all;
derived from the well-foundedness of the naturals, because the library's induction
theorems are out of the provers' reach). `FromExists` shows that the recursion has a
solution, `Marks` names the characters a replacement stands for, and `CountMarks` counts
them. The other part is `LineInv`: no text is accepted twice (`Once`, which needs
`Past`: a phone's next text is new), only taken texts are at the cursor (`Begun`), and
what is typed of the text in hand and what is left of it add up to it (`Counted`).

`QueueTypesOneByOne` adds that the key events of a service's texts follow the order in
which it accepted them (`InOrder`). `OneStartNoInterleaving` is its consequence for
`MaxStarts = 1`: the finding on `NoInterleaving` needs a restart and nothing else.

**MobileConnectionProofs.** `PhoneTypeCorrect`, `RetryArmed`, `AttemptRuns`,
`OneTransport`, `SendLock` and `LateEvents` follow from `HookInv`: these invariants
and `TransportInv`, which none of them can do without. `TransportInv` says that the
session's transport is subscribed and not closed, that a text owed an ack is on an
open channel of it, and that a device without a session has no timer. With it
an event of a live transport is known to be the session's (`CurrentTransport`) and
an event of a closed one to run no handler (`ClosedIsSilent`): whichever event it is,
the step changes nothing (`LateEventIgnored`). `ReducerSteps` states
once what the reducer makes of each state; `FreshHolds`, `DetachedHolds` and
`LossHolds` prove what the actions share: a new transport, none, and a loss.

**Only model-checked.** All liveness properties (`StreamEnds`, `PollReturns`,
`QueuedOfferSent`, `DisconnectedReaped`, `RefusedIsClosed`, `StopCompletes`,
`ListensUnlessLockedOut`, `StopReturns`, `ServiceListens`, `ScreenCatchesUp`,
`AcknowledgedIsAttempted`, `RetriesEnd`): liveness under fairness is out of the
prover's reach. Every safety property of a passing run, invariant or action property,
is stated by a theorem, and so are both refinements.

## 5. Not modelled

SDP and ICE in detail (negotiation succeeds or fails, a link goes up and down);
HTTP, JSON, TLS; the text of messages; SQL beyond what a statement does to a row;
the platforms' keyboard interfaces; user interfaces, tray, translations, telemetry,
packaging. The rate limiter is one step under one lock, without order or
interleaving, and its unit tests reach its comparisons. That a write to the phone's
storage fails silently is left out, as are device names, addresses and the delays
between key events.

The lost answer (`AnswerFailed`, the deaf channel) is in the answerer, but what it
means for the phone would need a composition of phone, server and desktop.

## 6. What is left

1. `PairingFlow`: phone, server (as `Rendezvous`) and desktop together, for the lost
   answer and the phone that reconnects.
2. Proofs: conditions under which further refuted claims of section 3 hold after all,
   as is done for `NotStartedTwice` and `NoInterleaving`.
