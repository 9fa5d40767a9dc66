--------------------------- MODULE DeviceRegistry --------------------------
(***************************************************************************)
(* The pairing server's devices: the table (store/device_repo.rs), the     *)
(* token cache in front of it (cache/mod.rs), the handlers that register   *)
(* and report (api/devices.rs) with their authentication (api/auth.rs),    *)
(* the batch writer of status reports (batch/mod.rs) and the collection    *)
(* of silent devices (main.rs).                                            *)
(*                                                                         *)
(* One SQL statement, one use of the cache's lock or one use of the        *)
(* writer's channel is a step; handlers interleave between them.  `now`    *)
(* counts spans longer than any request or flush.                          *)
(***************************************************************************)
EXTENDS Naturals, Sequences, FiniteSets

CONSTANTS
    Devices, Tokens,
    Clients,         \* whoever sends requests; each keeps the tokens it was told
    Requests,        \* requests that are handled at the same time
    QueueLimit,      \* capacity of the writer's channel
    Threshold,       \* buffered reports that are flushed at once
    CacheLimit,      \* max_tokens
    TokenTTL,        \* DEVICE_TOKEN_TTL
    OfflineAfter,    \* 2 * DEVICE_STATUS_INTERVAL
    Retention,       \* DEVICE_RETENTION
    MaxNow,          \* bound: time
    MaxReports,      \* bound: status reports
    MaxFaults,       \* bound: failed flushes and restarts of the server
    None

ASSUME RegistryAssumption ==
    /\ IsFiniteSet(Devices) /\ IsFiniteSet(Tokens) /\ IsFiniteSet(Clients)
    /\ QueueLimit \in Nat /\ Threshold \in Nat \ {0} /\ CacheLimit \in Nat \ {0}
    /\ TokenTTL \in Nat /\ OfflineAfter \in Nat /\ Retention \in Nat
    /\ MaxNow \in Nat /\ MaxReports \in Nat /\ MaxFaults \in Nat

ASSUME NoneAssumption ==
    /\ None \notin Tokens \cup Devices \cup Clients
    /\ None \notin [tok : Tokens, issued : Nat, seen : Nat, online : BOOLEAN]

VARIABLES
    table,     \* the devices table: a row or None
    cache,     \* token -> device, or None
    req,       \* the requests being handled
    known,     \* the tokens each client was told
    queue,     \* the writer's channel
    buf,       \* the writer's buffer
    now,
    accepted,  \* reports the channel took and no restart lost, oldest first
    written,   \* reports a flush committed, oldest first
    contact,   \* per device: when a request of it was last answered 200
    lost,      \* devices of which that request was a report the server dropped
    lapsed,    \* tokens that died without the cache being told: see Dies
    count      \* reports and faults so far

handlerVars == <<req, known>>
batchVars   == <<queue, buf, accepted, written>>
ghosts      == <<contact, lost, lapsed>>
vars == <<table, cache, handlerVars, batchVars, now, ghosts, count>>

Row == [tok : Tokens, issued : 0 .. MaxNow, seen : 0 .. MaxNow, online : BOOLEAN]
Report == [dev : Devices, ts : 0 .. MaxNow, n : 1 .. MaxReports]

(* row: the row a registration read; tok: the token it is to answer.        *)
Stages == {"free", "select", "insert", "reread", "rotate", "mark", "invalidate",
           "put", "auth", "find", "fill", "report"}
Request == [at : Stages, client : Clients \cup {None}, dev : Devices \cup {None},
            bearer : Tokens \cup {None}, tok : Tokens \cup {None},
            id : Devices \cup {None}]
Free == [at |-> "free", client |-> None, dev |-> None, bearer |-> None,
         tok |-> None, id |-> None]

TypeOK ==
    /\ table \in [Devices -> Row \cup {None}]
    /\ cache \in [Tokens -> Devices \cup {None}]
    /\ req \in [Requests -> Request]
    /\ known \in [Clients -> SUBSET Tokens]
    /\ queue \in Seq(Report) /\ Len(queue) <= QueueLimit
    /\ buf \in Seq(Report)
    /\ now \in 0 .. MaxNow
    /\ accepted \in Seq(Report) /\ written \in Seq(Report)
    /\ contact \in [Devices -> 0 .. MaxNow]
    /\ count \in [reports : 0 .. MaxReports, faults : 0 .. MaxFaults]
    /\ lost \subseteq Devices /\ lapsed \subseteq Tokens

Init ==
    /\ table = [d \in Devices |-> None]
    /\ cache = [t \in Tokens |-> None]
    /\ req = [r \in Requests |-> Free]
    /\ known = [c \in Clients |-> {}]
    /\ queue = <<>> /\ buf = <<>> /\ accepted = <<>> /\ written = <<>>
    /\ now = 0
    /\ contact = [d \in Devices |-> 0]
    /\ count = [reports |-> 0, faults |-> 0]
    /\ lost = {} /\ lapsed = {}

Go(r, at) == req' = [req EXCEPT ![r].at = at]
Done(r)   == req' = [req EXCEPT ![r] = Free]
Contacted(d) == contact' = [contact EXCEPT ![d] = now] /\ lost' = lost \ {d}

(* Tokens are random; one that is nowhere any more is as good as a new one. *)
InUse ==
    {table[d].tok : d \in {e \in Devices : table[e] # None}}
      \cup {t \in Tokens : cache[t] # None \/ \E c \in Clients : t \in known[c]}
      \cup {req[r].tok : r \in Requests} \cup {req[r].bearer : r \in Requests}
NewToken == CHOOSE t \in Tokens \ InUse : TRUE

(* A client sends a request, with a token it was told or with none.         *)
Accept(r, c, d, b, at, t) ==
    /\ req[r].at = "free"
    /\ b \in known[c] \cup {None}
    /\ req' = [req EXCEPT ![r] = [at |-> at, client |-> c, dev |-> d,
                                  bearer |-> b, tok |-> t, id |-> None]]

-----------------------------------------------------------------------------
(* POST /devices: register *)

register(r, c, d, b) ==
    /\ ~(Tokens \subseteq InUse)
    /\ Accept(r, c, d, b, "select", NewToken)
    /\ lapsed' = lapsed \ {NewToken}
    /\ UNCHANGED <<table, cache, known, batchVars, now, contact, lost, count>>

(* match_existing: the bearer must be the row's token.                      *)
Verified(r, row) == req[r].bearer # None /\ req[r].bearer = row.tok

match_existing_Discloses(r, row) ==
    \/ /\ now - row.issued > TokenTTL
       /\ Go(r, "rotate")
    \/ /\ ~(now - row.issued > TokenTTL)
       /\ req' = [req EXCEPT ![r].at = "mark", ![r].tok = row.tok]

match_existing(r, row) ==
    \/ /\ Verified(r, row) /\ now - row.issued > TokenTTL
       /\ Go(r, "rotate")
    \/ /\ Verified(r, row) /\ ~(now - row.issued > TokenTTL)
       /\ req' = [req EXCEPT ![r].at = "mark", ![r].tok = req[r].bearer]
    \/ ~Verified(r, row) /\ Done(r)

upsert(r) ==
    /\ req[r].at = "select"
    /\ LET d == req[r].dev
       IN \/ table[d] = None /\ Go(r, "insert")
          \/ table[d] # None /\ match_existing(r, table[d])
    /\ UNCHANGED <<table, cache, known, batchVars, now, ghosts, count>>

(* INSERT ... ON CONFLICT DO NOTHING.                                       *)
Insert(r) ==
    /\ req[r].at = "insert"
    /\ LET d == req[r].dev
       IN \/ /\ table[d] = None
             /\ table' = [table EXCEPT ![d] = [tok |-> req[r].tok, issued |-> now,
                                               seen |-> now, online |-> TRUE]]
             /\ Contacted(d) /\ Go(r, "put")
          \/ table[d] # None /\ Go(r, "reread") /\ UNCHANGED <<table, contact, lost>>
    /\ UNCHANGED <<cache, known, batchVars, now, lapsed, count>>

(* The row that won is read again; a row collected meanwhile is an error.   *)
Reread(r) ==
    /\ req[r].at = "reread"
    /\ LET d == req[r].dev
       IN \/ table[d] = None /\ Done(r)
          \/ table[d] # None /\ match_existing(r, table[d])
    /\ UNCHANGED <<table, cache, known, batchVars, now, ghosts, count>>

(* The cache is told of a token's death only by the request that rotates it  *)
(* with that token as its credential.  Another rotation of the row, a token  *)
(* that a request is about to cache after it died, and an UPDATE of a        *)
(* collected row leave a dead token in the cache.                            *)
AboutToCache(q, t) ==
    \/ q.at = "fill" /\ q.bearer = t
    \/ q.at \in {"mark", "invalidate", "put"} /\ q.tok = t
Dies(r, d) ==
    IF table[d] = None THEN {req[r].tok}
    ELSE {t \in {table[d].tok} :
            t # req[r].bearer \/ \E q \in Requests : AboutToCache(req[q], t)}

(* An UPDATE of a row that is gone changes nothing and is not noticed.      *)
Update(d, row) ==
    /\ table' = [table EXCEPT ![d] = IF @ = None THEN None ELSE row]
    /\ Contacted(d)

mark_online(r) ==
    /\ req[r].at = "mark"
    /\ LET d == req[r].dev
       IN Update(d, [table[d] EXCEPT !.seen = now, !.online = TRUE])
    /\ Go(r, "put")
    /\ UNCHANGED <<cache, known, batchVars, now, lapsed, count>>

rotate_token(r) ==
    /\ req[r].at = "rotate"
    /\ Update(req[r].dev, [tok |-> req[r].tok, issued |-> now,
                           seen |-> now, online |-> TRUE])
    /\ lapsed' = lapsed \cup Dies(r, req[r].dev)
    /\ Go(r, "invalidate")
    /\ UNCHANGED <<cache, known, batchVars, now, count>>

invalidate_token_Forgotten(r) ==
    /\ req[r].at = "invalidate"
    /\ Go(r, "put")
    /\ UNCHANGED <<table, cache, known, batchVars, now, ghosts, count>>

invalidate_token(r) ==
    /\ req[r].at = "invalidate"
    /\ cache' = [cache EXCEPT ![req[r].bearer] = None]
    /\ Go(r, "put")
    /\ UNCHANGED <<table, known, batchVars, now, ghosts, count>>

Cached(c) == {t \in Tokens : c[t] # None}

(* A full cache drops any one entry before it takes the next.               *)
put_token(t, d) ==
    \/ /\ Cardinality(Cached(cache)) < CacheLimit
       /\ cache' = [cache EXCEPT ![t] = d]
    \/ /\ Cardinality(Cached(cache)) >= CacheLimit
       /\ \E v \in Cached(cache) :
            cache' = [cache EXCEPT ![v] = None, ![t] = d]

(* The answer: the client learns the token, unless it is lost.              *)
AnswerToken(r) ==
    /\ req[r].at = "put"
    /\ put_token(req[r].tok, req[r].dev)
    /\ \/ known' = [known EXCEPT ![req[r].client] = @ \cup {req[r].tok}]
       \/ UNCHANGED known
    /\ Done(r)
    /\ UNCHANGED <<table, batchVars, now, ghosts, count>>

-----------------------------------------------------------------------------
(* PUT /devices/{id}/status: report_status *)

report_status(r, c, d, b) ==
    /\ b # None
    /\ Accept(r, c, d, b, "auth", None)
    /\ UNCHANGED <<table, cache, known, batchVars, now, ghosts, count>>

(* verify_token: the cache first, then the table, whose answer is cached.   *)
verify_token(r) ==
    /\ req[r].at = "auth"
    /\ LET id == cache[req[r].bearer]
       IN req' = [req EXCEPT ![r].at = IF id # None THEN "report" ELSE "find",
                             ![r].id = id]
    /\ UNCHANGED <<table, cache, known, batchVars, now, ghosts, count>>

find_id_by_token(r) ==
    /\ req[r].at = "find"
    /\ LET found == {d \in Devices : table[d] # None /\ table[d].tok = req[r].bearer}
       IN \/ \E d \in found : req' = [req EXCEPT ![r].at = "fill", ![r].id = d]
          \/ found = {} /\ Done(r)
    /\ UNCHANGED <<table, cache, known, batchVars, now, ghosts, count>>

FillCache(r) ==
    /\ req[r].at = "fill"
    /\ put_token(req[r].bearer, req[r].id)
    /\ Go(r, "report")
    /\ UNCHANGED <<table, known, batchVars, now, ghosts, count>>

(* A token of another device is refused; a full channel drops the report,    *)
(* which is answered 200 all the same.                                       *)
enqueue(r) ==
    /\ req[r].at = "report"
    /\ Done(r)
    /\ \/ /\ req[r].id = req[r].dev /\ Len(queue) < QueueLimit
          /\ count.reports < MaxReports
          /\ count' = [count EXCEPT !.reports = @ + 1]
          /\ LET item == [dev |-> req[r].dev, ts |-> now, n |-> count'.reports]
             IN queue' = Append(queue, item) /\ accepted' = Append(accepted, item)
          /\ Contacted(req[r].dev)
       \/ /\ req[r].id = req[r].dev /\ Len(queue) = QueueLimit
          /\ contact' = [contact EXCEPT ![req[r].dev] = now]
          /\ lost' = lost \cup {req[r].dev}
          /\ UNCHANGED <<count, queue, accepted>>
       \/ /\ req[r].id # req[r].dev
          /\ UNCHANGED <<count, queue, accepted, contact, lost>>
    /\ UNCHANGED <<table, cache, known, buf, written, now, lapsed>>

(* A handler ends early: its client hung up, and it is dropped at the await  *)
(* it is in, or its next statement returned an error.                        *)
Drop(r) ==
    /\ req[r].at # "free"
    /\ Done(r)
    /\ lapsed' = lapsed \cup {t \in {req[r].bearer} : req[r].at = "invalidate"}
    /\ UNCHANGED <<table, cache, known, batchVars, now, contact, lost, count>>

-----------------------------------------------------------------------------
(* BatchWriter *)

(* flush: one transaction; when it fails the buffer keeps its reports.      *)
LastOf(items, d) ==
    LET mine == {i \in DOMAIN items : items[i].dev = d}
    IN items[CHOOSE i \in mine : \A j \in mine : j <= i]

Reported(items, d) == table[d] # None /\ \E i \in DOMAIN items : items[i].dev = d

Applied_KeepsTime(items) == [d \in Devices |->
    IF Reported(items, d) THEN [table[d] EXCEPT !.online = TRUE] ELSE table[d]]

Applied(items) == [d \in Devices |->
    IF Reported(items, d)
    THEN [table[d] EXCEPT !.seen = LastOf(items, d).ts, !.online = TRUE]
    ELSE table[d]]

flush_ClearsFirst(items) ==
    /\ buf' = <<>>
    /\ \/ table' = Applied(items) /\ written' = written \o items /\ UNCHANGED count
       \/ /\ count.faults < MaxFaults
          /\ count' = [count EXCEPT !.faults = @ + 1]
          /\ UNCHANGED <<table, written>>

flush(items) ==
    \/ /\ table' = Applied(items)
       /\ written' = written \o items /\ buf' = <<>>
       /\ UNCHANGED count
    \/ /\ count.faults < MaxFaults
       /\ count' = [count EXCEPT !.faults = @ + 1]
       /\ buf' = items
       /\ UNCHANGED <<table, written>>

(* The tick drains the channel and flushes.                                 *)
FlushTick ==
    /\ queue # <<>> \/ buf # <<>>
    /\ queue' = <<>>
    /\ flush(buf \o queue)
    /\ UNCHANGED <<cache, handlerVars, accepted, now, ghosts>>

(* Between ticks reports are moved one by one, and flushed at the threshold. *)
Receive ==
    /\ queue # <<>>
    /\ queue' = Tail(queue)
    /\ LET items == Append(buf, Head(queue))
       IN \/ Len(items) < Threshold /\ buf' = items /\ UNCHANGED <<table, written, count>>
          \/ Len(items) >= Threshold /\ flush(items)
    /\ UNCHANGED <<cache, handlerVars, accepted, now, ghosts>>

-----------------------------------------------------------------------------
(* Background task, time and restart *)

mark_stale_offline ==
    /\ \E d \in Devices : table[d] # None /\ table[d].online /\ table[d].seen + OfflineAfter < now
    /\ table' = [d \in Devices |->
         IF table[d] # None /\ table[d].seen + OfflineAfter < now
         THEN [table[d] EXCEPT !.online = FALSE] ELSE table[d]]
    /\ UNCHANGED <<cache, handlerVars, batchVars, now, ghosts, count>>

delete_stale ==
    /\ \E d \in Devices : table[d] # None /\ table[d].seen + Retention < now
    /\ table' = [d \in Devices |->
         IF table[d] # None /\ table[d].seen + Retention < now THEN None ELSE table[d]]
    /\ lapsed' = lapsed \cup {table[d].tok : d \in {e \in Devices : table[e] # None /\ table'[e] = None}}
    /\ UNCHANGED <<cache, handlerVars, batchVars, now, contact, lost, count>>

(* One round of the clean-up task; handlers may run between its statements. *)
Collect == mark_stale_offline \/ delete_stale

(* No request, and no flush that fails now and then, takes that long.       *)
Tick ==
    /\ now < MaxNow
    /\ \A r \in Requests : req[r] = Free
    /\ queue = <<>> /\ buf = <<>>
    /\ now' = now + 1
    /\ UNCHANGED <<table, cache, handlerVars, batchVars, ghosts, count>>

Pending(d) == \E i \in DOMAIN (buf \o queue) : (buf \o queue)[i].dev = d

(* The table stays; cache, channel, buffer and requests are gone.           *)
Restart ==
    /\ count.faults < MaxFaults
    /\ count' = [count EXCEPT !.faults = @ + 1]
    /\ cache' = [t \in Tokens |-> None]
    /\ req' = [r \in Requests |-> Free]
    /\ queue' = <<>> /\ buf' = <<>> /\ accepted' = written
    /\ lost' = lost \cup {d \in Devices : Pending(d)}
    /\ lapsed' = {}
    /\ UNCHANGED <<table, known, written, now, contact>>

Handle(r) ==
    \/ upsert(r) \/ Insert(r) \/ Reread(r) \/ mark_online(r) \/ rotate_token(r)
    \/ invalidate_token(r) \/ AnswerToken(r)
    \/ verify_token(r) \/ find_id_by_token(r) \/ FillCache(r) \/ enqueue(r)
    \/ Drop(r)

Send(r) == \E c \in Clients, d \in Devices, b \in Tokens \cup {None} :
    register(r, c, d, b) \/ report_status(r, c, d, b)

Next ==
    \/ \E r \in Requests : Send(r) \/ Handle(r)
    \/ FlushTick \/ Receive
    \/ Collect \/ Tick \/ Restart

Spec == Init /\ [][Next]_vars

-----------------------------------------------------------------------------
(* Properties *)

(* device_repo.rs:8 "never told to a party without the credential": of all  *)
(* clients that register one id, at once or one after the other, at most    *)
(* one knows the token in the row or is being told it.                      *)
Told(c, t) ==
    t \in known[c] \/ \E r \in Requests : req[r].client = c /\ req[r].at \in {"invalidate", "put"} /\ req[r].tok = t
OneHolder ==
    \A d \in Devices : table[d] # None =>
        Cardinality({c \in Clients : Told(c, table[d].tok)}) <= 1

(* auth.rs:55-69: whatever the cache answers without asking the table is     *)
(* what the table would answer, except for tokens the code let lapse: by     *)
(* two rotations of one row, by a request that caches a token after its      *)
(* death, by a handler that ends between the rotating UPDATE and             *)
(* invalidate_token, by a collected row; and for the instant between the     *)
(* UPDATE and the invalidation.  Nothing else keeps a dead token alive.      *)
CacheMatchesTable ==
    \A t \in Tokens : cache[t] # None =>
        \/ table[cache[t]] # None /\ table[cache[t]].tok = t
        \/ t \in lapsed
        \/ \E r \in Requests : req[r].at = "invalidate" /\ req[r].bearer = t

(* devices.rs:110 "the old token dies, the cache changes to the new one":    *)
(* refuted.  Each of the lapses above leaves an old token that is accepted.  *)
OldTokenDies ==
    (\A r \in Requests : req[r] = Free) =>
        \A t \in Tokens : cache[t] # None =>
            table[cache[t]] # None /\ table[cache[t]].tok = t

(* Every report taken is on its way or written, once and in the order taken, *)
(* through threshold flushes, ticks and failed transactions.                *)
ReportsInOrder == accepted = written \o buf \o queue

(* device_repo.rs:271-280, batch/mod.rs: whenever a device is shown as       *)
(* offline, either nothing it sent was answered 200 for OfflineAfter, or a   *)
(* report of it is on its way and its flush will show it online again, or    *)
(* the last thing it was answered 200 for is a report the server dropped,    *)
(* at a full channel or by a restart.                                        *)
OfflineIsSilent ==
    \A d \in Devices : table[d] # None /\ ~table[d].online =>
        contact[d] + OfflineAfter < now \/ Pending(d) \/ d \in lost

(* device_repo.rs:283 "a collected device registers again and recovers":    *)
(* refuted.  Its cached token is still accepted, so it never does.          *)
AcceptedDeviceExists ==
    \A r \in Requests : req[r].at = "report" /\ req[r].id = req[r].dev => table[req[r].dev] # None
=============================================================================
