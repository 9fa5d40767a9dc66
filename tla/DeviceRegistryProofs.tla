------------------------ MODULE DeviceRegistryProofs -----------------------
(***************************************************************************)
(* Theorems about DeviceRegistry, for any number of devices, clients,      *)
(* requests and tokens and for all limits and durations.                   *)
(***************************************************************************)
EXTENDS DeviceRegistry, SequenceTheorems, FiniteSetTheorems, WellFoundedInduction, TLAPS

-----------------------------------------------------------------------------
(* What the helpers return.                                                *)

\* Of the reports of a device in the buffer there is a last one.
LEMMA LastOfItem ==
    ASSUME NEW items \in Seq(Report), NEW d, \E i \in DOMAIN items : items[i].dev = d
    PROVE  \E i \in DOMAIN items : LastOf(items, d) = items[i] /\ items[i].dev = d
<1> DEFINE mine == {i \in DOMAIN items : items[i].dev = d}
           T == {Len(items) - i : i \in mine}
           less == OpToRel(<, Nat)
<1>1. Len(items) \in Nat /\ DOMAIN items = 1 .. Len(items)
  BY LenProperties
<1>2. T \subseteq Nat /\ T # {}
  BY <1>1
<1>3. PICK x \in T : \A y \in T : ~(<<y, x>> \in less)
  <2> HIDE DEF T, less
  <2>1. IsWellFoundedOn(less, Nat)
    BY NatLessThanWellFounded DEF less
  <2>2. QED
    BY <1>2, <2>1, WFMin
<1>4. PICK k \in mine : x = Len(items) - k
  OBVIOUS
<1>5. ASSUME NEW j \in mine PROVE j <= k
  <2>1. Len(items) - j \in T /\ Len(items) - j \in Nat /\ x \in Nat
    BY <1>1, <1>2
  <2>2. ~(Len(items) - j < x)
    BY <1>3, <2>1 DEF OpToRel
  <2>3. QED
    BY <1>1, <1>4, <2>1, <2>2
<1>6. LastOf(items, d) = items[CHOOSE i \in mine : \A j \in mine : j <= i]
  BY DEF LastOf
<1>7. (CHOOSE i \in mine : \A j \in mine : j <= i) \in mine
  <2> HIDE DEF mine
  <2> QED
    BY <1>5
<1>8. QED
  BY <1>6, <1>7

LEMMA NewTokenFree == ASSUME ~(Tokens \subseteq InUse) PROVE NewToken \in Tokens \ InUse
  BY DEF NewToken

LEMMA RowNotNone == None \notin Row
<1>1. Row \subseteq [tok : Tokens, issued : Nat, seen : Nat, online : BOOLEAN]
  BY DEF Row
<1>2. QED
  BY <1>1, NoneAssumption

LEMMA RowUpdated ==
    ASSUME NEW row \in Row, NEW t \in 0 .. MaxNow, NEW b \in BOOLEAN
    PROVE  LET new == [row EXCEPT !.seen = t, !.online = b]
           IN new \in Row /\ new.tok = row.tok /\ new.seen = t /\ new.online = b
  BY DEF Row

LEMMA AppliedRows ==
    ASSUME table \in [Devices -> Row \cup {None}], NEW items \in Seq(Report)
    PROVE  /\ Applied(items) \in [Devices -> Row \cup {None}]
           /\ \A d \in Devices :
                /\ table[d] = None => Applied(items)[d] = None
                /\ table[d] # None =>
                     /\ Applied(items)[d] # None
                     /\ Applied(items)[d].tok = table[d].tok
<1> SUFFICES ASSUME NEW d \in Devices
             PROVE  LET a == Applied(items)[d] IN
                    /\ a \in Row \cup {None}
                    /\ table[d] = None => a = None
                    /\ table[d] # None => a # None /\ a.tok = table[d].tok
  BY DEF Applied
<1>1. CASE ~Reported(items, d)
  BY <1>1 DEF Applied
<1>2. CASE Reported(items, d)
  <2>1. table[d] # None /\ table[d] \in Row
    BY <1>2 DEF Reported
  <2>2. LastOf(items, d) \in Report
    BY <1>2, LastOfItem, ElementOfSeq, LenProperties DEF Reported
  <2>3. Applied(items)[d] = [table[d] EXCEPT !.seen = LastOf(items, d).ts, !.online = TRUE]
    BY <1>2 DEF Applied
  <2>4. LastOf(items, d).ts \in 0 .. MaxNow /\ TRUE \in BOOLEAN
    BY <2>2 DEF Report
  <2>5. Applied(items)[d] \in Row /\ Applied(items)[d].tok = table[d].tok
    <3> DEFINE new == [table[d] EXCEPT !.seen = LastOf(items, d).ts, !.online = TRUE]
    <3>1. new \in Row /\ new.tok = table[d].tok
      BY <2>1, <2>4, RowUpdated
    <3>2. QED
      BY <2>3, <3>1, Zenon
  <2>6. QED
    BY <2>1, <2>5, RowNotNone
<1>3. QED
  BY <1>1, <1>2

-----------------------------------------------------------------------------
(* Types.                                                                  *)

TableTypeOK == table \in [Devices -> Row \cup {None}] /\ cache \in [Tokens -> Devices \cup {None}]
RequestTypeOK == req \in [Requests -> Request] /\ known \in [Clients -> SUBSET Tokens]
BatchTypeOK ==
    /\ queue \in Seq(Report) /\ Len(queue) <= QueueLimit /\ buf \in Seq(Report)
    /\ accepted \in Seq(Report) /\ written \in Seq(Report)
ClockTypeOK ==
    /\ now \in 0 .. MaxNow /\ contact \in [Devices -> 0 .. MaxNow]
    /\ count \in [reports : 0 .. MaxReports, faults : 0 .. MaxFaults]
    /\ lost \subseteq Devices /\ lapsed \subseteq Tokens

LEMMA TypeParts == TypeOK <=> TableTypeOK /\ RequestTypeOK /\ BatchTypeOK /\ ClockTypeOK
  BY DEF TypeOK, TableTypeOK, RequestTypeOK, BatchTypeOK, ClockTypeOK

\* A request is at a stage with the data that stage needs.
StageOK(q) ==
    /\ q.at # "free" => q.client \in Clients /\ q.dev \in Devices
    /\ q.at \in {"select", "insert", "reread", "rotate", "mark", "invalidate", "put"}
         => q.tok \in Tokens
    /\ q.at \in {"rotate", "mark", "invalidate", "auth", "find", "fill"} => q.bearer \in Tokens
    /\ q.at \in {"fill", "report"} => q.id \in Devices
RequestsOK == RequestTypeOK /\ \A r \in Requests : StageOK(req[r])

LEMMA FreeOK == Free \in Request /\ StageOK(Free)
  BY DEF Free, Request, Stages, StageOK

LEMMA ReplaceRequest ==
    ASSUME RequestsOK, NEW r \in Requests, NEW q \in Request, StageOK(q),
           req' = [req EXCEPT ![r] = q], known' \in [Clients -> SUBSET Tokens]
    PROVE  RequestsOK'
  BY DEF RequestsOK, RequestTypeOK, StageOK

LEMMA GoOK ==
    ASSUME RequestsOK, NEW r \in Requests, NEW at \in Stages, Go(r, at),
           StageOK([req[r] EXCEPT !.at = at]), known' \in [Clients -> SUBSET Tokens]
    PROVE  RequestsOK'
<1>1. [req[r] EXCEPT !.at = at] \in Request
  BY DEF RequestsOK, RequestTypeOK, Request
<1>2. req' = [req EXCEPT ![r] = [req[r] EXCEPT !.at = at]]
  BY DEF Go
<1>3. QED
  BY <1>1, <1>2, ReplaceRequest

LEMMA DoneOK ==
    ASSUME RequestsOK, NEW r \in Requests, Done(r), known' \in [Clients -> SUBSET Tokens]
    PROVE  RequestsOK'
  BY FreeOK, ReplaceRequest DEF Done

LEMMA AcceptOK ==
    ASSUME RequestsOK, NEW r \in Requests, NEW c \in Clients, NEW d \in Devices,
           NEW b \in Tokens \cup {None}, NEW at \in {"select", "auth"},
           NEW t \in Tokens \cup {None}, Accept(r, c, d, b, at, t), UNCHANGED known,
           at = "select" => t \in Tokens, at = "auth" => b \in Tokens
    PROVE  RequestsOK'
<1> DEFINE q == [at |-> at, client |-> c, dev |-> d, bearer |-> b, tok |-> t, id |-> None]
<1>1. q \in Request /\ StageOK(q)
  BY DEF Request, Stages, StageOK
<1>2. req' = [req EXCEPT ![r] = q] /\ known' \in [Clients -> SUBSET Tokens]
  BY DEF Accept, RequestsOK, RequestTypeOK
<1> HIDE DEF q
<1>3. QED
  BY <1>1, <1>2, ReplaceRequest

LEMMA MatchOK ==
    ASSUME RequestsOK, NEW r \in Requests, req[r].at \in {"select", "reread"}, NEW row \in Row,
           match_existing(r, row), UNCHANGED known
    PROVE  RequestsOK'
<1>1. req[r] \in Request /\ StageOK(req[r]) /\ known' \in [Clients -> SUBSET Tokens]
  BY DEF RequestsOK, RequestTypeOK
<1>2. CASE Verified(r, row) /\ Go(r, "rotate")
  <2>1. req[r].bearer \in Tokens
    BY <1>1, <1>2 DEF Verified, Request
  <2>2. StageOK([req[r] EXCEPT !.at = "rotate"]) /\ "rotate" \in Stages
    BY <1>1, <2>1 DEF StageOK, Request, Stages
  <2>3. QED
    BY <1>1, <1>2, <2>2, GoOK
<1>3. CASE Verified(r, row) /\ req' = [req EXCEPT ![r].at = "mark", ![r].tok = req[r].bearer]
  <2> DEFINE q == [req[r] EXCEPT !.at = "mark", !.tok = req[r].bearer]
  <2>1. req[r].bearer \in Tokens
    BY <1>1, <1>3 DEF Verified, Request
  <2>2. q \in Request /\ StageOK(q)
    BY <1>1, <2>1 DEF StageOK, Request, Stages
  <2>3. req' = [req EXCEPT ![r] = q]
    BY <1>3
  <2> HIDE DEF q
  <2>4. QED
    BY <1>1, <2>2, <2>3, ReplaceRequest
<1>4. CASE Done(r)
  BY <1>1, <1>4, DoneOK
<1>5. QED
  BY <1>2, <1>3, <1>4 DEF match_existing

\* The steps that leave the requests alone.
Background == FlushTick \/ Receive \/ Collect \/ Tick

LEMMA BackgroundFrame == Background => UNCHANGED <<cache, req, known, contact>>
  BY DEF Background, FlushTick, Receive, Collect, mark_stale_offline, delete_stale, Tick, handlerVars,
         ghosts

LEMMA RequestStep == ASSUME TableTypeOK, RequestsOK, [Next]_vars PROVE RequestsOK'
<1>1. ASSUME NEW r \in Requests, Handle(r) PROVE RequestsOK'
  <2>1. req[r] \in Request /\ StageOK(req[r]) /\ known \in [Clients -> SUBSET Tokens]
    BY DEF RequestsOK, RequestTypeOK
  <2>2. req[r].at # "free" => table[req[r].dev] \in Row \cup {None}
    BY <2>1 DEF TableTypeOK, StageOK
  <2>3. CASE upsert(r) \/ Reread(r)
    <3>1. UNCHANGED known /\ req[r].at \in {"select", "reread"}
      BY <2>3 DEF upsert, Reread
    <3>2. CASE req[r].at = "select" /\ Go(r, "insert")
      <4>2. StageOK([req[r] EXCEPT !.at = "insert"]) /\ "insert" \in Stages
        BY <2>1, <3>2 DEF StageOK, Request, Stages
      <4>3. QED
        BY <2>1, <3>1, <3>2, <4>2, GoOK
    <3>3. CASE Done(r)
      BY <2>1, <3>1, <3>3, DoneOK
    <3>4. CASE table[req[r].dev] # None /\ match_existing(r, table[req[r].dev])
      <4>1. table[req[r].dev] \in Row
        BY <2>2, <3>1, <3>4
      <4>2. QED
        BY <3>1, <3>4, <4>1, MatchOK
    <3>5. QED
      BY <2>3, <3>2, <3>3, <3>4 DEF upsert, Reread
  <2>4. CASE Insert(r)
    <3>1. UNCHANGED known /\ req[r].at = "insert" /\ (Go(r, "put") \/ Go(r, "reread"))
      BY <2>4 DEF Insert
    <3>2. /\ StageOK([req[r] EXCEPT !.at = "put"]) /\ "put" \in Stages
          /\ StageOK([req[r] EXCEPT !.at = "reread"]) /\ "reread" \in Stages
      BY <2>1, <3>1 DEF StageOK, Request, Stages
    <3>3. QED
      BY <2>1, <3>1, <3>2, GoOK
  <2>5. CASE mark_online(r) \/ invalidate_token(r)
    <3>1. UNCHANGED known /\ req[r].at \in {"mark", "invalidate"} /\ Go(r, "put")
      BY <2>5 DEF mark_online, invalidate_token
    <3>2. StageOK([req[r] EXCEPT !.at = "put"]) /\ "put" \in Stages
      BY <2>1, <3>1 DEF StageOK, Request, Stages
    <3>3. QED
      BY <2>1, <3>1, <3>2, GoOK
  <2>6. CASE rotate_token(r)
    <3>1. UNCHANGED known /\ req[r].at = "rotate" /\ Go(r, "invalidate")
      BY <2>6 DEF rotate_token
    <3>2. StageOK([req[r] EXCEPT !.at = "invalidate"]) /\ "invalidate" \in Stages
      BY <2>1, <3>1 DEF StageOK, Request, Stages
    <3>3. QED
      BY <2>1, <3>1, <3>2, GoOK
  <2>7. CASE AnswerToken(r)
    <3>1. req[r].tok \in Tokens /\ req[r].client \in Clients
      BY <2>1, <2>7 DEF AnswerToken, StageOK
    <3>2. known' \in [Clients -> SUBSET Tokens] /\ Done(r)
      BY <2>1, <2>7, <3>1 DEF AnswerToken
    <3>3. QED
      BY <3>2, DoneOK
  <2>8. CASE verify_token(r)
    <3> DEFINE id == cache[req[r].bearer]
               at == IF id # None THEN "report" ELSE "find"
               q == [req[r] EXCEPT !.at = at, !.id = id]
    <3>1. UNCHANGED known /\ req[r].at = "auth" /\ req' = [req EXCEPT ![r] = q]
      BY <2>8 DEF verify_token
    <3>2. id \in Devices \cup {None} /\ req[r].bearer \in Tokens
      BY <2>1, <3>1 DEF StageOK, TableTypeOK
    <3>3. q \in Request /\ StageOK(q)
      <4> HIDE DEF id
      <4>1. at \in {"report", "find"} /\ (at = "report" => id \in Devices)
        BY <3>2
      <4> HIDE DEF at
      <4>2. QED
        BY <2>1, <3>1, <3>2, <4>1 DEF Request, Stages, StageOK
    <3> HIDE DEF q
    <3>4. QED
      BY <2>1, <3>1, <3>3, ReplaceRequest
  <2>9. CASE find_id_by_token(r)
    <3>1. UNCHANGED known /\ req[r].at = "find"
      BY <2>9 DEF find_id_by_token
    <3>2. CASE Done(r)
      BY <2>1, <3>1, <3>2, DoneOK
    <3>3. CASE \E d \in Devices : req' = [req EXCEPT ![r].at = "fill", ![r].id = d]
      <4>1. PICK d \in Devices : req' = [req EXCEPT ![r].at = "fill", ![r].id = d]
        BY <3>3
      <4> DEFINE q == [req[r] EXCEPT !.at = "fill", !.id = d]
      <4>2. q \in Request /\ StageOK(q) /\ req' = [req EXCEPT ![r] = q]
        BY <2>1, <3>1, <4>1 DEF Request, Stages, StageOK
      <4> HIDE DEF q
      <4>3. QED
        BY <2>1, <3>1, <4>2, ReplaceRequest
    <3>4. QED
      BY <2>9, <3>2, <3>3 DEF find_id_by_token
  <2>10. CASE FillCache(r)
    <3>1. UNCHANGED known /\ req[r].at = "fill" /\ Go(r, "report")
      BY <2>10 DEF FillCache
    <3>2. StageOK([req[r] EXCEPT !.at = "report"]) /\ "report" \in Stages
      BY <2>1, <3>1 DEF StageOK, Request, Stages
    <3>3. QED
      BY <2>1, <3>1, <3>2, GoOK
  <2>11. CASE enqueue(r) \/ Drop(r)
    BY <2>1, <2>11, DoneOK DEF enqueue, Drop
  <2>12. QED
    BY <1>1, <2>3, <2>4, <2>5, <2>6, <2>7, <2>8, <2>9, <2>10, <2>11 DEF Handle
<1>2. ASSUME NEW r \in Requests, Send(r) PROVE RequestsOK'
  <2>1. PICK c \in Clients, d \in Devices, b \in Tokens \cup {None} :
          register(r, c, d, b) \/ report_status(r, c, d, b)
    BY <1>2 DEF Send
  <2>2. CASE register(r, c, d, b)
    <3>1. NewToken \in Tokens /\ Accept(r, c, d, b, "select", NewToken) /\ UNCHANGED known
      BY <2>2, NewTokenFree DEF register
    <3>2. QED
      BY <3>1, AcceptOK
  <2>3. CASE report_status(r, c, d, b)
    <3>1. b \in Tokens /\ Accept(r, c, d, b, "auth", None) /\ UNCHANGED known
      BY <2>3 DEF report_status
    <3>2. QED
      BY <3>1, AcceptOK
  <2>4. QED
    BY <2>1, <2>2, <2>3
<1>3. ASSUME Restart PROVE RequestsOK'
  BY <1>3, FreeOK DEF Restart, RequestsOK, RequestTypeOK
<1>4. ASSUME Background \/ UNCHANGED vars PROVE RequestsOK'
  <2>1. UNCHANGED <<req, known>>
    BY <1>4, BackgroundFrame DEF vars, handlerVars
  <2>2. QED
    BY <2>1 DEF RequestsOK, RequestTypeOK
<1>5. QED
  BY <1>1, <1>2, <1>3, <1>4 DEF Next, Background

\* What the steps of a request do to the table and the cache.
LEMMA UpdateOK ==
    ASSUME TableTypeOK, NEW d \in Devices, NEW row, table[d] # None => row \in Row, Update(d, row)
    PROVE  table' \in [Devices -> Row \cup {None}]
  BY DEF Update, TableTypeOK

LEMMA PutOK ==
    ASSUME TableTypeOK, NEW t \in Tokens, NEW d \in Devices, put_token(t, d)
    PROVE  cache' \in [Tokens -> Devices \cup {None}]
  BY DEF put_token, TableTypeOK, Cached

\* The two counters stay within their bounds.
LEMMA FaultCounted ==
    ASSUME ClockTypeOK, count.faults < MaxFaults
    PROVE  [count EXCEPT !.faults = @ + 1] \in [reports : 0 .. MaxReports, faults : 0 .. MaxFaults]
<1>1. count \in [reports : 0 .. MaxReports, faults : 0 .. MaxFaults] /\ MaxFaults \in Nat
  BY RegistryAssumption DEF ClockTypeOK
<1>2. count.faults + 1 \in 0 .. MaxFaults
  BY <1>1
<1>3. QED
  BY <1>1, <1>2

LEMMA ReportCounted ==
    ASSUME ClockTypeOK, count.reports < MaxReports
    PROVE  LET new == [count EXCEPT !.reports = @ + 1]
           IN new \in [reports : 0 .. MaxReports, faults : 0 .. MaxFaults]
              /\ new.reports \in 1 .. MaxReports
<1>1. count \in [reports : 0 .. MaxReports, faults : 0 .. MaxFaults] /\ MaxReports \in Nat
  BY RegistryAssumption DEF ClockTypeOK
<1>2. count.reports + 1 \in 0 .. MaxReports /\ count.reports + 1 \in 1 .. MaxReports
  BY <1>1
<1>3. QED
  BY <1>1, <1>2

LEMMA FlushOK ==
    ASSUME TableTypeOK, BatchTypeOK, ClockTypeOK, NEW items \in Seq(Report), flush(items)
    PROVE  /\ table' \in [Devices -> Row \cup {None}]
           /\ buf' \in Seq(Report) /\ written' \in Seq(Report)
           /\ count' \in [reports : 0 .. MaxReports, faults : 0 .. MaxFaults]
<1>1. CASE table' = Applied(items) /\ written' = written \o items /\ buf' = <<>> /\ count' = count
  <2>1. written' \in Seq(Report) /\ buf' \in Seq(Report)
    BY <1>1, ConcatProperties, EmptySeq DEF BatchTypeOK
  <2>2. QED
    BY <1>1, <2>1, AppliedRows DEF TableTypeOK, ClockTypeOK
<1>2. CASE /\ count.faults < MaxFaults /\ count' = [count EXCEPT !.faults = @ + 1]
           /\ buf' = items /\ UNCHANGED <<table, written>>
  <2>1. count' \in [reports : 0 .. MaxReports, faults : 0 .. MaxFaults]
    BY <1>2, FaultCounted
  <2>2. table' \in [Devices -> Row \cup {None}]
    BY <1>2 DEF TableTypeOK
  <2>3. buf' \in Seq(Report) /\ written' \in Seq(Report)
    BY <1>2 DEF BatchTypeOK
  <2>4. QED
    BY <2>1, <2>2, <2>3
<1>3. QED
  BY <1>1, <1>2 DEF flush

LEMMA TableStep == ASSUME TypeOK, RequestsOK, [Next]_vars PROVE TableTypeOK'
<1>0. TableTypeOK /\ BatchTypeOK /\ ClockTypeOK /\ now \in 0 .. MaxNow
  BY TypeParts DEF ClockTypeOK
<1>1. ASSUME NEW r \in Requests, Handle(r) PROVE TableTypeOK'
  <2>1. StageOK(req[r])
    BY DEF RequestsOK
  <2>2. CASE upsert(r) \/ Reread(r) \/ verify_token(r) \/ find_id_by_token(r) \/ enqueue(r)
               \/ Drop(r)
    BY <1>0, <2>2 DEF upsert, Reread, verify_token, find_id_by_token, enqueue, Drop, TableTypeOK
  <2>3. CASE Insert(r)
    <3> DEFINE row == [tok |-> req[r].tok, issued |-> now, seen |-> now, online |-> TRUE]
    <3>1. row \in Row
      BY <1>0, <2>1, <2>3 DEF Insert, StageOK, Row
    <3>2. table' = table \/ table' = [table EXCEPT ![req[r].dev] = row]
      BY <2>3 DEF Insert
    <3> HIDE DEF row
    <3>3. QED
      BY <1>0, <2>3, <3>1, <3>2 DEF Insert, TableTypeOK
  <2>4. CASE mark_online(r)
    <3>1. req[r].dev \in Devices /\ UNCHANGED cache
      BY <2>1, <2>4 DEF mark_online, StageOK
    <3>2. table[req[r].dev] # None
            => [table[req[r].dev] EXCEPT !.seen = now, !.online = TRUE] \in Row
      <4>1. SUFFICES ASSUME table[req[r].dev] # None
                     PROVE  [table[req[r].dev] EXCEPT !.seen = now, !.online = TRUE] \in Row
        OBVIOUS
      <4>2. table[req[r].dev] \in Row
        BY <1>0, <3>1, <4>1 DEF TableTypeOK
      <4>3. QED
        BY <1>0, <4>2, RowUpdated
    <3>3. Update(req[r].dev, [table[req[r].dev] EXCEPT !.seen = now, !.online = TRUE])
      BY <2>4 DEF mark_online
    <3>4. table' \in [Devices -> Row \cup {None}]
      BY <1>0, <3>1, <3>2, <3>3, UpdateOK
    <3>5. QED
      BY <1>0, <3>1, <3>4 DEF TableTypeOK
  <2>5. CASE rotate_token(r)
    <3> DEFINE row == [tok |-> req[r].tok, issued |-> now, seen |-> now, online |-> TRUE]
    <3>1. row \in Row /\ req[r].dev \in Devices /\ UNCHANGED cache
      BY <1>0, <2>1, <2>5 DEF rotate_token, StageOK, Row
    <3>2. Update(req[r].dev, row)
      BY <2>5 DEF rotate_token
    <3> HIDE DEF row
    <3>3. QED
      BY <1>0, <3>1, <3>2, UpdateOK DEF TableTypeOK
  <2>6. CASE invalidate_token(r)
    BY <1>0, <2>6 DEF invalidate_token, TableTypeOK
  <2>7. CASE AnswerToken(r)
    BY <1>0, <2>1, <2>7, PutOK DEF AnswerToken, StageOK, TableTypeOK
  <2>8. CASE FillCache(r)
    BY <1>0, <2>1, <2>8, PutOK DEF FillCache, StageOK, TableTypeOK
  <2>9. QED
    BY <1>1, <2>2, <2>3, <2>4, <2>5, <2>6, <2>7, <2>8 DEF Handle
<1>2. ASSUME NEW r \in Requests, Send(r) PROVE TableTypeOK'
  BY <1>0, <1>2 DEF Send, register, report_status, TableTypeOK
<1>3. CASE Restart
  BY <1>0, <1>3 DEF Restart, TableTypeOK
<1>4. CASE FlushTick
  <2>1. buf \o queue \in Seq(Report) /\ flush(buf \o queue) /\ UNCHANGED cache
    BY <1>0, <1>4, ConcatProperties DEF FlushTick, BatchTypeOK
  <2>2. QED
    BY <1>0, <2>1, FlushOK DEF TableTypeOK
<1>5. CASE Receive
  <2>1. Append(buf, Head(queue)) \in Seq(Report) /\ UNCHANGED cache
    BY <1>0, <1>5, AppendProperties, HeadTailProperties DEF Receive, BatchTypeOK
  <2>2. table' = table \/ flush(Append(buf, Head(queue)))
    BY <1>5 DEF Receive
  <2>3. QED
    BY <1>0, <2>1, <2>2, FlushOK DEF TableTypeOK
<1>6. CASE Collect
  <2>1. CASE mark_stale_offline
    <3>1. \A d \in Devices : table[d] # None => [table[d] EXCEPT !.online = FALSE] \in Row
      BY <1>0 DEF TableTypeOK, Row
    <3>2. QED
      BY <1>0, <2>1, <3>1 DEF mark_stale_offline, TableTypeOK
  <2>2. CASE delete_stale
    BY <1>0, <2>2 DEF delete_stale, TableTypeOK
  <2>3. QED
    BY <1>6, <2>1, <2>2 DEF Collect
<1>7. CASE Tick \/ UNCHANGED vars
  BY <1>0, <1>7 DEF Tick, vars, TableTypeOK
<1>8. QED
  BY <1>1, <1>2, <1>3, <1>4, <1>5, <1>6, <1>7 DEF Next

LEMMA ClockStep == ASSUME TypeOK, RequestsOK, [Next]_vars PROVE ClockTypeOK'
<1> USE RegistryAssumption
<1>0. TableTypeOK /\ BatchTypeOK /\ ClockTypeOK
  BY TypeParts
<1>1. ASSUME NEW r \in Requests, Handle(r) PROVE ClockTypeOK'
  <2>0. req[r] \in Request /\ StageOK(req[r])
    BY DEF RequestsOK, RequestTypeOK
  <2>1. UNCHANGED now
    BY <1>1 DEF Handle, upsert, Insert, Reread, mark_online, rotate_token, invalidate_token,
                AnswerToken, verify_token, find_id_by_token, FillCache, enqueue, Drop
  <2>2. /\ contact' = contact \/ \E d : contact' = [contact EXCEPT ![d] = now]
        /\ lost' \subseteq lost \cup {d \in Devices : d = req[r].dev}
    <3>1. CASE Insert(r) \/ mark_online(r) \/ rotate_token(r)
      BY <3>1 DEF Insert, mark_online, rotate_token, Update, Contacted
    <3>2. CASE upsert(r) \/ Reread(r) \/ invalidate_token(r) \/ AnswerToken(r) \/ verify_token(r)
                 \/ find_id_by_token(r) \/ FillCache(r) \/ Drop(r)
      BY <3>2 DEF upsert, Reread, invalidate_token, AnswerToken, verify_token, find_id_by_token,
                  FillCache, Drop, ghosts
    <3>3. CASE enqueue(r)
      <4>1. req[r].dev \in Devices
        BY <2>0, <3>3 DEF enqueue, StageOK
      <4>2. QED
        BY <3>3, <4>1 DEF enqueue, Contacted
    <3>4. QED
      BY <1>1, <3>1, <3>2, <3>3 DEF Handle
  <2>3. \/ count' = count
        \/ count.reports < MaxReports /\ count' = [count EXCEPT !.reports = @ + 1]
    BY <1>1 DEF Handle, upsert, Insert, Reread, mark_online, rotate_token, invalidate_token,
                AnswerToken, verify_token, find_id_by_token, FillCache, enqueue, Drop
  <2>4. contact' \in [Devices -> 0 .. MaxNow] /\ lost' \subseteq Devices
    BY <1>0, <2>2 DEF ClockTypeOK
  <2>5. count' \in [reports : 0 .. MaxReports, faults : 0 .. MaxFaults]
    BY <1>0, <2>3, ReportCounted DEF ClockTypeOK
  <2>6. lapsed' \subseteq Tokens
    <3>1. CASE rotate_token(r)
      <4>1. req[r].dev \in Devices /\ req[r].tok \in Tokens
        BY <2>0, <3>1 DEF rotate_token, StageOK
      <4>2. table[req[r].dev] # None => table[req[r].dev].tok \in Tokens
        BY <1>0, <4>1 DEF TableTypeOK, Row
      <4>3. Dies(r, req[r].dev) \subseteq Tokens
        BY <4>1, <4>2 DEF Dies
      <4>4. QED
        BY <1>0, <3>1, <4>3 DEF rotate_token, ClockTypeOK
    <3>2. CASE Drop(r)
      BY <1>0, <2>0, <3>2 DEF Drop, StageOK, ClockTypeOK
    <3>3. CASE ~rotate_token(r) /\ ~Drop(r)
      <4>1. UNCHANGED lapsed
        BY <1>1, <3>3 DEF Handle, upsert, Insert, Reread, mark_online, invalidate_token, AnswerToken,
                          verify_token, find_id_by_token, FillCache, enqueue, ghosts
      <4>2. QED
        BY <1>0, <4>1 DEF ClockTypeOK
    <3>4. QED
      BY <3>1, <3>2, <3>3
  <2>7. QED
    BY <1>0, <2>1, <2>4, <2>5, <2>6 DEF ClockTypeOK
<1>2. ASSUME NEW r \in Requests, Send(r) PROVE ClockTypeOK'
  <2>1. UNCHANGED <<now, contact, lost, count>> /\ lapsed' \subseteq lapsed
    BY <1>2 DEF Send, register, report_status, ghosts
  <2>2. QED
    BY <1>0, <2>1 DEF ClockTypeOK
<1>3. CASE Restart
  <2>1. /\ UNCHANGED <<now, contact>> /\ count.faults < MaxFaults
        /\ count' = [count EXCEPT !.faults = @ + 1]
        /\ lost' = lost \cup {d \in Devices : Pending(d)} /\ lapsed' = {}
    BY <1>3 DEF Restart
  <2>2. count' \in [reports : 0 .. MaxReports, faults : 0 .. MaxFaults]
    BY <1>0, <2>1, FaultCounted
  <2>3. QED
    BY <1>0, <2>1, <2>2 DEF ClockTypeOK
<1>4. CASE FlushTick
  <2>1. buf \o queue \in Seq(Report) /\ flush(buf \o queue) /\ UNCHANGED <<now, ghosts>>
    BY <1>0, <1>4, ConcatProperties DEF FlushTick, BatchTypeOK
  <2>2. QED
    BY <1>0, <2>1, FlushOK DEF ClockTypeOK, ghosts
<1>5. CASE Receive
  <2>1. Append(buf, Head(queue)) \in Seq(Report) /\ UNCHANGED <<now, ghosts>>
    BY <1>0, <1>5, AppendProperties, HeadTailProperties DEF Receive, BatchTypeOK
  <2>2. count' = count \/ flush(Append(buf, Head(queue)))
    BY <1>5 DEF Receive
  <2>3. QED
    BY <1>0, <2>1, <2>2, FlushOK DEF ClockTypeOK, ghosts
<1>6. CASE mark_stale_offline \/ Tick \/ UNCHANGED vars
  <2>1. /\ UNCHANGED <<ghosts, count>>
        /\ now' = now \/ (now < MaxNow /\ now' = now + 1)
    BY <1>6 DEF mark_stale_offline, Tick, vars
  <2>2. now' \in 0 .. MaxNow
    BY <1>0, <2>1 DEF ClockTypeOK
  <2>3. QED
    BY <1>0, <2>1, <2>2 DEF ClockTypeOK, ghosts
<1>7. CASE delete_stale
  <2>1. /\ UNCHANGED <<now, contact, lost, count>>
        /\ lapsed' \subseteq lapsed \cup {table[d].tok : d \in {e \in Devices : table[e] # None}}
    BY <1>7 DEF delete_stale
  <2>2. \A d \in Devices : table[d] # None => table[d].tok \in Tokens
    BY <1>0 DEF TableTypeOK, Row
  <2>3. QED
    BY <1>0, <2>1, <2>2 DEF ClockTypeOK
<1>8. QED
  BY <1>1, <1>2, <1>3, <1>4, <1>5, <1>6, <1>7 DEF Next, Collect

-----------------------------------------------------------------------------
(* The way of a report.                                                    *)

LEMMA ConcatAppend ==
    ASSUME NEW s \in Seq(Report), NEW q \in Seq(Report), NEW e \in Report
    PROVE  Append(s \o q, e) = s \o Append(q, e)
<1>1. <<e>> \in Seq(Report) /\ s \o q \in Seq(Report)
  BY ConcatProperties
<1>2. Append(s \o q, e) = (s \o q) \o <<e>> /\ Append(q, e) = q \o <<e>>
  BY <1>1, AppendIsConcat
<1>3. (s \o q) \o <<e>> = s \o (q \o <<e>>)
  BY <1>1, ConcatAssociative
<1>4. QED
  BY <1>2, <1>3, Zenon

LEMMA HeadConcatTail ==
    ASSUME NEW S, NEW q \in Seq(S), q # <<>> PROVE q = <<Head(q)>> \o Tail(q)
<1>1. Len(q) \in Nat /\ Len(q) # 0
  BY LenProperties
<1>2. 1 \in 1 .. Len(q) /\ Len(q) \in 1 .. Len(q)
  BY <1>1
<1>3. SubSeq(q, 1, Len(q)) = <<q[1]>> \o SubSeq(q, 1 + 1, Len(q))
  BY <1>2, SubSeqRecursiveFirst
<1>4. SubSeq(q, 1, Len(q)) = q /\ Tail(q) = SubSeq(q, 2, Len(q)) /\ Head(q) = q[1] /\ 1 + 1 = 2
  BY SubSeqFull, TailIsSubSeq
<1>5. QED
  BY <1>3, <1>4

LEMMA MoveHead ==
    ASSUME NEW S, NEW b \in Seq(S), NEW q \in Seq(S), q # <<>>
    PROVE  Append(b, Head(q)) \o Tail(q) = b \o q
<1>1. Head(q) \in S /\ Tail(q) \in Seq(S)
  BY HeadTailProperties
<1>2. <<Head(q)>> \in Seq(S) /\ Append(b, Head(q)) = b \o <<Head(q)>>
  BY <1>1, AppendIsConcat
<1>3. (b \o <<Head(q)>>) \o Tail(q) = b \o (<<Head(q)>> \o Tail(q))
  BY <1>1, <1>2, ConcatAssociative
<1>4. QED
  BY <1>2, <1>3, HeadConcatTail, Zenon

\* Concatenation may be regrouped.  Named, because the provers lose themselves in
\* terms with several concatenations.
Grouped(w, b, q) == (w \o b) \o q = w \o (b \o q)

LEMMA Regroup == \A w, b, q \in Seq(Report) : Grouped(w, b, q)
<1>1. \A w, b, q \in Seq(Report) : (w \o b) \o q = w \o (b \o q)
  BY ConcatAssociative
<1>2. QED
  BY <1>1, Zenon DEF Grouped

ReportInv == BatchTypeOK /\ ReportsInOrder

\* A flush leaves what is written and what is not written in order.
LEMMA FlushOrder ==
    ASSUME BatchTypeOK, NEW items \in Seq(Report), NEW rest \in Seq(Report), flush(items),
           accepted = (written \o items) \o rest
    PROVE  /\ buf' \in Seq(Report) /\ written' \in Seq(Report)
           /\ accepted = (written' \o buf') \o rest
<1>1. CASE written' = written \o items /\ buf' = <<>>
  <2>1. written' \in Seq(Report)
    BY <1>1, ConcatProperties DEF BatchTypeOK
  <2>2. written' \o <<>> = written'
    BY <2>1, ConcatEmptySeq
  <2>3. QED
    BY <1>1, <2>1, <2>2, EmptySeq
<1>2. CASE written' = written /\ buf' = items
  BY <1>2 DEF BatchTypeOK
<1>3. QED
  BY <1>1, <1>2 DEF flush

LEMMA ReportStep == ASSUME TypeOK, RequestsOK, ReportInv, [Next]_vars PROVE ReportInv'
<1>0. /\ queue \in Seq(Report) /\ Len(queue) <= QueueLimit /\ buf \in Seq(Report)
      /\ accepted \in Seq(Report) /\ written \in Seq(Report)
      /\ accepted = (written \o buf) \o queue
      /\ written \o buf \in Seq(Report) /\ BatchTypeOK
  BY ConcatProperties DEF ReportInv, BatchTypeOK, ReportsInOrder
<1>1. CASE UNCHANGED batchVars
  BY <1>1 DEF ReportInv, BatchTypeOK, ReportsInOrder, batchVars
<1>2. ASSUME NEW r \in Requests, enqueue(r) PROVE ReportInv'
  <2>1. UNCHANGED <<buf, written>>
    BY <1>2 DEF enqueue
  <2>2. CASE UNCHANGED <<queue, accepted>>
    BY <2>1, <2>2 DEF ReportInv, BatchTypeOK, ReportsInOrder
  <2>3. CASE /\ req[r].id = req[r].dev /\ Len(queue) < QueueLimit /\ count.reports < MaxReports
             /\ count' = [count EXCEPT !.reports = @ + 1]
             /\ \E item : /\ item = [dev |-> req[r].dev, ts |-> now, n |-> count'.reports]
                          /\ queue' = Append(queue, item) /\ accepted' = Append(accepted, item)
    <3>1. req[r].dev \in Devices /\ now \in 0 .. MaxNow
      BY <1>2 DEF RequestsOK, StageOK, enqueue, TypeOK
    <3>2. count'.reports \in 1 .. MaxReports
      BY <2>3, ReportCounted, TypeParts
    <3>3. PICK item : /\ item = [dev |-> req[r].dev, ts |-> now, n |-> count'.reports]
                      /\ queue' = Append(queue, item) /\ accepted' = Append(accepted, item)
      BY <2>3
    <3>4. item \in Report
      BY <3>1, <3>2, <3>3 DEF Report
    <3>5. /\ queue' \in Seq(Report) /\ accepted' \in Seq(Report)
          /\ Len(queue') = Len(queue) + 1
      BY <1>0, <3>3, <3>4, AppendProperties
    <3>6. accepted' = (written \o buf) \o queue'
      <4>1. Append((written \o buf) \o queue, item) = (written \o buf) \o Append(queue, item)
        BY <1>0, <3>4, ConcatAppend
      <4>2. accepted' = Append((written \o buf) \o queue, item) /\ queue' = Append(queue, item)
        BY <1>0, <3>3, Zenon
      <4>3. QED
        BY <4>1, <4>2, Zenon
    <3>7. Len(queue') <= QueueLimit
      <4>1. Len(queue) \in Nat /\ QueueLimit \in Nat
        BY <1>0, LenProperties, RegistryAssumption
      <4>2. QED
        BY <2>3, <3>5, <4>1
    <3>8. QED
      BY <1>0, <2>1, <3>5, <3>6, <3>7 DEF ReportInv, BatchTypeOK, ReportsInOrder
  <2>4. QED
    BY <1>2, <2>2, <2>3 DEF enqueue
<1>3. CASE FlushTick
  <2>1. flush(buf \o queue) /\ queue' = <<>> /\ UNCHANGED accepted /\ buf \o queue \in Seq(Report)
    BY <1>0, <1>3, ConcatProperties DEF FlushTick
  <2>2. accepted = (written \o (buf \o queue)) \o <<>>
    <3>1. written \o (buf \o queue) \in Seq(Report)
      BY <1>0, <2>1, ConcatProperties
    <3>2. (written \o (buf \o queue)) \o <<>> = written \o (buf \o queue)
      BY <3>1, ConcatEmptySeq
    <3>3. Grouped(written, buf, queue)
      BY <1>0, Regroup
    <3>4. QED
      BY <1>0, <3>2, <3>3, Zenon DEF Grouped
  <2>3. /\ buf' \in Seq(Report) /\ written' \in Seq(Report)
        /\ accepted = (written' \o buf') \o <<>>
    BY <1>0, <2>1, <2>2, FlushOrder, EmptySeq
  <2>4. Len(queue') <= QueueLimit /\ queue' \in Seq(Report)
    BY <2>1, EmptySeq, RegistryAssumption
  <2>5. QED
    BY <1>0, <2>1, <2>3, <2>4 DEF ReportInv, BatchTypeOK, ReportsInOrder
<1>4. CASE Receive
  <2> DEFINE items == Append(buf, Head(queue))
  <2>1. queue # <<>> /\ queue' = Tail(queue) /\ UNCHANGED accepted
    BY <1>4 DEF Receive
  <2>2. Head(queue) \in Report /\ Tail(queue) \in Seq(Report) /\ Len(Tail(queue)) = Len(queue) - 1
    BY <1>0, <2>1, HeadTailProperties
  <2>3. items \in Seq(Report) /\ Len(queue') <= QueueLimit
    BY <1>0, <2>1, <2>2, AppendProperties, LenProperties, RegistryAssumption
  <2>4. (buf' = items /\ written' = written) \/ flush(items)
    BY <1>4 DEF Receive
  <2>5. accepted = (written \o items) \o Tail(queue)
    <3>1. (written \o items) \o Tail(queue) = (written \o buf) \o queue
      <4>1. items \o Tail(queue) = buf \o queue
        BY <1>0, <2>1, MoveHead
      <4>2. /\ written \in Seq(Report) /\ buf \in Seq(Report) /\ queue \in Seq(Report)
            /\ items \in Seq(Report) /\ Tail(queue) \in Seq(Report)
        BY <1>0, <2>2, <2>3
      <4> HIDE DEF items
      <4>3. Grouped(written, items, Tail(queue)) /\ Grouped(written, buf, queue)
        BY <4>2, Regroup, Zenon
      <4>4. QED
        BY <4>1, <4>3, Zenon DEF Grouped
    <3>2. QED
      BY <1>0, <3>1, Zenon
  <2> HIDE DEF items
  <2>6. /\ buf' \in Seq(Report) /\ written' \in Seq(Report)
        /\ accepted = (written' \o buf') \o Tail(queue)
    BY <1>0, <2>2, <2>3, <2>4, <2>5, FlushOrder
  <2>7. QED
    BY <1>0, <2>1, <2>2, <2>3, <2>6 DEF ReportInv, BatchTypeOK, ReportsInOrder
<1>5. CASE Restart
  <2>1. written \o <<>> = written /\ <<>> \in Seq(Report) /\ Len(<<>>) <= QueueLimit
    BY <1>0, ConcatEmptySeq, EmptySeq, RegistryAssumption
  <2>2. /\ accepted' = written /\ written' = written /\ buf' = <<>> /\ queue' = <<>>
    BY <1>5 DEF Restart
  <2>3. QED
    BY <1>0, <2>1, <2>2 DEF ReportInv, BatchTypeOK, ReportsInOrder
<1>6. ASSUME NEW r \in Requests, Handle(r) \/ Send(r), ~enqueue(r) PROVE UNCHANGED batchVars
  BY <1>6 DEF Handle, Send, upsert, Insert, Reread, mark_online, rotate_token, invalidate_token,
              AnswerToken, verify_token, find_id_by_token, FillCache, Drop, register, report_status
<1>7. Collect \/ Tick \/ UNCHANGED vars => UNCHANGED batchVars
  BY DEF Collect, mark_stale_offline, delete_stale, Tick, vars, batchVars
<1>8. QED
  BY <1>1, <1>2, <1>3, <1>4, <1>5, <1>6, <1>7 DEF Next

RegistryInv == TypeOK /\ RequestsOK /\ ReportInv

LEMMA RegistryInvariant == Spec => []RegistryInv
<1>1. Init => RegistryInv
  <2>1. ASSUME Init PROVE RegistryInv
    <3>1. TableTypeOK
      BY <2>1 DEF Init, TableTypeOK
    <3>2. RequestsOK
      BY <2>1, FreeOK DEF Init, RequestsOK, RequestTypeOK
    <3>3. ClockTypeOK
      BY <2>1, RegistryAssumption DEF Init, ClockTypeOK
    <3>4. <<>> \o <<>> = <<>> /\ <<>> \in Seq(Report) /\ Len(<<>>) <= QueueLimit
      BY ConcatEmptySeq, EmptySeq, RegistryAssumption
    <3>5. ReportInv
      BY <2>1, <3>4 DEF Init, ReportInv, BatchTypeOK, ReportsInOrder
    <3>6. QED
      BY <3>1, <3>2, <3>3, <3>5, TypeParts DEF RegistryInv, RequestsOK, ReportInv
  <2>2. QED
    BY <2>1
<1>2. RegistryInv /\ [Next]_vars => RegistryInv'
  <2>1. SUFFICES ASSUME RegistryInv, [Next]_vars PROVE RegistryInv'
    OBVIOUS
  <2>2. TableTypeOK' /\ RequestsOK' /\ ClockTypeOK' /\ ReportInv'
    BY <2>1, TypeParts, TableStep, RequestStep, ClockStep, ReportStep DEF RegistryInv
  <2>3. TypeOK'
    BY <2>2 DEF RequestsOK, ReportInv, TypeOK, TableTypeOK, RequestTypeOK, BatchTypeOK, ClockTypeOK
  <2>4. QED
    BY <2>2, <2>3 DEF RegistryInv
<1>3. QED
  BY <1>1, <1>2, PTL DEF Spec

\* Every variable keeps its type.
THEOREM TypeCorrect == Spec => []TypeOK
<1>1. RegistryInv => TypeOK
  BY DEF RegistryInv
<1>2. QED
  BY <1>1, RegistryInvariant, PTL

\* No report the channel took is lost, written twice or overtaken, whatever
\* flushes fail; only a restart forgets the ones not written yet.
THEOREM ReportOrder == Spec => []ReportsInOrder
<1>1. RegistryInv => ReportsInOrder
  BY DEF RegistryInv, ReportInv
<1>2. QED
  BY <1>1, RegistryInvariant, PTL

-----------------------------------------------------------------------------
(* Who knows a token.                                                      *)

\* A request that may still answer a new token holds one nobody else has.
Fresh(r) ==
    req[r].at \in {"select", "insert", "reread", "rotate"} =>
        /\ \A c \in Clients : req[r].tok \notin known[c]
        /\ \A q \in Requests \ {r} : req[q].tok # req[r].tok
\* A bearer token is one the client was told, and so is the token of a row that is
\* only marked.
Presented(r) ==
    /\ req[r].at # "free" => req[r].bearer \in known[req[r].client] \cup {None}
    /\ req[r].at = "mark" => req[r].tok \in known[req[r].client]
Single == \A t \in Tokens, c \in Clients, e \in Clients : Told(c, t) /\ Told(e, t) => c = e
HolderInv == (\A r \in Requests : Fresh(r) /\ Presented(r)) /\ Single

Unanswered == {"select", "insert", "reread", "rotate"}
Answering  == {"invalidate", "put"}

\* A step of request r to q that answers nothing yet.
LEMMA OneRequest ==
    ASSUME RequestsOK, HolderInv, NEW r \in Requests, NEW q,
           req' = [req EXCEPT ![r] = q], known' = known,
           \/ q.tok \in {req[r].tok, None}
           \/ \E c \in Clients : q.tok \in known[c]
           \/ \A p \in Requests : q.tok # req[p].tok,
           q.at \in Unanswered =>
               /\ \A c \in Clients : q.tok \notin known[c]
               /\ \A p \in Requests \ {r} : req[p].tok # q.tok,
           q.at # "free" => q.bearer \in known[q.client] \cup {None},
           q.at = "mark" => q.tok \in known[q.client],
           q.at \in Answering =>
               /\ q.client \in Clients
               /\ \/ q.tok \in known[q.client]
                  \/ /\ q.tok = req[r].tok /\ q.client = req[r].client
                     /\ req[r].at \in Answering \cup Unanswered
    PROVE  HolderInv'
<1> DEFINE told == q.at \in Answering
<1>1. /\ req \in [Requests -> Request] /\ req' \in [Requests -> Request \cup {q}]
      /\ req'[r] = q /\ \A p \in Requests \ {r} : req'[p] = req[p]
  BY DEF RequestsOK, RequestTypeOK
<1>2. ASSUME NEW p \in Requests PROVE Presented(p)'
  BY <1>1, <1>2 DEF HolderInv, Presented
<1>3. Fresh(r)'
  BY <1>1 DEF Fresh, Unanswered
<1>4. ASSUME NEW p \in Requests \ {r} PROVE Fresh(p)'
  <2>1. SUFFICES ASSUME req[p].at \in Unanswered PROVE req[p].tok # q.tok
    BY <1>1, <1>4, <2>1 DEF HolderInv, Fresh, Unanswered
  <2>2. /\ req[p].tok \in Tokens /\ \A c \in Clients : req[p].tok \notin known[c]
        /\ req[r].tok # req[p].tok
    BY <1>4, <2>1 DEF RequestsOK, StageOK, HolderInv, Fresh, Unanswered
  <2>3. QED
    BY <1>4, <2>2, NoneAssumption
<1>5. Single'
  <2>1. SUFFICES ASSUME NEW t \in Tokens, NEW c \in Clients, NEW e \in Clients, Told(c, t)', Told(e, t)'
                 PROVE  c = e
    BY DEF Single
  <2>2. ASSUME NEW x \in Clients, Told(x, t)'
        PROVE  Told(x, t) \/ (told /\ x = q.client /\ t = q.tok)
    BY <1>1, <2>2 DEF Told, Answering
  <2>3. ASSUME told, t = q.tok, ~Told(q.client, t), NEW x \in Clients, Told(x, t) PROVE FALSE
    <3>1. t = req[r].tok /\ q.client = req[r].client /\ req[r].at \in Answering \cup Unanswered
      BY <2>3 DEF Told
    <3>2. req[r].at \in Unanswered
      BY <2>3, <3>1 DEF Told, Answering
    <3>3. Fresh(r)
      BY DEF HolderInv
    <3>4. PICK p \in Requests : req[p].at \in Answering /\ req[p].tok = t
      BY <2>3, <3>1, <3>2, <3>3 DEF Told, Answering, Fresh, Unanswered
    <3>5. p # r
      BY <3>2, <3>4 DEF Answering, Unanswered
    <3>6. QED
      BY <3>1, <3>2, <3>3, <3>4, <3>5 DEF Fresh, Unanswered
  <2>4. Single
    BY DEF HolderInv
  <2>5. QED
    BY <2>1, <2>2, <2>3, <2>4 DEF Single
<1>6. QED
  BY <1>2, <1>3, <1>4, <1>5 DEF HolderInv

\* Ending a request answers nothing either.
LEMMA EndRequest ==
    ASSUME RequestsOK, HolderInv, NEW r \in Requests, Done(r), known' = known PROVE HolderInv'
  BY OneRequest DEF Done, Free, Unanswered, Answering

LEMMA AnswerHolder ==
    ASSUME RequestsOK, HolderInv, NEW r \in Requests, AnswerToken(r) PROVE HolderInv'
<1>1. /\ req[r].at = "put" /\ req[r].client \in Clients /\ req[r].tok \in Tokens
      /\ req' = [req EXCEPT ![r] = Free] /\ req \in [Requests -> Request]
      /\ known \in [Clients -> SUBSET Tokens]
      /\ \/ known' = [known EXCEPT ![req[r].client] = @ \cup {req[r].tok}]
         \/ known' = known
  BY DEF AnswerToken, Done, RequestsOK, RequestTypeOK, StageOK
<1>2. ASSUME NEW p \in Requests PROVE Presented(p)'
  <2>1. Presented(p) /\ StageOK(req[p])
    BY DEF HolderInv, RequestsOK
  <2>2. \A c \in Clients : known[c] \subseteq known'[c]
    BY <1>1
  <2>3. QED
    BY <1>1, <2>1, <2>2 DEF Presented, StageOK, Free
<1>3. ASSUME NEW p \in Requests PROVE Fresh(p)'
  <2>1. CASE p = r
    BY <1>1, <2>1 DEF Fresh, Free
  <2>2. CASE p # r
    <3>1. SUFFICES ASSUME req[p].at \in Unanswered
                   PROVE  /\ \A c \in Clients : req[p].tok \notin known'[c]
                          /\ \A q \in Requests \ {p} : req'[q].tok # req[p].tok
      BY <1>1, <2>2 DEF Fresh, Unanswered
    <3>2. /\ \A c \in Clients : req[p].tok \notin known[c]
          /\ \A q \in Requests \ {p} : req[q].tok # req[p].tok
          /\ req[p].tok \in Tokens
      BY <3>1 DEF HolderInv, Fresh, Unanswered, RequestsOK, StageOK
    <3>3. req[r].tok # req[p].tok
      BY <2>2, <3>2
    <3>4. QED
      BY <1>1, <3>2, <3>3, NoneAssumption DEF Free
  <2>3. QED
    BY <2>1, <2>2
<1>4. \A c \in Clients, t \in Tokens : Told(c, t)' => Told(c, t)
  BY <1>1 DEF Told, Free
<1>5. Single'
  BY <1>4 DEF HolderInv, Single
<1>6. QED
  BY <1>2, <1>3, <1>5 DEF HolderInv

\* Going to another stage with the same data.
LEMMA GoHolder ==
    ASSUME RequestsOK, HolderInv, NEW r \in Requests, NEW at \in Stages, Go(r, at), known' = known,
           req[r].at # "free",
           at \in Unanswered => req[r].at \in Unanswered,
           at # "mark",
           at \in Answering => req[r].at \in Answering \cup Unanswered \cup {"mark"}
    PROVE  HolderInv'
<1> DEFINE q == [req[r] EXCEPT !.at = at]
<1>1. req[r] \in Request /\ StageOK(req[r])
  BY DEF RequestsOK, RequestTypeOK
<1>2. /\ q.at = at /\ q.tok = req[r].tok /\ q.client = req[r].client /\ q.bearer = req[r].bearer
      /\ req' = [req EXCEPT ![r] = q]
  BY <1>1 DEF Go, Request
<1>3. Fresh(r) /\ Presented(r)
  BY DEF HolderInv
<1>4. q.at \in Unanswered =>
         /\ \A c \in Clients : q.tok \notin known[c]
         /\ \A p \in Requests \ {r} : req[p].tok # q.tok
  BY <1>2, <1>3 DEF Fresh, Unanswered
<1>5. q.bearer \in known[q.client] \cup {None}
  BY <1>2, <1>3 DEF Presented
<1>6. q.at \in Answering =>
        /\ q.client \in Clients
        /\ \/ q.tok \in known[q.client]
           \/ /\ q.tok = req[r].tok /\ q.client = req[r].client
              /\ req[r].at \in Answering \cup Unanswered
  BY <1>1, <1>2, <1>3 DEF Presented, StageOK
<1> HIDE DEF q
<1>7. QED
  BY <1>2, <1>4, <1>5, <1>6, OneRequest

LEMMA MatchHolder ==
    ASSUME RequestsOK, HolderInv, NEW r \in Requests, req[r].at \in {"select", "reread"}, NEW row,
           match_existing(r, row), known' = known
    PROVE  HolderInv'
<1>1. CASE Go(r, "rotate")
  BY <1>1, GoHolder DEF Stages, Unanswered, Answering
<1>2. CASE Verified(r, row) /\ req' = [req EXCEPT ![r].at = "mark", ![r].tok = req[r].bearer]
  <2> DEFINE q == [req[r] EXCEPT !.at = "mark", !.tok = req[r].bearer]
  <2>1. req[r] \in Request /\ StageOK(req[r]) /\ Presented(r)
    BY DEF RequestsOK, RequestTypeOK, HolderInv
  <2>2. /\ q.at = "mark" /\ q.tok = req[r].bearer /\ q.bearer = req[r].bearer
        /\ q.client = req[r].client /\ req' = [req EXCEPT ![r] = q]
    BY <1>2, <2>1 DEF Request
  <2>3. q.client \in Clients /\ q.tok \in known[q.client]
    BY <1>2, <2>1, <2>2 DEF Presented, StageOK, Verified
  <2> HIDE DEF q
  <2>4. QED
    BY <2>2, <2>3, OneRequest DEF Unanswered, Answering
<1>3. CASE Done(r)
  BY <1>3, EndRequest
<1>4. QED
  BY <1>1, <1>2, <1>3 DEF match_existing

LEMMA AcceptHolder ==
    ASSUME RequestsOK, HolderInv, NEW r \in Requests, NEW c \in Clients, NEW d, NEW b,
           NEW at \in {"select", "auth"}, NEW t, Accept(r, c, d, b, at, t), known' = known,
           at = "select" => t \in Tokens \ InUse, at = "auth" => t = None
    PROVE  HolderInv'
<1> DEFINE q == [at |-> at, client |-> c, dev |-> d, bearer |-> b, tok |-> t, id |-> None]
<1>1. /\ q.at = at /\ q.tok = t /\ q.client = c /\ q.bearer = b /\ b \in known[c] \cup {None}
      /\ req' = [req EXCEPT ![r] = q]
  BY DEF Accept
<1>2. at = "select" => (\A p \in Requests : t # req[p].tok) /\ (\A e \in Clients : t \notin known[e])
  BY DEF InUse
<1> HIDE DEF q
<1>3. QED
  BY <1>1, <1>2, OneRequest DEF Unanswered, Answering

LEMMA HolderStep == ASSUME RequestsOK, HolderInv, [Next]_vars PROVE HolderInv'
<1>1. ASSUME NEW r \in Requests, Handle(r) PROVE HolderInv'
  <2>1. CASE upsert(r) \/ Reread(r)
    <3>1. known' = known /\ req[r].at \in {"select", "reread"}
      BY <2>1 DEF upsert, Reread
    <3>2. \/ req[r].at = "select" /\ Go(r, "insert")
          \/ Done(r)
          \/ match_existing(r, table[req[r].dev])
      BY <2>1 DEF upsert, Reread
    <3>3. CASE req[r].at = "select" /\ Go(r, "insert")
      BY <3>1, <3>3, GoHolder DEF Stages, Unanswered, Answering
    <3>4. QED
      BY <3>1, <3>2, <3>3, EndRequest, MatchHolder
  <2>2. CASE Insert(r) \/ mark_online(r) \/ rotate_token(r) \/ invalidate_token(r) \/ FillCache(r)
    <3>1. known' = known
      BY <2>2 DEF Insert, mark_online, rotate_token, invalidate_token, FillCache
    <3>2. \/ req[r].at = "insert" /\ (Go(r, "put") \/ Go(r, "reread"))
          \/ req[r].at \in {"mark", "invalidate"} /\ Go(r, "put")
          \/ req[r].at = "rotate" /\ Go(r, "invalidate")
          \/ req[r].at = "fill" /\ Go(r, "report")
      BY <2>2 DEF Insert, mark_online, rotate_token, invalidate_token, FillCache
    <3>3. QED
      BY <3>1, <3>2, GoHolder DEF Stages, Unanswered, Answering
  <2>3. CASE AnswerToken(r)
    BY <2>3, AnswerHolder
  <2>4. CASE verify_token(r) \/ find_id_by_token(r)
    <3>1. known' = known /\ req[r].at \in {"auth", "find"} /\ req[r] \in Request
      BY <2>4 DEF verify_token, find_id_by_token, RequestsOK, RequestTypeOK
    <3>2. CASE \E at \in {"report", "find", "fill"} : \E id :
                 req' = [req EXCEPT ![r].at = at, ![r].id = id]
      <4>0. PICK at \in {"report", "find", "fill"} : \E id :
              req' = [req EXCEPT ![r].at = at, ![r].id = id]
        BY <3>2
      <4>1. PICK id : req' = [req EXCEPT ![r].at = at, ![r].id = id]
        BY <4>0
      <4> DEFINE q == [req[r] EXCEPT !.at = at, !.id = id]
      <4>2. /\ q.at = at /\ q.tok = req[r].tok /\ q.bearer = req[r].bearer
            /\ q.client = req[r].client /\ req' = [req EXCEPT ![r] = q]
        BY <3>1, <4>1 DEF Request
      <4>3. q.bearer \in known[q.client] \cup {None}
        BY <3>1, <4>2 DEF HolderInv, Presented
      <4> HIDE DEF q
      <4>4. QED
        BY <3>1, <4>2, <4>3, OneRequest DEF Unanswered, Answering
    <3>3. CASE Done(r)
      BY <3>1, <3>3, EndRequest
    <3>4. QED
      BY <2>4, <3>2, <3>3 DEF verify_token, find_id_by_token
  <2>5. CASE enqueue(r) \/ Drop(r)
    BY <2>5, EndRequest DEF enqueue, Drop
  <2>6. QED
    BY <1>1, <2>1, <2>2, <2>3, <2>4, <2>5 DEF Handle
<1>2. ASSUME NEW r \in Requests, Send(r) PROVE HolderInv'
  <2>1. PICK c \in Clients, d \in Devices, b \in Tokens \cup {None} :
          register(r, c, d, b) \/ report_status(r, c, d, b)
    BY <1>2 DEF Send
  <2>2. CASE register(r, c, d, b)
    <3>1. NewToken \in Tokens \ InUse /\ Accept(r, c, d, b, "select", NewToken) /\ known' = known
      BY <2>2, NewTokenFree DEF register
    <3>2. QED
      BY <3>1, AcceptHolder
  <2>3. CASE report_status(r, c, d, b)
    BY <2>3, AcceptHolder DEF report_status
  <2>4. QED
    BY <2>1, <2>2, <2>3
<1>3. CASE Restart
  <2>1. known' = known /\ req' = [r \in Requests |-> Free]
    BY <1>3 DEF Restart
  <2>2. \A r \in Requests : Fresh(r)' /\ Presented(r)'
    BY <2>1 DEF Fresh, Presented, Free
  <2>3. \A c \in Clients, t \in Tokens : Told(c, t)' => Told(c, t)
    BY <2>1 DEF Told, Free
  <2>4. QED
    BY <2>2, <2>3 DEF HolderInv, Single
<1>4. CASE Background \/ UNCHANGED vars
  <2>1. UNCHANGED <<req, known>>
    BY <1>4, BackgroundFrame DEF vars, handlerVars
  <2>2. QED
    BY <2>1 DEF HolderInv, Fresh, Presented, Single, Told
<1>5. QED
  BY <1>1, <1>2, <1>3, <1>4 DEF Next, Background

\* However many clients register a device, and in whatever order their requests
\* interleave, at most one of them ever learns the token in its row.
THEOREM OneHolderOfToken == Spec => []OneHolder
<1>1. Init => HolderInv
  BY DEF Init, Free, HolderInv, Fresh, Presented, Single, Told
<1>2. RegistryInv /\ HolderInv /\ [Next]_vars => HolderInv'
  BY HolderStep DEF RegistryInv
<1>3. RegistryInv /\ HolderInv => OneHolder
  <2>1. SUFFICES ASSUME RegistryInv, HolderInv, NEW d \in Devices, table[d] # None
                 PROVE  Cardinality({c \in Clients : Told(c, table[d].tok)}) <= 1
    BY DEF OneHolder
  <2> DEFINE S == {c \in Clients : Told(c, table[d].tok)}
  <2>2. table[d].tok \in Tokens
    BY <2>1 DEF RegistryInv, TypeOK, Row
  <2>3. \A c, e \in S : c = e
    BY <2>1, <2>2 DEF HolderInv, Single
  <2> HIDE DEF S
  <2>4. CASE S = {}
    BY <2>4, FS_EmptySet DEF S
  <2>5. CASE S # {}
    <3>1. PICK c : c \in S
      BY <2>5
    <3>2. S = {c}
      BY <2>3, <3>1
    <3>3. QED
      BY <3>2, FS_Singleton DEF S
  <2>6. QED
    BY <2>4, <2>5
<1>4. QED
  BY <1>1, <1>2, <1>3, RegistryInvariant, PTL DEF Spec

-----------------------------------------------------------------------------
(* The cache and the table.                                                *)

\* Why the cache agrees with the table: a token is good for a device when it is
\* the one in the device's row, or one whose death the cache was never told.  What
\* is cached is good, or is about to be invalidated; and so is what a request is
\* about to cache, for the device it will cache it for.
HasToken(d, t) == table[d] # None /\ table[d].tok = t
Good(t, d) == HasToken(d, t) \/ t \in lapsed
Dying(t) == \E r \in Requests : req[r].at = "invalidate" /\ req[r].bearer = t
Target(q) == IF q.at = "fill" THEN q.id ELSE q.dev
Covered(t) == cache[t] # None => Good(t, cache[t]) \/ Dying(t)
Sound(q) == \A t \in Tokens : AboutToCache(q, t) => Good(t, Target(q))
CacheInv ==
    /\ \A t \in Tokens : Covered(t)
    /\ \A r \in Requests : Sound(req[r])

\* Steps after which every good token is good.
GoodAfter(t, d) == (table'[d] # None /\ table'[d].tok = t) \/ t \in lapsed'
GoodKept == \A d \in Devices, t \in Tokens : Good(t, d) => GoodAfter(t, d)

LEMMA TokensKept ==
    ASSUME lapsed \subseteq lapsed',
           \A d \in Devices : table[d] # None =>
               \/ table'[d] # None /\ table'[d].tok = table[d].tok
               \/ table[d].tok \in lapsed'
    PROVE  GoodKept
  BY DEF GoodKept, Good, HasToken, GoodAfter

LEMMA TargetOK ==
    ASSUME RequestsOK, NEW r \in Requests, NEW t \in Tokens, AboutToCache(req[r], t)
    PROVE  Target(req[r]) \in Devices
  BY DEF RequestsOK, StageOK, AboutToCache, Target

LEMMA SoundKept ==
    ASSUME RequestsOK, GoodKept, NEW r \in Requests, Sound(req[r]), UNCHANGED req[r]
    PROVE  Sound(req[r])'
<1>1. SUFFICES ASSUME NEW t \in Tokens, AboutToCache(req[r], t) PROVE GoodAfter(t, Target(req[r]))
  BY DEF Sound, AboutToCache, Target, Good, HasToken, GoodAfter
<1>2. Good(t, Target(req[r])) /\ Target(req[r]) \in Devices
  BY <1>1, TargetOK DEF Sound
<1>3. QED
  BY <1>2 DEF GoodKept, Good, HasToken, GoodAfter, Target

\* A step of one request, that leaves the cache alone.
LEMMA OneMoves ==
    ASSUME TableTypeOK, RequestsOK, CacheInv, GoodKept, UNCHANGED cache, NEW r \in Requests, NEW q,
           req' = [req EXCEPT ![r] = q],
           req[r].at = "invalidate" => req[r].bearer \in lapsed',
           \A t \in Tokens : AboutToCache(q, t) => GoodAfter(t, Target(q))
    PROVE  CacheInv'
<1>1. /\ req \in [Requests -> Request] /\ req'[r] = q
      /\ \A p \in Requests \ {r} : req'[p] = req[p]
  BY DEF RequestsOK, RequestTypeOK
<1>2. ASSUME NEW p \in Requests PROVE Sound(req[p])'
  <2>1. CASE p = r
    BY <1>1, <2>1 DEF Sound, AboutToCache, Target, Good, HasToken, GoodAfter
  <2>2. CASE p # r
    <3>1. Sound(req[p])
      BY DEF CacheInv
    <3>2. UNCHANGED req[p]
      BY <1>1, <2>2
    <3>3. QED
      BY <3>1, <3>2, SoundKept
  <2>3. QED
    BY <2>1, <2>2
<1>3. ASSUME NEW t \in Tokens PROVE Covered(t)'
  <2>1. SUFFICES ASSUME cache[t] # None PROVE GoodAfter(t, cache[t]) \/ Dying(t)'
    BY DEF Covered, Good, HasToken, GoodAfter
  <2>2. Covered(t) /\ cache[t] \in Devices
    BY <2>1 DEF CacheInv, TableTypeOK
  <2>3. CASE Good(t, cache[t])
    BY <2>2, <2>3 DEF GoodKept, Good, HasToken, GoodAfter
  <2>4. CASE Dying(t)
    BY <1>1, <2>4 DEF Dying, Good, GoodAfter
  <2>5. QED
    BY <2>1, <2>2, <2>3, <2>4 DEF Covered
<1>4. QED
  BY <1>2, <1>3 DEF CacheInv

\* A request goes on, with what it was about to cache or with nothing.
LEMMA GoesOn ==
    ASSUME TableTypeOK, RequestsOK, CacheInv, GoodKept, UNCHANGED cache, NEW r \in Requests,
           NEW at \in Stages, Go(r, at), req[r].at # "invalidate",
           at \in {"mark", "invalidate", "put", "fill"} => req[r].at = "mark" /\ at = "put"
    PROVE  CacheInv'
<1> DEFINE q == [req[r] EXCEPT !.at = at]
<1>1. req[r] \in Request
  BY DEF RequestsOK, RequestTypeOK
<1>2. /\ q.at = at /\ q.tok = req[r].tok /\ q.dev = req[r].dev
      /\ req' = [req EXCEPT ![r] = q]
  BY <1>1 DEF Go, Request
<1> HIDE DEF q
<1>3. ASSUME NEW t \in Tokens, AboutToCache(q, t) PROVE GoodAfter(t, Target(q))
  <2>1. req[r].at = "mark" /\ at = "put" /\ AboutToCache(req[r], t)
    BY <1>2, <1>3 DEF AboutToCache
  <2>2. Good(t, req[r].dev) /\ req[r].dev \in Devices
    BY <2>1, TargetOK DEF CacheInv, Sound, Target
  <2>3. GoodAfter(t, req[r].dev)
    BY <1>2, <2>2 DEF GoodKept, Good, HasToken, GoodAfter
  <2>4. Target(q) = req[r].dev
    BY <1>2, <2>1 DEF Target
  <2>5. QED
    BY <1>2, <2>2, <2>4 DEF GoodKept, Good, HasToken, GoodAfter, Target
<1>4. QED
  BY <1>2, <1>3, OneMoves

LEMMA RequestEnds ==
    ASSUME TableTypeOK, RequestsOK, CacheInv, GoodKept, UNCHANGED cache, NEW r \in Requests, Done(r),
           req[r].at = "invalidate" => req[r].bearer \in lapsed'
    PROVE  CacheInv'
<1>1. \A t \in Tokens : ~AboutToCache(Free, t)
  BY DEF AboutToCache, Free
<1>2. QED
  BY <1>1, OneMoves DEF Done

LEMMA MatchSound ==
    ASSUME TableTypeOK, RequestsOK, CacheInv, UNCHANGED <<table, lapsed, cache>>, NEW r \in Requests,
           req[r].at \in {"select", "reread"},
           table[req[r].dev] # None, match_existing(r, table[req[r].dev])
    PROVE  CacheInv'
<1>0. GoodKept /\ req[r] \in Request
  BY TokensKept DEF RequestsOK, RequestTypeOK
<1>1. CASE Go(r, "rotate")
  BY <1>0, <1>1, GoesOn DEF Stages
<1>2. CASE /\ Verified(r, table[req[r].dev])
           /\ req' = [req EXCEPT ![r].at = "mark", ![r].tok = req[r].bearer]
  <2> DEFINE q == [req[r] EXCEPT !.at = "mark", !.tok = req[r].bearer]
  <2>1. /\ q.at = "mark" /\ q.tok = req[r].bearer /\ q.dev = req[r].dev
        /\ req' = [req EXCEPT ![r] = q]
    BY <1>0, <1>2 DEF Request
  <2> HIDE DEF q
  <2>2. GoodAfter(req[r].bearer, req[r].dev)
    BY <1>2 DEF Verified, HasToken, GoodAfter
  <2>3. \A t \in Tokens : AboutToCache(q, t) => GoodAfter(t, Target(q))
    BY <2>1, <2>2 DEF AboutToCache, Target, Good, HasToken, GoodAfter
  <2>4. QED
    BY <1>0, <2>1, <2>3, OneMoves
<1>3. CASE Done(r)
  BY <1>0, <1>3, RequestEnds
<1>4. QED
  BY <1>1, <1>2, <1>3 DEF match_existing

\* A good token is cached.
LEMMA CachePut ==
    ASSUME TableTypeOK, RequestsOK, CacheInv, UNCHANGED <<table, lapsed>>, NEW r \in Requests, NEW q,
           NEW t \in Tokens, NEW d \in Devices, put_token(t, d), Good(t, d),
           req' = [req EXCEPT ![r] = q], req[r].at # "invalidate", q.at \in {"free", "report"}
    PROVE  CacheInv'
<1>0. GoodKept
  BY TokensKept
<1>1. /\ req \in [Requests -> Request] /\ req'[r] = q
      /\ \A p \in Requests \ {r} : req'[p] = req[p]
  BY DEF RequestsOK, RequestTypeOK
<1>2. ASSUME NEW p \in Requests PROVE Sound(req[p])'
  <2>1. CASE p = r
    BY <1>1, <2>1 DEF Sound, AboutToCache
  <2>2. CASE p # r
    <3>1. Sound(req[p]) /\ UNCHANGED req[p]
      BY <1>1, <2>2 DEF CacheInv
    <3>2. QED
      BY <1>0, <3>1, SoundKept
  <2>3. QED
    BY <2>1, <2>2
<1>3. ASSUME NEW u \in Tokens PROVE Covered(u)'
  <2>1. cache'[u] \in {cache[u], None} \/ (u = t /\ cache'[u] = d)
    BY DEF put_token, TableTypeOK
  <2>2. CASE cache'[u] = cache[u]
    <3>1. Covered(u)
      BY DEF CacheInv
    <3>2. Dying(u) => Dying(u)'
      BY <1>1 DEF Dying
    <3>3. Good(u, cache[u]) => GoodAfter(u, cache[u])
      BY <2>2 DEF Good, HasToken, GoodAfter
    <3>4. QED
      BY <2>2, <3>1, <3>2, <3>3 DEF Covered, Good, HasToken, GoodAfter
  <2>3. CASE u = t /\ cache'[u] = d
    BY <2>3 DEF Covered, Good, HasToken, GoodAfter
  <2>4. CASE cache'[u] = None
    BY <2>4 DEF Covered
  <2>5. QED
    BY <2>1, <2>2, <2>3, <2>4
<1>4. QED
  BY <1>2, <1>3 DEF CacheInv

\* The request that rotates a row puts its own token there; the old one was its
\* credential and will be invalidated, or lapses.
LEMMA Rotated ==
    ASSUME TypeOK, RequestsOK, CacheInv, NEW r \in Requests, rotate_token(r)
    PROVE  CacheInv'
<1> DEFINE d == req[r].dev
           row == [tok |-> req[r].tok, issued |-> now, seen |-> now, online |-> TRUE]
           q == [req[r] EXCEPT !.at = "invalidate"]
<1>1. /\ req[r] \in Request /\ req \in [Requests -> Request] /\ req[r].at = "rotate" /\ d \in Devices
      /\ req[r].tok \in Tokens /\ req[r].bearer \in Tokens
  BY DEF rotate_token, RequestsOK, RequestTypeOK, StageOK
<1>2. /\ table' = [table EXCEPT ![d] = IF @ = None THEN None ELSE row]
      /\ lapsed' = lapsed \cup Dies(r, d) /\ UNCHANGED cache
      /\ req' = [req EXCEPT ![r] = q]
  BY DEF rotate_token, Update, Go
<1>3. q.at = "invalidate" /\ q.tok = req[r].tok /\ q.dev = d /\ q.bearer = req[r].bearer
  BY <1>1 DEF Request
<1>4. row.tok = req[r].tok /\ row # None
  <2>1. row \in Row
    BY <1>1 DEF Row, TypeOK
  <2>2. QED
    BY <2>1, RowNotNone
<1> HIDE DEF row, q
<1>5. /\ table \in [Devices -> Row \cup {None}] /\ cache \in [Tokens -> Devices \cup {None}]
      /\ req'[r] = q /\ \A p \in Requests \ {r} : req'[p] = req[p]
  BY <1>1, <1>2 DEF TypeOK
<1>6. /\ \A e \in Devices \ {d} : table'[e] = table[e]
      /\ table[d] # None => table'[d] = row
      /\ table[d] = None => table'[d] = None /\ req[r].tok \in lapsed'
  BY <1>1, <1>2, <1>5 DEF Dies
<1>7. ASSUME NEW e \in Devices, NEW t \in Tokens, Good(t, e), ~GoodAfter(t, e)
      PROVE  e = d /\ table[d] # None /\ table[d].tok = t /\ t = req[r].bearer
             /\ \A p \in Requests : ~AboutToCache(req[p], t)
  <2>1. t \notin lapsed' /\ HasToken(e, t) /\ ~(table'[e] # None /\ table'[e].tok = t)
    BY <1>2, <1>7 DEF Good, HasToken, GoodAfter
  <2>2. e = d /\ table[d] # None /\ table[d].tok = t
    BY <1>6, <2>1 DEF HasToken, GoodAfter
  <2>3. t \notin Dies(r, d)
    BY <1>2, <2>1
  <2>4. QED
    BY <2>2, <2>3 DEF Dies
<1>8. ASSUME NEW p \in Requests PROVE Sound(req[p])'
  <2>1. CASE p = r
    <3>1. GoodAfter(req[r].tok, d)
      BY <1>1, <1>4, <1>6 DEF Good, HasToken, GoodAfter
    <3>2. SUFFICES ASSUME NEW t \in Tokens, AboutToCache(q, t) PROVE GoodAfter(t, d)
      BY <1>3, <1>5, <2>1 DEF Sound, AboutToCache, Target, Good, HasToken, GoodAfter
    <3>3. t = req[r].tok
      BY <1>3, <3>2 DEF AboutToCache
    <3>4. QED
      BY <3>1, <3>3
  <2>2. CASE p # r
    <3>1. req'[p] = req[p] /\ Sound(req[p])
      BY <1>5, <2>2 DEF CacheInv
    <3>2. SUFFICES ASSUME NEW t \in Tokens, AboutToCache(req[p], t), ~GoodAfter(t, Target(req[p]))
                   PROVE  FALSE
      BY <3>1 DEF Sound, AboutToCache, Target, Good, HasToken, GoodAfter
    <3>3. Good(t, Target(req[p])) /\ Target(req[p]) \in Devices
      BY <3>1, <3>2, TargetOK DEF Sound
    <3>4. Target(req[p])' = Target(req[p])
      BY <3>1 DEF Target
    <3>5. QED
      BY <1>7, <3>2, <3>3, <3>4 DEF Good, HasToken, GoodAfter
  <2>3. QED
    BY <2>1, <2>2
<1>9. ASSUME NEW t \in Tokens PROVE Covered(t)'
  <2>1. SUFFICES ASSUME cache[t] # None PROVE GoodAfter(t, cache[t]) \/ Dying(t)'
    BY <1>2 DEF Covered, Good, HasToken, GoodAfter
  <2>2. Covered(t) /\ cache[t] \in Devices
    BY <1>5, <2>1 DEF CacheInv
  <2>3. CASE Dying(t)
    BY <1>1, <1>5, <2>3 DEF Dying
  <2>4. CASE Good(t, cache[t])
    <3>1. CASE t = req[r].bearer
      BY <1>3, <1>5, <3>1 DEF Dying
    <3>2. CASE t # req[r].bearer
      BY <1>2, <1>7, <2>2, <2>4, <3>2 DEF Good, HasToken, GoodAfter
    <3>3. QED
      BY <3>1, <3>2
  <2>5. QED
    BY <2>1, <2>2, <2>3, <2>4 DEF Covered
<1>10. QED
  BY <1>8, <1>9 DEF CacheInv

\* A new request brings a token nobody is about to cache.
LEMMA RequestCame ==
    ASSUME TableTypeOK, RequestsOK, CacheInv, NEW r \in Requests, NEW c \in Clients, NEW d \in Devices,
           NEW b \in Tokens \cup {None}, register(r, c, d, b)
    PROVE  CacheInv'
<1>1. /\ NewToken \in Tokens \ InUse /\ lapsed' = lapsed \ {NewToken}
      /\ UNCHANGED <<table, cache>> /\ req[r].at = "free" /\ req \in [Requests -> Request]
  BY NewTokenFree DEF register, Accept, RequestsOK, RequestTypeOK
<1>2. \A t \in Tokens, e \in Devices : t # NewToken /\ Good(t, e) => GoodAfter(t, e)
  BY <1>1 DEF Good, HasToken, GoodAfter
<1>3. /\ req'[r].at = "select" /\ \A p \in Requests \ {r} : req'[p] = req[p]
  BY <1>1 DEF register, Accept
<1>4. ASSUME NEW p \in Requests PROVE Sound(req[p])'
  <2>1. CASE p = r
    BY <1>3, <2>1 DEF Sound, AboutToCache
  <2>2. CASE p # r
    <3>1. req'[p] = req[p] /\ Sound(req[p])
      BY <1>3, <2>2 DEF CacheInv
    <3>2. SUFFICES ASSUME NEW t \in Tokens, AboutToCache(req[p], t) PROVE GoodAfter(t, Target(req[p]))
      BY <3>1 DEF Sound, AboutToCache, Target, Good, HasToken, GoodAfter
    <3>3. t # NewToken
      BY <1>1, <3>2 DEF InUse, AboutToCache
    <3>4. Good(t, Target(req[p])) /\ Target(req[p]) \in Devices
      BY <3>1, <3>2, TargetOK DEF Sound
    <3>5. Target(req[p])' = Target(req[p])
      BY <3>1 DEF Target
    <3>6. QED
      BY <1>2, <3>3, <3>4, <3>5 DEF Good, HasToken, GoodAfter
  <2>3. QED
    BY <2>1, <2>2
<1>5. ASSUME NEW t \in Tokens PROVE Covered(t)'
  <2>1. SUFFICES ASSUME cache[t] # None PROVE GoodAfter(t, cache[t]) \/ Dying(t)'
    BY <1>1 DEF Covered, Good, HasToken, GoodAfter
  <2>2. t # NewToken /\ Covered(t) /\ cache[t] \in Devices
    BY <1>1, <2>1 DEF InUse, CacheInv, TableTypeOK
  <2>3. Dying(t) => Dying(t)'
    BY <1>1, <1>3 DEF Dying
  <2>4. QED
    BY <1>1, <1>2, <2>1, <2>2, <2>3 DEF Covered, Good, HasToken, GoodAfter
<1>6. QED
  BY <1>4, <1>5 DEF CacheInv

\* The steps of the server that handle no request.
LEMMA CacheBackground ==
    ASSUME TypeOK, RequestsOK, CacheInv, Background \/ UNCHANGED vars
    PROVE  CacheInv'
<1>0. TableTypeOK /\ BatchTypeOK /\ UNCHANGED <<req, cache>>
  BY TypeParts, BackgroundFrame DEF vars, handlerVars
<1>1. ASSUME GoodKept PROVE CacheInv'
  <2>1. ASSUME NEW r \in Requests PROVE Sound(req[r])'
    <3>1. Sound(req[r]) /\ UNCHANGED req[r]
      BY <1>0 DEF CacheInv
    <3>2. QED
      BY <1>1, <3>1, SoundKept
  <2>2. ASSUME NEW t \in Tokens PROVE Covered(t)'
    <3>1. Covered(t) /\ (cache[t] # None => cache[t] \in Devices)
      BY <1>0 DEF CacheInv, TableTypeOK
    <3>2. Dying(t)' <=> Dying(t)
      BY <1>0 DEF Dying
    <3>3. QED
      BY <1>0, <1>1, <3>1, <3>2 DEF Covered, GoodKept, Good, HasToken, GoodAfter
  <2>3. QED
    BY <2>1, <2>2 DEF CacheInv
<1>2. ASSUME NEW items \in Seq(Report), table' = Applied(items) \/ UNCHANGED table, UNCHANGED lapsed
      PROVE  GoodKept
  <2>1. \A d \in Devices : table[d] # None => table'[d] # None /\ table'[d].tok = table[d].tok
    BY <1>0, <1>2, AppliedRows DEF TableTypeOK
  <2>2. QED
    BY <1>2, <2>1, TokensKept
<1>3. CASE FlushTick
  <2>1. buf \o queue \in Seq(Report)
    BY <1>0, ConcatProperties DEF BatchTypeOK
  <2>2. (table' = Applied(buf \o queue) \/ UNCHANGED table) /\ UNCHANGED lapsed
    BY <1>3 DEF FlushTick, flush, ghosts
  <2>3. QED
    BY <1>1, <1>2, <2>1, <2>2
<1>4. CASE Receive
  <2>1. Append(buf, Head(queue)) \in Seq(Report)
    BY <1>0, <1>4, HeadTailProperties, AppendProperties DEF BatchTypeOK, Receive
  <2>2. (table' = Applied(Append(buf, Head(queue))) \/ UNCHANGED table) /\ UNCHANGED lapsed
    BY <1>4 DEF Receive, flush, ghosts
  <2>3. QED
    BY <1>1, <1>2, <2>1, <2>2
<1>5. CASE mark_stale_offline
  <2>1. ASSUME NEW d \in Devices, table[d] # None PROVE table'[d] # None /\ table'[d].tok = table[d].tok
    <3>1. table[d] \in Row /\ table'[d] \in {table[d], [table[d] EXCEPT !.online = FALSE]}
      BY <1>0, <1>5, <2>1 DEF TableTypeOK, mark_stale_offline
    <3>2. LET new == [table[d] EXCEPT !.online = FALSE] IN new \in Row /\ new.tok = table[d].tok
      BY <3>1 DEF Row
    <3>3. QED
      BY <3>1, <3>2, RowNotNone
  <2>2. UNCHANGED lapsed
    BY <1>5 DEF mark_stale_offline, ghosts
  <2>3. QED
    BY <1>1, <2>1, <2>2, TokensKept
<1>6. CASE delete_stale
  <2>1. ASSUME NEW d \in Devices, table[d] # None
        PROVE  \/ table'[d] # None /\ table'[d].tok = table[d].tok
               \/ table[d].tok \in lapsed'
    BY <1>6, <2>1 DEF delete_stale
  <2>2. lapsed \subseteq lapsed'
    BY <1>6 DEF delete_stale
  <2>3. QED
    BY <1>1, <2>1, <2>2, TokensKept
<1>7. CASE Tick \/ UNCHANGED vars
  <2>1. UNCHANGED <<table, lapsed>>
    BY <1>7 DEF Tick, vars, ghosts
  <2>2. QED
    BY <1>1, <2>1, TokensKept
<1>8. QED
  BY <1>3, <1>4, <1>5, <1>6, <1>7 DEF Background, Collect

LEMMA CacheStep == ASSUME TypeOK, RequestsOK, CacheInv, [Next]_vars PROVE CacheInv'
<1>0. TableTypeOK
  BY TypeParts
<1>1. ASSUME NEW r \in Requests, Handle(r) PROVE CacheInv'
  <2>1. req[r] \in Request /\ StageOK(req[r]) /\ req \in [Requests -> Request]
    BY DEF RequestsOK, RequestTypeOK
  <2>2. CASE upsert(r) \/ Reread(r)
    <3>1. UNCHANGED <<table, lapsed, cache>> /\ req[r].at \in {"select", "reread"} /\ GoodKept
      BY <2>2, TokensKept DEF upsert, Reread, ghosts
    <3>2. \/ Go(r, "insert") \/ Done(r)
          \/ table[req[r].dev] # None /\ match_existing(r, table[req[r].dev])
      BY <2>2 DEF upsert, Reread
    <3>3. CASE Go(r, "insert")
      BY <1>0, <3>1, <3>3, GoesOn DEF Stages
    <3>4. QED
      BY <1>0, <3>1, <3>2, <3>3, RequestEnds, MatchSound
  <2>3. CASE Insert(r)
    <3>1. req[r].at = "insert" /\ UNCHANGED <<cache, lapsed>> /\ req[r].dev \in Devices
      BY <2>1, <2>3 DEF Insert, StageOK
    <3>2. CASE UNCHANGED table /\ Go(r, "reread")
      BY <1>0, <3>1, <3>2, TokensKept, GoesOn DEF Stages
    <3>3. CASE table[req[r].dev] = None /\ table'[req[r].dev] # None
      <4> DEFINE q == [req[r] EXCEPT !.at = "put"]
      <4>1. /\ q.at = "put" /\ q.tok = req[r].tok /\ q.dev = req[r].dev
            /\ req' = [req EXCEPT ![r] = q]
        BY <2>1, <2>3, <3>3 DEF Insert, Go, Request
      <4>2. /\ table'[req[r].dev].tok = req[r].tok
            /\ \A e \in Devices \ {req[r].dev} : table'[e] = table[e]
        BY <1>0, <2>3, <3>1, <3>3 DEF Insert, TableTypeOK
      <4> HIDE DEF q
      <4>3. GoodKept
        BY <3>1, <3>3, <4>2, TokensKept
      <4>4. \A t \in Tokens : AboutToCache(q, t) => GoodAfter(t, Target(q))
        BY <3>3, <4>1, <4>2 DEF AboutToCache, Target, Good, HasToken, GoodAfter
      <4>5. QED
        BY <1>0, <3>1, <4>1, <4>3, <4>4, OneMoves
    <3>4. QED
      <4> DEFINE row == [tok |-> req[r].tok, issued |-> now, seen |-> now, online |-> TRUE]
      <4>1. row \in Row
        BY <2>1, <3>1 DEF Row, StageOK, TypeOK
      <4>2. row # None
        BY <4>1, RowNotNone
      <4>3. \/ UNCHANGED table /\ Go(r, "reread")
            \/ table[req[r].dev] = None /\ table' = [table EXCEPT ![req[r].dev] = row]
        BY <2>3 DEF Insert
      <4> HIDE DEF row
      <4>4. QED
        BY <1>0, <3>1, <3>2, <3>3, <4>2, <4>3 DEF TableTypeOK
  <2>4. CASE mark_online(r)
    <3>1. /\ req[r].at = "mark" /\ UNCHANGED <<cache, lapsed>> /\ Go(r, "put")
          /\ req[r].dev \in Devices
      BY <2>1, <2>4 DEF mark_online, StageOK
    <3>2. ASSUME NEW d \in Devices, table[d] # None PROVE table'[d] # None /\ table'[d].tok = table[d].tok
      <4> DEFINE new == [table[d] EXCEPT !.seen = now, !.online = TRUE]
      <4>1. table[d] \in Row
        BY <1>0, <3>2 DEF TableTypeOK
      <4>2. new \in Row /\ new.tok = table[d].tok
        BY <4>1, RowUpdated DEF TypeOK
      <4>3. table'[d] \in {table[d], new}
        BY <1>0, <2>4, <3>1, <3>2 DEF mark_online, Update, TableTypeOK
      <4> HIDE DEF new
      <4>4. QED
        BY <3>2, <4>2, <4>3, RowNotNone
    <3>3. QED
      BY <1>0, <3>1, <3>2, TokensKept, GoesOn DEF Stages
  <2>5. CASE rotate_token(r)
    BY <2>5, Rotated
  <2>6. CASE invalidate_token(r)
    <3> DEFINE q == [req[r] EXCEPT !.at = "put"]
    <3>1. /\ req[r].at = "invalidate" /\ UNCHANGED <<table, lapsed>> /\ req[r].bearer \in Tokens
          /\ cache' = [cache EXCEPT ![req[r].bearer] = None]
          /\ req' = [req EXCEPT ![r] = q]
      BY <2>1, <2>6 DEF invalidate_token, Go, StageOK, ghosts
    <3>2. q.at = "put" /\ q.tok = req[r].tok /\ q.dev = req[r].dev
      BY <2>1 DEF Request
    <3> HIDE DEF q
    <3>3. GoodKept /\ req'[r] = q /\ \A p \in Requests \ {r} : req'[p] = req[p]
      BY <2>1, <3>1, TokensKept
    <3>4. ASSUME NEW p \in Requests PROVE Sound(req[p])'
      <4>1. CASE p = r
        <5>1. \A t \in Tokens : AboutToCache(q, t) => AboutToCache(req[r], t) /\ Target(q) = Target(req[r])
          BY <3>1, <3>2 DEF AboutToCache, Target
        <5>2. Sound(req[r])
          BY DEF CacheInv
        <5>3. QED
          BY <3>1, <3>3, <4>1, <5>1, <5>2 DEF Sound, AboutToCache, Target, Good, HasToken, GoodAfter
      <4>2. CASE p # r
        <5>1. Sound(req[p]) /\ UNCHANGED req[p]
          BY <3>3, <4>2 DEF CacheInv
        <5>2. QED
          BY <3>3, <5>1, SoundKept
      <4>3. QED
        BY <4>1, <4>2
    <3>5. ASSUME NEW t \in Tokens PROVE Covered(t)'
      <4>1. CASE t = req[r].bearer
        BY <1>0, <3>1, <4>1 DEF Covered, TableTypeOK
      <4>2. CASE t # req[r].bearer
        <5>1. cache'[t] = cache[t] /\ Covered(t)
          BY <1>0, <3>1, <4>2 DEF TableTypeOK, CacheInv
        <5>2. Dying(t) => Dying(t)'
          BY <3>3, <4>2 DEF Dying
        <5>3. Good(t, cache[t]) => GoodAfter(t, cache[t])
          BY <3>1, <5>1 DEF Good, HasToken, GoodAfter
        <5>4. QED
          BY <5>1, <5>2, <5>3 DEF Covered, Good, HasToken, GoodAfter
      <4>3. QED
        BY <4>1, <4>2
    <3>6. QED
      BY <3>4, <3>5 DEF CacheInv
  <2>7. CASE AnswerToken(r)
    <3>1. /\ req[r].at = "put" /\ put_token(req[r].tok, req[r].dev) /\ UNCHANGED <<table, lapsed>>
          /\ req' = [req EXCEPT ![r] = Free] /\ req[r].tok \in Tokens /\ req[r].dev \in Devices
      BY <2>1, <2>7 DEF AnswerToken, Done, StageOK, ghosts
    <3>2. Good(req[r].tok, req[r].dev)
      BY <3>1 DEF CacheInv, Sound, AboutToCache, Target
    <3>3. Free.at = "free"
      BY DEF Free
    <3>4. QED
      BY <1>0, <3>1, <3>2, <3>3, CachePut
  <2>8. CASE verify_token(r) \/ find_id_by_token(r)
    <3>1. /\ req[r].at \in {"auth", "find"} /\ UNCHANGED <<table, cache, lapsed>> /\ GoodKept
      BY <2>8, TokensKept DEF verify_token, find_id_by_token, ghosts
    <3>2. CASE \E at \in {"report", "find", "fill"} : \E id :
                 /\ req' = [req EXCEPT ![r].at = at, ![r].id = id]
                 /\ at = "fill" => HasToken(id, req[r].bearer)
      <4>0. PICK at \in {"report", "find", "fill"} : \E id :
                 /\ req' = [req EXCEPT ![r].at = at, ![r].id = id]
                 /\ at = "fill" => HasToken(id, req[r].bearer)
        BY <3>2
      <4>1. PICK id : /\ req' = [req EXCEPT ![r].at = at, ![r].id = id]
                      /\ at = "fill" => HasToken(id, req[r].bearer)
        BY <4>0
      <4> DEFINE q == [req[r] EXCEPT !.at = at, !.id = id]
      <4>2. /\ q.at = at /\ q.id = id /\ q.bearer = req[r].bearer /\ req' = [req EXCEPT ![r] = q]
        BY <2>1, <4>1 DEF Request
      <4> HIDE DEF q
      <4>3. \A t \in Tokens : AboutToCache(q, t) => GoodAfter(t, Target(q))
        BY <3>1, <4>1, <4>2 DEF AboutToCache, Target, Good, HasToken, GoodAfter
      <4>4. QED
        BY <1>0, <3>1, <4>2, <4>3, OneMoves
    <3>3. CASE Done(r)
      BY <1>0, <3>1, <3>3, RequestEnds
    <3>4. QED
      BY <2>8, <3>2, <3>3 DEF verify_token, find_id_by_token, HasToken, GoodAfter
  <2>9. CASE FillCache(r)
    <3> DEFINE q == [req[r] EXCEPT !.at = "report"]
    <3>1. /\ req[r].at = "fill" /\ put_token(req[r].bearer, req[r].id) /\ UNCHANGED <<table, lapsed>>
          /\ req' = [req EXCEPT ![r] = q] /\ req[r].bearer \in Tokens /\ req[r].id \in Devices
      BY <2>1, <2>9 DEF FillCache, Go, StageOK, ghosts
    <3>2. Good(req[r].bearer, req[r].id)
      BY <3>1 DEF CacheInv, Sound, AboutToCache, Target
    <3>3. q.at = "report"
      BY <2>1 DEF Request
    <3> HIDE DEF q
    <3>4. QED
      BY <1>0, <3>1, <3>2, <3>3, CachePut
  <2>10. CASE enqueue(r) \/ Drop(r)
    <3>1. /\ UNCHANGED <<table, cache>> /\ lapsed \subseteq lapsed' /\ Done(r)
          /\ req[r].at = "invalidate" => req[r].bearer \in lapsed'
      BY <2>10 DEF enqueue, Drop
    <3>2. QED
      BY <1>0, <3>1, TokensKept, RequestEnds
  <2>11. QED
    BY <1>1, <2>2, <2>3, <2>4, <2>5, <2>6, <2>7, <2>8, <2>9, <2>10 DEF Handle
<1>2. ASSUME NEW r \in Requests, Send(r) PROVE CacheInv'
  <2>1. PICK c \in Clients, d \in Devices, b \in Tokens \cup {None} :
          register(r, c, d, b) \/ report_status(r, c, d, b)
    BY <1>2 DEF Send
  <2>2. CASE register(r, c, d, b)
    BY <1>0, <2>2, RequestCame
  <2>3. CASE report_status(r, c, d, b)
    <3> DEFINE q == [at |-> "auth", client |-> c, dev |-> d, bearer |-> b, tok |-> None, id |-> None]
    <3>1. /\ UNCHANGED <<table, cache, lapsed>> /\ req' = [req EXCEPT ![r] = q] /\ req[r].at = "free"
      BY <2>3 DEF report_status, Accept, ghosts
    <3>2. \A t \in Tokens : ~AboutToCache(q, t)
      BY DEF AboutToCache
    <3> HIDE DEF q
    <3>3. QED
      BY <1>0, <3>1, <3>2, TokensKept, OneMoves
  <2>4. QED
    BY <2>1, <2>2, <2>3
<1>3. CASE Restart
  BY <1>3 DEF Restart, CacheInv, Covered, Sound, AboutToCache, Free
<1>4. CASE Background \/ UNCHANGED vars
  BY <1>4, CacheBackground
<1>5. QED
  BY <1>1, <1>2, <1>3, <1>4 DEF Next, Background

\* Whatever the cache answers, the table would answer too: for every token but the
\* lapsed ones, and those a rotation is about to invalidate.
THEOREM CacheAgrees == Spec => []CacheMatchesTable
<1>1. Init => CacheInv
  BY DEF Init, Free, CacheInv, Covered, Sound, AboutToCache
<1>2. RegistryInv /\ CacheInv /\ [Next]_vars => CacheInv'
  BY CacheStep DEF RegistryInv
<1>3. CacheInv => CacheMatchesTable
  BY DEF CacheInv, Covered, Good, HasToken, GoodAfter, Dying, CacheMatchesTable
<1>4. QED
  BY <1>1, <1>2, <1>3, RegistryInvariant, PTL DEF Spec

-----------------------------------------------------------------------------
(* Silence.                                                                *)

In(items, d) == \E i \in DOMAIN items : items[i].dev = d
OfNow(items) == \A i \in DOMAIN items : items[i].ts = now

LEMMA ConcatIn ==
    ASSUME NEW s \in Seq(Report), NEW t \in Seq(Report)
    PROVE  /\ \A d : In(s \o t, d) <=> In(s, d) \/ In(t, d)
           /\ OfNow(s \o t) <=> OfNow(s) /\ OfNow(t)
<1> DEFINE m == Len(s)
           n == Len(t)
           u == s \o t
<1>1. /\ m \in Nat /\ n \in Nat /\ DOMAIN s = 1 .. m /\ DOMAIN t = 1 .. n
      /\ u \in Seq(Report) /\ Len(u) = m + n /\ DOMAIN u = 1 .. m + n
  BY LenProperties, ConcatProperties
<1>2. \A i \in 1 .. m + n : u[i] = IF i <= m THEN s[i] ELSE t[i - m]
  BY ConcatProperties
<1> HIDE DEF u, m, n
<1>3. \A i \in 1 .. m : i \in 1 .. m + n /\ u[i] = s[i]
  BY <1>1, <1>2
<1>4. \A j \in 1 .. n : j + m \in 1 .. m + n /\ u[j + m] = t[j]
  <2> SUFFICES ASSUME NEW j \in 1 .. n PROVE j + m \in 1 .. m + n /\ u[j + m] = t[j]
    OBVIOUS
  <2>1. j + m \in 1 .. m + n /\ ~(j + m <= m) /\ (j + m) - m = j
    BY <1>1
  <2>2. QED
    BY <1>2, <2>1
<1>5. \A i \in 1 .. m + n : (i \in 1 .. m /\ u[i] = s[i]) \/ \E j \in 1 .. n : u[i] = t[j]
  <2> SUFFICES ASSUME NEW i \in 1 .. m + n, ~(i <= m) PROVE \E j \in 1 .. n : u[i] = t[j]
    BY <1>1, <1>2
  <2>1. i - m \in 1 .. n /\ u[i] = t[i - m]
    BY <1>1, <1>2
  <2>2. QED
    BY <2>1
<1>6. ASSUME NEW d PROVE In(u, d) <=> In(s, d) \/ In(t, d)
  <2>1. ASSUME In(u, d) PROVE In(s, d) \/ In(t, d)
    <3>1. PICK i \in 1 .. m + n : u[i].dev = d
      BY <1>1, <2>1 DEF In
    <3>2. QED
      BY <1>1, <1>5, <3>1 DEF In
  <2>2. In(s, d) => In(u, d)
    BY <1>1, <1>3 DEF In
  <2>3. In(t, d) => In(u, d)
    BY <1>1, <1>4 DEF In
  <2>4. QED
    BY <2>1, <2>2, <2>3
<1>7. OfNow(u) <=> OfNow(s) /\ OfNow(t)
  <2>1. OfNow(u) => OfNow(s) /\ OfNow(t)
    BY <1>1, <1>3, <1>4 DEF OfNow
  <2>2. OfNow(s) /\ OfNow(t) => OfNow(u)
    BY <1>1, <1>5 DEF OfNow
  <2>3. QED
    BY <2>1, <2>2
<1>8. QED
  BY <1>6, <1>7, Zenon DEF u

\* Why a device that is shown as offline was silent: a row is as recent as the
\* last answered request of its device, and is online or too old, unless a report
\* of it is still on its way or was dropped, and what is on its way was accepted
\* in the span that is now.
Silent(d) == ~table[d].online => table[d].seen + OfflineAfter < now
Heard(d, b, q) ==
    table[d] # None /\ ~In(b, d) /\ ~In(q, d) /\ d \notin lost =>
        contact[d] <= table[d].seen /\ Silent(d)
NotAhead(d) == contact[d] <= now /\ (table[d] # None => table[d].seen <= now)
SilenceInv ==
    /\ OfNow(buf) /\ OfNow(queue)
    /\ \A d \in Devices : NotAhead(d) /\ Heard(d, buf, queue)

\* Steps that refresh no row and accept nothing, and take a row offline only when
\* it is too old.
LEMMA RowsKept ==
    ASSUME SilenceInv, UNCHANGED <<contact, lost, now, buf, queue>>,
           \A d \in Devices : table'[d] # None =>
               /\ table[d] # None /\ table'[d].seen = table[d].seen
               /\ \/ table'[d].online = table[d].online
                  \/ table[d].seen + OfflineAfter < now
    PROVE  SilenceInv'
  BY DEF SilenceInv, OfNow, NotAhead, Heard, Silent, In

\* Steps that write a row for an accepted request.
LEMMA RowRefreshed ==
    ASSUME TypeOK, SilenceInv, NEW d \in Devices,
           Contacted(d), UNCHANGED <<now, buf, queue>>,
           \A e \in Devices \ {d} : table'[e] = table[e],
           table'[d] # None => table'[d].seen = now /\ table'[d].online = TRUE
    PROVE  SilenceInv'
<1>1. /\ now \in Nat /\ contact' = [contact EXCEPT ![d] = now] /\ contact \in [Devices -> 0 .. MaxNow]
      /\ lost' = lost \ {d}
  BY DEF TypeOK, Contacted
<1>2. NotAhead(d)' /\ Heard(d, buf, queue)'
  BY <1>1 DEF NotAhead, Heard, Silent
<1>3. ASSUME NEW e \in Devices \ {d} PROVE NotAhead(e)' /\ Heard(e, buf, queue)'
  <2>1. table'[e] = table[e] /\ contact'[e] = contact[e] /\ (e \in lost' <=> e \in lost)
    BY <1>1
  <2>2. NotAhead(e) /\ Heard(e, buf, queue)
    BY DEF SilenceInv
  <2>3. QED
    BY <2>1, <2>2 DEF NotAhead, Heard, Silent, In
<1>4. OfNow(buf)' /\ OfNow(queue)'
  BY DEF SilenceInv, OfNow
<1>5. QED
  BY <1>2, <1>3, <1>4 DEF SilenceInv

LEMMA AppliedSeen ==
    ASSUME TableTypeOK, NEW items \in Seq(Report), OfNow(items), NEW d \in Devices,
           now \in 0 .. MaxNow, Applied(items)[d] # None
    PROVE  /\ table[d] # None
           /\ Applied(items)[d].seen = IF In(items, d) THEN now ELSE table[d].seen
           /\ Applied(items)[d].online = IF In(items, d) THEN TRUE ELSE table[d].online
<1>1. table[d] # None
  BY AppliedRows DEF TableTypeOK
<1>2. CASE In(items, d)
  <2>1. Reported(items, d)
    BY <1>1, <1>2 DEF Reported, In
  <2>2. PICK i \in DOMAIN items : LastOf(items, d) = items[i]
    BY <1>2, LastOfItem DEF In
  <2>3. LastOf(items, d).ts = now
    BY <2>2 DEF OfNow
  <2>4. table[d] \in Row /\ TRUE \in BOOLEAN
    BY <1>1 DEF TableTypeOK
  <2>5. LET new == [table[d] EXCEPT !.seen = now, !.online = TRUE]
        IN new.seen = now /\ new.online = TRUE
    BY <2>4, RowUpdated
  <2>6. Applied(items)[d] = [table[d] EXCEPT !.seen = now, !.online = TRUE]
    BY <2>1, <2>3 DEF Applied
  <2>7. QED
    BY <1>1, <1>2, <2>5, <2>6
<1>3. CASE ~In(items, d)
  BY <1>1, <1>3 DEF Applied, Reported, In
<1>4. QED
  BY <1>2, <1>3

\* A flush, committed or not, hides no contact.
LEMMA FlushSilence ==
    ASSUME TypeOK, NEW items \in Seq(Report), NEW rest \in Seq(Report),
           flush(items), queue' = rest, UNCHANGED <<contact, lost, now>>,
           OfNow(items), OfNow(rest),
           \A d \in Devices : NotAhead(d) /\ Heard(d, items, rest)
    PROVE  SilenceInv'
<1>0. TableTypeOK /\ now \in 0 .. MaxNow /\ now \in Nat
  BY TypeParts DEF ClockTypeOK
<1>1. CASE table' = Applied(items) /\ buf' = <<>>
  <2>1. OfNow(buf)' /\ \A d : ~In(<<>>, d)
    BY <1>1, EmptySeq DEF OfNow, In
  <2>2. OfNow(queue)'
    BY DEF OfNow
  <2>3. ASSUME NEW d \in Devices PROVE NotAhead(d)' /\ Heard(d, buf, queue)'
    <3>1. CASE table'[d] = None
      BY <3>1 DEF NotAhead, Heard
    <3>2. CASE table'[d] # None
      <4>1. /\ table[d] # None
            /\ table'[d].seen = IF In(items, d) THEN now ELSE table[d].seen
            /\ table'[d].online = IF In(items, d) THEN TRUE ELSE table[d].online
        BY <1>0, <1>1, <3>2, AppliedSeen
      <4>2. contact[d] <= now /\ table[d].seen <= now
        BY <4>1 DEF NotAhead
      <4>3. ~In(items, d) /\ ~In(rest, d) /\ d \notin lost
              => contact[d] <= table[d].seen /\ Silent(d)
        BY <4>1 DEF Heard
      <4>4. In(queue', d) <=> In(rest, d)
        OBVIOUS
      <4>5. NotAhead(d)'
        BY <1>0, <4>1, <4>2 DEF NotAhead
      <4>6. Heard(d, buf, queue)'
        BY <4>1, <4>2, <4>3 DEF Heard, Silent, In
      <4>7. QED
        BY <4>5, <4>6
    <3>3. QED
      BY <3>1, <3>2
  <2>4. QED
    BY <2>1, <2>2, <2>3 DEF SilenceInv
<1>2. CASE UNCHANGED table /\ buf' = items
  BY <1>2 DEF SilenceInv, OfNow, NotAhead, Heard, Silent, In
<1>3. QED
  BY <1>1, <1>2 DEF flush

LEMMA SilenceStep == ASSUME TypeOK, RequestsOK, SilenceInv, [Next]_vars PROVE SilenceInv'
<1>0. /\ TableTypeOK /\ now \in 0 .. MaxNow /\ now \in Nat /\ contact \in [Devices -> 0 .. MaxNow]
      /\ buf \in Seq(Report) /\ queue \in Seq(Report)
  BY TypeParts DEF ClockTypeOK, BatchTypeOK
<1>1. ASSUME NEW r \in Requests, Handle(r) PROVE SilenceInv'
  <2>1. StageOK(req[r])
    BY DEF RequestsOK
  <2>2. CASE upsert(r) \/ Reread(r) \/ verify_token(r) \/ find_id_by_token(r)
               \/ invalidate_token(r) \/ AnswerToken(r) \/ FillCache(r) \/ Drop(r)
    <3>1. UNCHANGED <<table, contact, lost, now, buf, queue>>
      BY <2>2 DEF upsert, Reread, verify_token, find_id_by_token, invalidate_token, AnswerToken,
                  FillCache, Drop, batchVars, ghosts
    <3>2. QED
      BY <3>1, RowsKept
  <2>3. CASE Insert(r)
    <3>1. UNCHANGED <<now, buf, queue>> /\ req[r].dev \in Devices
      BY <2>1, <2>3 DEF Insert, batchVars, StageOK
    <3>2. CASE UNCHANGED <<table, contact, lost>>
      BY <3>1, <3>2, RowsKept
    <3>3. CASE /\ table' = [table EXCEPT ![req[r].dev] = [tok |-> req[r].tok, issued |-> now,
                                                          seen |-> now, online |-> TRUE]]
               /\ Contacted(req[r].dev)
      <4>1. /\ table'[req[r].dev].seen = now /\ table'[req[r].dev].online = TRUE
            /\ \A e \in Devices \ {req[r].dev} : table'[e] = table[e]
        BY <1>0, <3>1, <3>3 DEF TableTypeOK
      <4>2. QED
        BY <3>1, <3>3, <4>1, RowRefreshed
    <3>4. QED
      BY <2>3, <3>2, <3>3 DEF Insert
  <2>4. CASE mark_online(r)
    <3> DEFINE d == req[r].dev
               new == [table[d] EXCEPT !.seen = now, !.online = TRUE]
    <3>1. /\ UNCHANGED <<now, buf, queue>> /\ d \in Devices /\ Contacted(d)
          /\ table' = [table EXCEPT ![d] = IF @ = None THEN None ELSE new]
      BY <2>1, <2>4 DEF mark_online, batchVars, StageOK, Update
    <3>2. table[d] # None => new.seen = now /\ new.online = TRUE
      <4>1. table[d] # None => table[d] \in Row
        BY <1>0, <3>1 DEF TableTypeOK
      <4>2. QED
        BY <1>0, <4>1, RowUpdated
    <3> HIDE DEF new, d
    <3>3. /\ table'[d] # None => table'[d].seen = now /\ table'[d].online = TRUE
          /\ \A e \in Devices \ {d} : table'[e] = table[e]
      BY <1>0, <3>1, <3>2 DEF TableTypeOK
    <3>4. QED
      BY <3>1, <3>3, RowRefreshed
  <2>5. CASE rotate_token(r)
    <3> DEFINE d == req[r].dev
               new == [tok |-> req[r].tok, issued |-> now, seen |-> now, online |-> TRUE]
    <3>1. /\ UNCHANGED <<now, buf, queue>> /\ d \in Devices /\ Contacted(d)
          /\ table' = [table EXCEPT ![d] = IF @ = None THEN None ELSE new]
      BY <2>1, <2>5 DEF rotate_token, batchVars, StageOK, Update
    <3>2. new.seen = now /\ new.online = TRUE
      OBVIOUS
    <3> HIDE DEF new, d
    <3>3. /\ table'[d] # None => table'[d].seen = now /\ table'[d].online = TRUE
          /\ \A e \in Devices \ {d} : table'[e] = table[e]
      BY <1>0, <3>1, <3>2 DEF TableTypeOK
    <3>4. QED
      BY <3>1, <3>3, RowRefreshed
  <2>6. CASE enqueue(r)
    <3>1. UNCHANGED <<table, buf, now>> /\ req[r].dev \in Devices
      BY <2>1, <2>6 DEF enqueue, StageOK
    <3>2. CASE UNCHANGED <<queue, contact, lost>>
      BY <3>1, <3>2, RowsKept
    <3>3. CASE /\ count.reports < MaxReports /\ count' = [count EXCEPT !.reports = @ + 1]
               /\ queue' = Append(queue, [dev |-> req[r].dev, ts |-> now, n |-> count'.reports])
               /\ Contacted(req[r].dev)
      <4> DEFINE item == [dev |-> req[r].dev, ts |-> now, n |-> count'.reports]
      <4>1. count'.reports \in 1 .. MaxReports
        BY <3>3, ReportCounted, TypeParts
      <4>2. item \in Report /\ item.ts = now /\ item.dev = req[r].dev
        BY <1>0, <3>1, <4>1 DEF Report
      <4> HIDE DEF item
      <4>3. <<item>> \in Seq(Report) /\ queue' = queue \o <<item>>
        BY <1>0, <3>3, <4>2, AppendIsConcat DEF item
      <4>4. OfNow(<<item>>) /\ \A e : In(<<item>>, e) <=> e = item.dev
        <5>1. DOMAIN <<item>> = {1} /\ <<item>>[1] = item
          OBVIOUS
        <5>2. QED
          BY <4>2, <5>1 DEF OfNow, In
      <4>5. /\ \A e : In(queue', e) <=> In(queue, e) \/ e = req[r].dev
            /\ OfNow(queue')
        BY <1>0, <4>2, <4>3, <4>4, ConcatIn DEF SilenceInv
      <4>6. contact' = [contact EXCEPT ![req[r].dev] = now] /\ lost' = lost \ {req[r].dev}
        BY <3>3 DEF Contacted
      <4>7. ASSUME NEW e \in Devices PROVE NotAhead(e)' /\ Heard(e, buf, queue)'
        <5>1. Heard(e, buf, queue) /\ NotAhead(e)
          BY DEF SilenceInv
        <5>2. CASE e = req[r].dev
          <6>1. contact'[e] = now /\ In(queue', e)
            BY <1>0, <4>5, <4>6, <5>2
          <6>2. QED
            BY <1>0, <3>1, <5>1, <6>1 DEF NotAhead, Heard
        <5>3. CASE e # req[r].dev
          <6>1. /\ contact'[e] = contact[e] /\ (In(queue', e) <=> In(queue, e))
                /\ e \in lost' <=> e \in lost
            BY <1>0, <4>5, <4>6, <5>3
          <6>2. QED
            BY <3>1, <5>1, <6>1 DEF NotAhead, Heard, Silent
        <5>4. QED
          BY <5>2, <5>3
      <4>8. OfNow(buf)' /\ OfNow(queue)'
        BY <3>1, <4>5 DEF SilenceInv, OfNow
      <4>9. QED
        BY <4>7, <4>8 DEF SilenceInv
    <3>4. CASE /\ UNCHANGED queue /\ contact' = [contact EXCEPT ![req[r].dev] = now]
               /\ lost' = lost \cup {req[r].dev}
      <4>1. ASSUME NEW e \in Devices PROVE NotAhead(e)' /\ Heard(e, buf, queue)'
        <5>1. Heard(e, buf, queue) /\ NotAhead(e)
          BY DEF SilenceInv
        <5>2. CASE e = req[r].dev
          <6>1. contact'[e] = now /\ e \in lost'
            BY <1>0, <3>4, <5>2
          <6>2. QED
            BY <1>0, <3>1, <5>1, <6>1 DEF NotAhead, Heard
        <5>3. CASE e # req[r].dev
          <6>1. contact'[e] = contact[e] /\ (e \in lost' <=> e \in lost)
            BY <1>0, <3>4, <5>3
          <6>2. QED
            BY <3>1, <3>4, <5>1, <6>1 DEF NotAhead, Heard, Silent, In
        <5>4. QED
          BY <5>2, <5>3
      <4>2. OfNow(buf)' /\ OfNow(queue)'
        BY <3>1, <3>4 DEF SilenceInv, OfNow
      <4>3. QED
        BY <4>1, <4>2 DEF SilenceInv
    <3>5. QED
      BY <2>6, <3>2, <3>3, <3>4 DEF enqueue
  <2>7. QED
    BY <1>1, <2>2, <2>3, <2>4, <2>5, <2>6 DEF Handle
<1>2. ASSUME NEW r \in Requests, Send(r) PROVE SilenceInv'
  <2>1. UNCHANGED <<table, contact, lost, now, buf, queue>>
    BY <1>2 DEF Send, register, report_status, batchVars, ghosts
  <2>2. QED
    BY <2>1, RowsKept
<1>3. CASE FlushTick
  <2>1. /\ flush(buf \o queue) /\ queue' = <<>> /\ UNCHANGED <<contact, lost, now>>
        /\ buf \o queue \in Seq(Report) /\ <<>> \in Seq(Report)
    BY <1>0, <1>3, ConcatProperties, EmptySeq DEF FlushTick, ghosts
  <2>2. /\ \A d : In(buf \o queue, d) <=> In(buf, d) \/ In(queue, d)
        /\ OfNow(buf \o queue)
    BY <1>0, ConcatIn DEF SilenceInv
  <2>3. OfNow(<<>>)
    BY EmptySeq DEF OfNow
  <2>4. \A d \in Devices : NotAhead(d) /\ Heard(d, buf \o queue, <<>>)
    BY <2>2 DEF SilenceInv, Heard
  <2>5. QED
    BY <2>1, <2>2, <2>3, <2>4, FlushSilence
<1>4. CASE Receive
  <2> DEFINE items == Append(buf, Head(queue))
             rest == Tail(queue)
  <2>1. queue # <<>> /\ queue' = rest /\ UNCHANGED <<contact, lost, now>>
    BY <1>4 DEF Receive, ghosts
  <2>2. items \in Seq(Report) /\ rest \in Seq(Report)
    BY <1>0, <2>1, HeadTailProperties, AppendProperties
  <2>3. items \o rest = buf \o queue
    BY <1>0, <2>1, MoveHead
  <2>4. (buf' = items /\ UNCHANGED table) \/ flush(items)
    BY <1>4 DEF Receive
  <2> HIDE DEF items, rest
  <2>5. /\ \A d : In(items, d) \/ In(rest, d) <=> In(buf, d) \/ In(queue, d)
        /\ OfNow(items) /\ OfNow(rest)
    <3>1. \A d : In(items \o rest, d) <=> In(items, d) \/ In(rest, d)
      BY <2>2, ConcatIn
    <3>2. \A d : In(buf \o queue, d) <=> In(buf, d) \/ In(queue, d)
      BY <1>0, ConcatIn
    <3>3. OfNow(buf \o queue)
      BY <1>0, ConcatIn DEF SilenceInv
    <3>4. OfNow(items \o rest) <=> OfNow(items) /\ OfNow(rest)
      BY <2>2, ConcatIn
    <3>5. QED
      BY <2>3, <3>1, <3>2, <3>3, <3>4
  <2>6. \A d \in Devices : NotAhead(d) /\ Heard(d, items, rest)
    BY <2>5 DEF SilenceInv, Heard
  <2>7. CASE flush(items)
    BY <2>1, <2>2, <2>5, <2>6, <2>7, FlushSilence
  <2>8. CASE buf' = items /\ UNCHANGED table
    BY <2>1, <2>5, <2>6, <2>8 DEF SilenceInv, OfNow, NotAhead, Heard, Silent, In
  <2>9. QED
    BY <2>4, <2>7, <2>8
<1>5. CASE Collect
  <2>1. UNCHANGED <<contact, lost, now, buf, queue>>
    BY <1>5 DEF Collect, mark_stale_offline, delete_stale, batchVars, ghosts
  <2>2. ASSUME NEW d \in Devices, table'[d] # None
        PROVE  /\ table[d] # None /\ table'[d].seen = table[d].seen
               /\ \/ table'[d].online = table[d].online
                  \/ table[d].seen + OfflineAfter < now
    <3>1. \/ table'[d] = table[d]
          \/ /\ table'[d] = [table[d] EXCEPT !.online = FALSE]
             /\ table[d] # None /\ table[d].seen + OfflineAfter < now
      BY <1>5, <2>2 DEF Collect, mark_stale_offline, delete_stale
    <3>2. table[d] \in Row \cup {None}
      BY <1>0 DEF TableTypeOK
    <3>3. table[d] \in Row => [table[d] EXCEPT !.online = FALSE].seen = table[d].seen
      BY DEF Row
    <3>4. QED
      BY <2>2, <3>1, <3>2, <3>3
  <2>3. QED
    BY <2>1, <2>2, RowsKept
<1>6. CASE Tick
  <2>1. /\ UNCHANGED <<table, contact, lost, buf, queue>> /\ now' = now + 1
        /\ queue = <<>> /\ buf = <<>>
    BY <1>6 DEF Tick, batchVars, ghosts
  <2>2. OfNow(buf)' /\ OfNow(queue)'
    BY <2>1, EmptySeq DEF OfNow
  <2>3. \A d \in Devices : table[d] # None => table[d].seen \in Nat
    BY <1>0 DEF TableTypeOK, Row
  <2>4. \A d \in Devices : contact[d] \in Nat
    BY <1>0
  <2>5. \A d \in Devices : NotAhead(d)'
    BY <1>0, <2>1, <2>3, <2>4 DEF SilenceInv, NotAhead
  <2>6. \A d \in Devices : Heard(d, buf, queue)'
    BY <1>0, <2>1, <2>3, RegistryAssumption DEF SilenceInv, Heard, Silent, In
  <2>7. QED
    BY <2>2, <2>5, <2>6 DEF SilenceInv
<1>7. CASE Restart
  <2>1. /\ UNCHANGED <<table, contact, now>> /\ queue' = <<>> /\ buf' = <<>>
        /\ lost' = lost \cup {d \in Devices : Pending(d)}
    BY <1>7 DEF Restart
  <2>2. OfNow(buf)' /\ OfNow(queue)'
    BY <2>1, EmptySeq DEF OfNow
  <2>3. ASSUME NEW d \in Devices, d \notin lost' PROVE d \notin lost /\ ~In(buf, d) /\ ~In(queue, d)
    <3>1. ~Pending(d) /\ d \notin lost
      BY <2>1, <2>3
    <3>2. In(buf \o queue, d) <=> Pending(d)
      BY DEF In, Pending
    <3>3. QED
      BY <1>0, <3>1, <3>2, ConcatIn
  <2>4. \A d \in Devices : NotAhead(d)' /\ Heard(d, buf, queue)'
    BY <2>1, <2>3 DEF SilenceInv, NotAhead, Heard, Silent
  <2>5. QED
    BY <2>2, <2>4 DEF SilenceInv
<1>8. CASE UNCHANGED vars
  <2>1. UNCHANGED <<table, contact, lost, now, buf, queue>>
    BY <1>8 DEF vars, batchVars, ghosts
  <2>2. QED
    BY <2>1, RowsKept
<1>9. QED
  BY <1>1, <1>2, <1>3, <1>4, <1>5, <1>6, <1>7, <1>8 DEF Next

LEMMA SilenceInvariant == Spec => []SilenceInv
<1>1. ASSUME Init PROVE SilenceInv
  <2>1. OfNow(buf) /\ OfNow(queue)
    BY <1>1, EmptySeq DEF Init, OfNow
  <2>2. \A d \in Devices : NotAhead(d) /\ Heard(d, buf, queue)
    BY <1>1 DEF Init, NotAhead, Heard
  <2>3. QED
    BY <2>1, <2>2 DEF SilenceInv
<1>2. RegistryInv /\ SilenceInv /\ [Next]_vars => SilenceInv'
  BY SilenceStep DEF RegistryInv
<1>3. QED
  BY <1>1, <1>2, RegistryInvariant, PTL DEF Spec

\* A device is shown as offline only when nothing of it was answered 200 for
\* OfflineAfter, or a report of it is on its way to the table, or the last thing
\* it was answered 200 for is a report the server dropped.
THEOREM SilentBeforeOffline == Spec => []OfflineIsSilent
<1>1. RegistryInv /\ SilenceInv => OfflineIsSilent
  <2>1. SUFFICES ASSUME RegistryInv, SilenceInv, NEW d \in Devices, table[d] # None, ~table[d].online,
                        ~Pending(d), d \notin lost
                 PROVE  contact[d] + OfflineAfter < now
    BY DEF OfflineIsSilent
  <2>2. ~In(buf, d) /\ ~In(queue, d)
    <3>1. buf \in Seq(Report) /\ queue \in Seq(Report)
      BY <2>1 DEF RegistryInv, TypeOK
    <3>2. In(buf \o queue, d) <=> Pending(d)
      BY DEF In, Pending
    <3>3. QED
      BY <2>1, <3>1, <3>2, ConcatIn
  <2>3. contact[d] <= table[d].seen /\ table[d].seen + OfflineAfter < now
    BY <2>1, <2>2 DEF SilenceInv, Heard, Silent
  <2>4. contact[d] \in Nat /\ table[d].seen \in Nat /\ now \in Nat /\ OfflineAfter \in Nat
    BY <2>1, RegistryAssumption DEF RegistryInv, TypeOK, Row
  <2>5. QED
    BY <2>3, <2>4
<1>2. QED
  BY <1>1, RegistryInvariant, SilenceInvariant, PTL
=============================================================================
