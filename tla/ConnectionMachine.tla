------------------------- MODULE ConnectionMachine -------------------------
(***************************************************************************)
(* The pure reducer of packages/core/src/machines/connection.ts: the life  *)
(* of one device's connection.  The reason of an offline state is left     *)
(* out; a device without a session has the status "none".                  *)
(***************************************************************************)
EXTENDS Naturals

CONSTANT MaxRetries
ASSUME RetriesAssumption == MaxRetries \in Nat

Events == {"CONNECT", "OPEN", "CLOSE", "FAIL"}
Status == {"none", "connecting", "connected", "reconnecting", "offline"}

At(s)      == [status |-> s, retries |-> 0]
Connecting(r)   == [status |-> "connecting", retries |-> r]
Reconnecting(r) == [status |-> "reconnecting", retries |-> r]

ConnectionState == [status : Status, retries : 0 .. MaxRetries]

Attempting(c) == c.status \in {"connecting", "reconnecting"}

\* CLOSE and FAIL: one more retry, until none is left.
Dropped(c) ==
    IF c.status = "connected" THEN Reconnecting(0)
    ELSE IF ~Attempting(c) THEN c
    ELSE IF c.retries + 1 > MaxRetries THEN At("offline") ELSE Reconnecting(c.retries + 1)

Connect_Reset(c) ==
    IF c.status \in {"offline", "reconnecting"} THEN Connecting(0) ELSE c

\* CONNECT: a fresh start from offline, one more attempt from reconnecting.
Connect(c) ==
    CASE c.status = "offline"      -> Connecting(0)
      [] c.status = "reconnecting" -> Connecting(c.retries)
      [] OTHER                     -> c

connectionReducer(c, event) ==
    CASE event = "CONNECT"          -> Connect(c)
      [] event = "OPEN"             -> IF Attempting(c) THEN At("connected") ELSE c
      [] event \in {"CLOSE", "FAIL"} -> Dropped(c)
=============================================================================
