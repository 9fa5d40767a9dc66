-------------------------- MODULE MCDeviceRegistry --------------------------
(* DeviceRegistry with one device, registered by its owner and by another.  *)
(* Only invariants are checked, and nothing tells two clients or two        *)
(* requests apart: they are symmetric.  Tokens are not: NewToken chooses.   *)
EXTENDS DeviceRegistry, TLC

CONSTANTS c1, c2, r1, r2

ClientsAndRequests == Permutations({c1, c2}) \cup Permutations({r1, r2})
=============================================================================
