--------------------------- MODULE MCSignalStore ---------------------------
(* SignalStore on small sets of sessions, streams and polls. *)
EXTENDS SignalStore, TLC

Symmetry == Permutations(Sessions) \cup Permutations(Conns) \cup Permutations(Tickets)
            \cup Permutations(Polls) \cup Permutations(Devices)
=============================================================================
