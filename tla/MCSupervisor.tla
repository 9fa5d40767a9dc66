---------------------------- MODULE MCSupervisor ----------------------------
(* Supervisor with a few services, stops and tokens.                        *)
EXTENDS Supervisor, TLC
=============================================================================
