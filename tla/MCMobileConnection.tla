------------------------- MODULE MCMobileConnection ------------------------
(* MobileConnection with a few transport objects.                           *)
EXTENDS MobileConnection

CONSTANTS t1, t2, t3
=============================================================================
