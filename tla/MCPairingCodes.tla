---------------------------- MODULE MCPairingCodes --------------------------
(* PairingCodes with a few codes and phones.                                *)
EXTENDS PairingCodes, TLC
=============================================================================
