--------------------------- MODULE MCDesktopConfig --------------------------
(* DesktopConfig with more ids and tokens than two launches can use up.     *)
EXTENDS DesktopConfig, TLC
=============================================================================
