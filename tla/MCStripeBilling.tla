-------------------------- MODULE MCStripeBilling --------------------------
(* An instance of StripeBilling for TLC.                                   *)
EXTENDS StripeBilling
=============================================================================
