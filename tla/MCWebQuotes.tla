----------------------------- MODULE MCWebQuotes -----------------------------
(* An instance of WebQuotes for TLC.                                       *)
EXTENDS WebQuotes
=============================================================================
