------------------------- MODULE MCRecallCallbacks -------------------------
(* An instance of RecallCallbacks for TLC.                                 *)
EXTENDS RecallCallbacks

TwoPersons == [c \in Calls |-> c]
=============================================================================
