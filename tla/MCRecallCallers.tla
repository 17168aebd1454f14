-------------------------- MODULE MCRecallCallers --------------------------
(* Instances of RecallCallers for TLC.                                     *)
EXTENDS RecallCallers

(* As the code's own tests write the sender, and as Meta writes it.        *)
WithPlus == "plus"
AsMetaSends == "wa_id"
=============================================================================
