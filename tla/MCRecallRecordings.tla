------------------------ MODULE MCRecallRecordings ------------------------
(* Instances of RecallRecordings for TLC.                                  *)
EXTENDS RecallRecordings

First == CHOOSE k \in Clients : TRUE

(* Every call is for the same client.                                      *)
AllForOne == [c \in 1 .. CallCount |-> First]

(* The first call is for one client and the others for another.            *)
FirstForAnother ==
  [c \in 1 .. CallCount |-> IF c = 1 THEN First ELSE CHOOSE k \in Clients : k # First]

(* Claimed and false: the sweep's comment says one bad row must never cost *)
(* everyone else their turn.  A row whose client has no working WhatsApp   *)
(* is skipped, stays listed, and with enough of them nobody younger is     *)
(* ever reached: OwnerHears is what that promises, under another name for  *)
(* the run that refutes it.                                                *)
EveryoneGetsATurn == OwnerHears
=============================================================================
