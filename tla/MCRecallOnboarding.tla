-------------------------- MODULE MCRecallOnboarding --------------------------
(* Instances of RecallOnboarding for TLC: the cfgs give every constant.      *)
EXTENDS RecallOnboarding
================================================================================
