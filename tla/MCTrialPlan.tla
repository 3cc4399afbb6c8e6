---------------------------- MODULE MCTrialPlan ----------------------------
(***************************************************************************)
(* Small banks for TrialPlan; the items of a bank are interchangeable.     *)
(***************************************************************************)
EXTENDS TrialPlan, TLC

ItemSymmetry == Permutations(MainItems) \cup Permutations(PracticeItems)
=============================================================================
