---------------------------- MODULE MCRunExtract ----------------------------
(***************************************************************************)
(* A small plan for RunExtract: practice and two main blocks, four trials. *)
(***************************************************************************)
EXTENDS RunExtract

PlanBlocks == <<-1, 0, 0, 1>>
PlanConditions == <<"static_help", "monotone_help", "monotone_help", "cabdi_lite">>
PlanAdvice == <<FALSE, FALSE, TRUE, TRUE>>
PlanConfidence == <<"high", "medium", "high", "high">>
PlanDifficulty == <<"low", "high", "medium", "medium">>

\* A quick acceptance of wrong advice, and a slow, checked answer.
QuickAccept == [right |-> FALSE, clicked |-> FALSE, latency |-> 600]
SlowAnswer == [right |-> TRUE, clicked |-> TRUE, latency |-> 2300]
PlanPayloads == <<{QuickAccept}, {QuickAccept, SlowAnswer}, {SlowAnswer}, {SlowAnswer}>>
=============================================================================
