------------------------ MODULE MCParticipantSession ------------------------
(***************************************************************************)
(* Small instances of ParticipantSession: plans and thread symmetry.       *)
(***************************************************************************)
EXTENDS ParticipantSession, TLC

\* practice, block 0
PlanTwo == <<-1, 0>>
\* practice, block 0, block 1
PlanThree == <<-1, 0, 1>>
\* block 0, block 1: no practice
PlanBlocks == <<0, 1>>

ThreadSymmetry == Permutations(Handlers)
=============================================================================
