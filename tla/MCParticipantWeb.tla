-------------------------- MODULE MCParticipantWeb --------------------------
(***************************************************************************)
(* Small instances of ParticipantWeb.                                      *)
(***************************************************************************)
EXTENDS ParticipantWeb, TLC

\* practice, block 0
PlanTwo == <<-1, 0>>
\* practice, block 0, block 1
PlanThree == <<-1, 0, 1>>

ThreadSymmetry == Permutations(Handlers)
=============================================================================
