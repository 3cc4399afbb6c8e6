-------------------------- MODULE SessionLifecycle --------------------------
(***************************************************************************)
(* The life of a session row as its API and tests describe it: a session   *)
(* starts once, waits for the final submit when the required work is done, *)
(* and is terminal once it is finalized.  completed_at is set exactly when *)
(* the session is finalized.  A session whose start died after it froze    *)
(* the trials is worked on, and finalized, without having been started.    *)
(***************************************************************************)

VARIABLES
    status,       \* participant_sessions.status
    workDone,     \* all trials completed and all questionnaires submitted
    completedAt   \* completed_at IS NOT NULL

vars == <<status, workDone, completedAt>>

Init == status = "created" /\ workDone = FALSE /\ completedAt = FALSE

Start ==
    /\ status = "created"
    /\ status' = "in_progress"
    /\ UNCHANGED <<workDone, completedAt>>

FinishWork ==
    /\ status \in {"created", "in_progress"}
    /\ workDone' = TRUE
    /\ UNCHANGED <<status, completedAt>>

Await ==
    /\ status \in {"created", "in_progress"} /\ workDone
    /\ status' = "awaiting_final_submit"
    /\ UNCHANGED <<workDone, completedAt>>

Finalize ==
    /\ status # "finalized" /\ workDone
    /\ status' = "finalized"
    /\ completedAt' = TRUE
    /\ UNCHANGED workDone

Next == Start \/ FinishWork \/ Await \/ Finalize

Spec == Init /\ [][Next]_vars
=============================================================================
