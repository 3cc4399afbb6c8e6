----------------------------- MODULE WorkLedger -----------------------------
(***************************************************************************)
(* What the participant API promises about the work of one session,        *)
(* whatever the number of tabs, retries, overlapping requests and crashes: *)
(* trials are completed one by one in plan order and stay completed, block *)
(* questionnaires accumulate, and the session is submitted once, after all *)
(* of it is there.                                                         *)
(***************************************************************************)
EXTENDS Integers

CONSTANTS NTrials, MainBlocks

VARIABLES
    done,       \* completed trials
    answered,   \* blocks with a questionnaire
    submitted   \* the session was finally submitted

vars == <<done, answered, submitted>>

Init == done = {} /\ answered = {} /\ submitted = FALSE

Complete(t) ==
    /\ done = 1..(t - 1)
    /\ done' = 1..t
    /\ UNCHANGED <<answered, submitted>>

Answer(b) ==
    /\ answered' = answered \cup {b}
    /\ UNCHANGED <<done, submitted>>

Submit ==
    /\ done = 1..NTrials /\ answered = MainBlocks
    /\ submitted' = TRUE
    /\ UNCHANGED <<done, answered>>

Next ==
    \/ \E t \in 1..NTrials : Complete(t)
    \/ \E b \in MainBlocks : Answer(b)
    \/ Submit

Spec == Init /\ [][Next]_vars
=============================================================================
