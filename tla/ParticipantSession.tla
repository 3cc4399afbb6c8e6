------------------------- MODULE ParticipantSession -------------------------
(***************************************************************************)
(* One participant session as the participant API keeps it: the row of     *)
(* participant_sessions, its session_trials, trial_summary_logs,           *)
(* trial_event_logs and block_questionnaires rows, and the request         *)
(* handlers of SessionService and TrialService that read and write them.   *)
(*                                                                         *)
(* Every store.fetchone/fetchall/execute/executemany of the code opens a   *)
(* connection of its own and commits by itself, and FastAPI runs the       *)
(* synchronous handlers on a thread pool, so the unit of interleaving is   *)
(* one SQL statement.  A handler is a program counter pc[h] and a frame of *)
(* local values frame[h]; what it read earlier may be stale when it is     *)
(* used.  A handler may die between two statements (Crash).                *)
(*                                                                         *)
(* A read of rows that no longer change is merged with the statement that  *)
(* uses it.  A request that is refused or answered before it changes       *)
(* anything is a stuttering step and has no action.  Time stamps are       *)
(* abstracted to set / not set.  No code of the repository writes the      *)
(* statuses "paused" and "abandoned", so their branches are left out.      *)
(***************************************************************************)
EXTENDS Integers, FiniteSetsExt

CONSTANTS
    NTrials,      \* number of trials of the frozen plan
    BlockOf,      \* trial -> block_index; -1 is the practice block
    Handlers,     \* request handler threads
    Responses,    \* answers a participant can give to a trial
    NoDecision,   \* policy_decision_json IS NULL
    NoSummary,    \* no trial_summary_logs row
    ClientWaits   \* the client submits questionnaires and the session only once it has its trials

Trials == 1..NTrials
Practice == -1
MainBlocks == {BlockOf[t] : t \in Trials} \ {Practice}

\* The plan lists practice first and then the main blocks in order, and
\* validate_non_empty_main_blocks refuses a run without main trials.  The
\* questionnaire gate orders blocks by the text of block_id, which is the
\* numeric order as long as there are at most nine blocks.
ASSUME PlanAssumption ==
    /\ NTrials \in Nat \ {0}
    /\ BlockOf \in [Trials -> Practice..8]
    /\ \A t, u \in Trials : t < u => BlockOf[t] <= BlockOf[u]
    /\ MainBlocks # {}

ASSUME ParameterAssumption ==
    /\ Responses # {}
    /\ ClientWaits \in BOOLEAN
    /\ \A basis \in SUBSET Trials : NoDecision # basis
    /\ \A basis \in SUBSET Trials, r \in Responses :
           NoSummary # [basis |-> basis, response |-> r]

VARIABLES
    row,        \* the participant_sessions row
    snapshot,   \* the session's session_trials rows exist
    completed,  \* trials with status = 'completed'
    decision,   \* trial -> stored policy decision, by the trials it was made from
    summary,    \* trial -> trial_summary_logs row
    answered,   \* main blocks with a block_questionnaires row
    events,     \* trial_event_logs: <<trial, event_type>> pairs logged so far
    pc,         \* handler -> next statement
    frame       \* handler -> local variables

tables == <<row, snapshot, completed, decision, summary, answered, events>>
vars == <<row, snapshot, completed, decision, summary, answered, events, pc, frame>>

-----------------------------------------------------------------------------
(* Data.                                                                   *)

Statuses == {"created", "in_progress", "awaiting_final_submit", "finalized"}
Stages == {"consent", "practice", "trial", "questionnaire",
           "awaiting_final_submit", "completion"}
EventTypes == {"trial_started", "assistance_rendered", "response_selected",
               "confidence_submitted", "trial_completed"}

\* Of a policy decision only the trials are kept that were completed when its
\* lagged features were read.  What it says also depends on their answers,
\* events and order (TrialLog), which an overlapping submit of a completed
\* trial may still overwrite: two decisions with the same set may differ.
Decisions == SUBSET Trials
Summaries == [basis : Decisions, response : Responses]

TrialIndex(t) == Cardinality({u \in Trials : u < t /\ BlockOf[u] = BlockOf[t]})
FullBlocks == {b \in MainBlocks : {t \in Trials : BlockOf[t] = b} \subseteq completed}

\* Where a session without practice trials starts, and one that has them.
InitialStage ==
    IF snapshot /\ \E t \in Trials : BlockOf[t] = Practice THEN "practice" ELSE "trial"

\* Mutants: the index of the previous trial, or of the trial after the next.
ReachedBack ==
    IF completed = {}
    THEN [stage |-> InitialStage, block |-> -1, index |-> 0]
    ELSE [stage |-> "trial", block |-> BlockOf[Max(completed)],
          index |-> TrialIndex(Max(completed)) - 1]
ReachedAhead ==
    IF completed = {}
    THEN [stage |-> InitialStage, block |-> -1, index |-> 0]
    ELSE [stage |-> "trial", block |-> BlockOf[Max(completed)],
          index |-> TrialIndex(Max(completed)) + 2]

\* What update_progress derives from the completed trials.
Reached ==
    IF completed = {}
    THEN [stage |-> InitialStage, block |-> -1, index |-> 0]
    ELSE LET last == Max(completed)
         IN  [stage |-> IF BlockOf[last] = Practice THEN "practice" ELSE "trial",
              block |-> BlockOf[last],
              index |-> TrialIndex(last) + 1]

-----------------------------------------------------------------------------
(* Handlers.                                                               *)

Labels == {"idle",
    "startFind", "startInsert", "startFreeze", "startWrite",
    "nextBlocks", "nextGate", "nextBlocked", "nextPick", "nextFeatures",
    "nextStore", "nextLogStarted", "nextLogAssistance",
    "submitFetch", "submitLogResponse", "submitLogConfidence",
    "submitLogCompleted", "submitSummary", "submitComplete",
    "questStore", "progressRead", "progressWrite",
    "awaitRead", "awaitPending", "awaitAnswers", "awaitWrite",
    "finalPending", "finalAnswers", "finalWrite"}

Positions == [stage : Stages, block : Practice..8, index : Nat]

Frames == [trial : Trials, block : MainBlocks,
           seen : Statuses, full : SUBSET MainBlocks,
           basis : Decisions, response : Responses,
           at : Positions]

EmptyFrame ==
    [trial |-> 1, block |-> CHOOSE b \in MainBlocks : TRUE, seen |-> "created",
     full |-> {}, basis |-> {}, response |-> CHOOSE r \in Responses : TRUE,
     at |-> [stage |-> "consent", block |-> -1, index |-> 0]]

Init ==
    /\ row = [status |-> "created", stage |-> "consent", block |-> -1, index |-> 0,
              started |-> FALSE, frozen |-> FALSE,
              completedAt |-> FALSE, finalizedAt |-> FALSE]
    /\ snapshot = FALSE
    /\ completed = {}
    /\ decision = [t \in Trials |-> NoDecision]
    /\ summary = [t \in Trials |-> NoSummary]
    /\ answered = {}
    /\ events = {}
    /\ pc = [h \in Handlers |-> "idle"]
    /\ frame = [h \in Handlers |-> EmptyFrame]

Goto(h, label) == pc' = [pc EXCEPT ![h] = label]

\* The handler answers (or raises) and its locals are gone.
Return(h) ==
    /\ pc' = [pc EXCEPT ![h] = "idle"]
    /\ frame' = [frame EXCEPT ![h] = EmptyFrame]

\* The worker is killed or a statement fails: what was committed stays.
Crash(h) ==
    /\ pc[h] # "idle"
    /\ Return(h)
    /\ UNCHANGED tables

-----------------------------------------------------------------------------
(* POST /sessions/{id}/start                                               *)

StartRead(h) ==
    /\ pc[h] = "idle"
    /\ frame' = [frame EXCEPT ![h].seen = row.status]
    /\ Goto(h, "startFind")
    /\ UNCHANGED tables

\* Mutant: only finalized counts as past in_progress.
StartGateReopens(h) ==
    IF frame[h].seen = "finalized"
    THEN Return(h)
    ELSE Goto(h, "startWrite") /\ UNCHANGED frame

\* The rows are there: answer if the status read at the beginning is past
\* in_progress, go on to the UPDATE otherwise.
StartGate(h) ==
    IF frame[h].seen \in {"awaiting_final_submit", "finalized"}
    THEN Return(h)
    ELSE Goto(h, "startWrite") /\ UNCHANGED frame

StartFind(h) ==
    /\ pc[h] = "startFind"
    /\ IF snapshot THEN StartGate(h)
                   ELSE Goto(h, "startInsert") /\ UNCHANGED frame
    /\ UNCHANGED tables

\* One executemany, one transaction; the primary key refuses a second one.
StartInsert(h) ==
    /\ pc[h] = "startInsert"
    /\ snapshot' = TRUE
    /\ IF snapshot THEN Return(h)
                   ELSE Goto(h, "startFreeze") /\ UNCHANGED frame
    /\ UNCHANGED <<row, completed, decision, summary, answered, events>>

StartFreeze(h) ==
    /\ pc[h] = "startFreeze"
    /\ row' = [row EXCEPT !.frozen = TRUE]
    /\ StartGate(h)
    /\ UNCHANGED <<snapshot, completed, decision, summary, answered, events>>

StartWrite(h) ==
    /\ pc[h] = "startWrite"
    /\ row' = [row EXCEPT !.status = "in_progress", !.started = TRUE,
                          !.stage = IF frame[h].seen = "created" THEN InitialStage ELSE @]
    /\ Return(h)
    /\ UNCHANGED <<snapshot, completed, decision, summary, answered, events>>

-----------------------------------------------------------------------------
(* Event log.                                                              *)

LogEvent(h, from, event, to) ==
    /\ pc[h] = from
    /\ events' = events \cup {<<frame[h].trial, event>>}
    /\ IF to = "idle" THEN Return(h) ELSE Goto(h, to) /\ UNCHANGED frame
    /\ UNCHANGED <<row, snapshot, completed, decision, summary, answered>>

-----------------------------------------------------------------------------
(* GET /sessions/{id}/next-trial                                           *)

NextRead(h) ==
    /\ pc[h] = "idle"
    /\ row.status \in {"created", "in_progress"}
    /\ Goto(h, "nextBlocks")
    /\ UNCHANGED <<tables, frame>>

\* Snapshot integrity (the rows exist), then the block query of the gate.
NextBlocks(h) ==
    /\ pc[h] = "nextBlocks"
    /\ IF snapshot
       THEN frame' = [frame EXCEPT ![h].full = FullBlocks] /\ Goto(h, "nextGate")
       ELSE Return(h)
    /\ UNCHANGED tables

\* Mutant: the questionnaire gate is not consulted.
NextGateOpen(h) ==
    /\ pc[h] = "nextGate"
    /\ Goto(h, "nextPick")
    /\ UNCHANGED <<tables, frame>>

NextGate(h) ==
    /\ pc[h] = "nextGate"
    /\ LET missing == frame[h].full \ answered
       IN  IF missing # {}
           THEN frame' = [frame EXCEPT ![h].block = Min(missing)] /\ Goto(h, "nextBlocked")
           ELSE Goto(h, "nextPick") /\ UNCHANGED frame
    /\ UNCHANGED tables

\* mark_questionnaire_stage, then 409 block_questionnaire_required.
NextBlocked(h) ==
    /\ pc[h] = "nextBlocked"
    /\ row' = [row EXCEPT !.stage = "questionnaire", !.block = frame[h].block, !.index = 0]
    /\ Return(h)
    /\ UNCHANGED <<snapshot, completed, decision, summary, answered, events>>

\* Mutant: the query has no ORDER BY.
NextPickUnordered(h) ==
    /\ pc[h] = "nextPick"
    /\ \E t \in Trials \ completed :
           /\ decision[t] = NoDecision
           /\ frame' = [frame EXCEPT ![h].trial = t]
           /\ Goto(h, "nextFeatures")
    /\ UNCHANGED tables

\* First pending trial of the plan.  None left: try to move to awaiting.
\* Already decided: answer with the stored decision.
NextPick(h) ==
    /\ pc[h] = "nextPick"
    /\ LET pending == Trials \ completed
       IN  \/ /\ pending = {}
              /\ Goto(h, "awaitRead") /\ UNCHANGED frame
           \/ /\ pending # {} /\ decision[Min(pending)] # NoDecision
              /\ Return(h)
           \/ /\ pending # {} /\ decision[Min(pending)] = NoDecision
              /\ frame' = [frame EXCEPT ![h].trial = Min(pending)]
              /\ Goto(h, "nextFeatures")
    /\ UNCHANGED tables

\* Mutant: the features count every trial that was served.
NextFeaturesServed(h) ==
    /\ pc[h] = "nextFeatures"
    /\ frame' = [frame EXCEPT ![h].basis = {t \in Trials : decision[t] # NoDecision}]
    /\ Goto(h, "nextStore")
    /\ UNCHANGED tables

\* The trials that the lagged features are computed from.
NextFeatures(h) ==
    /\ pc[h] = "nextFeatures"
    /\ frame' = [frame EXCEPT ![h].basis = completed \ {frame[h].trial}]
    /\ Goto(h, "nextStore")
    /\ UNCHANGED tables

NextStore(h) ==
    /\ pc[h] = "nextStore"
    /\ decision' = [decision EXCEPT ![frame[h].trial] = frame[h].basis]
    /\ Goto(h, "nextLogStarted")
    /\ UNCHANGED <<row, snapshot, completed, summary, answered, events, frame>>

-----------------------------------------------------------------------------
(* POST /sessions/{id}/trials/{trial}/submit                               *)

SubmitRead(h, t, r) ==
    /\ pc[h] = "idle"
    /\ row.status # "finalized"
    /\ frame' = [frame EXCEPT ![h].trial = t, ![h].response = r]
    /\ Goto(h, "submitFetch")
    /\ UNCHANGED tables

\* Mutant: a completed trial is not recognised.
SubmitFetchAgain(h) ==
    /\ pc[h] = "submitFetch"
    /\ LET t == frame[h].trial
       IN  IF snapshot /\ decision[t] # NoDecision
           THEN /\ frame' = [frame EXCEPT ![h].basis = decision[t]]
                /\ Goto(h, "submitLogResponse")
           ELSE Return(h)
    /\ UNCHANGED tables

\* 404 without rows, the idempotent answer for a completed trial, a
\* TypeError for a trial that was never served; otherwise go on.
SubmitFetch(h) ==
    /\ pc[h] = "submitFetch"
    /\ LET t == frame[h].trial
       IN  IF snapshot /\ t \notin completed /\ decision[t] # NoDecision
           THEN /\ frame' = [frame EXCEPT ![h].basis = decision[t]]
                /\ Goto(h, "submitLogResponse")
           ELSE Return(h)
    /\ UNCHANGED tables

\* Mutant: the trial is completed without its summary row.
SubmitSummaryLost(h) ==
    /\ pc[h] = "submitSummary"
    /\ Goto(h, "submitComplete")
    /\ UNCHANGED <<tables, frame>>

SubmitSummary(h) ==
    /\ pc[h] = "submitSummary"
    /\ summary' = [summary EXCEPT ![frame[h].trial] =
                       [basis |-> frame[h].basis, response |-> frame[h].response]]
    /\ Goto(h, "submitComplete")
    /\ UNCHANGED <<row, snapshot, completed, decision, answered, events, frame>>

SubmitComplete(h) ==
    /\ pc[h] = "submitComplete"
    /\ completed' = completed \cup {frame[h].trial}
    /\ Goto(h, "progressRead")
    /\ UNCHANGED <<row, snapshot, decision, summary, answered, events, frame>>

-----------------------------------------------------------------------------
(* POST /sessions/{id}/blocks/{block}/questionnaire                        *)

QuestRead(h, b) ==
    /\ pc[h] = "idle"
    /\ ClientWaits => snapshot
    /\ row.status # "finalized"
    /\ frame' = [frame EXCEPT ![h].block = b]
    /\ Goto(h, "questStore")
    /\ UNCHANGED tables

\* Mutant: one row per session instead of one per block.
QuestStoreReplaces(h) ==
    /\ pc[h] = "questStore"
    /\ answered' = {frame[h].block}
    /\ Goto(h, "progressRead")
    /\ UNCHANGED <<row, snapshot, completed, decision, summary, events, frame>>

QuestStore(h) ==
    /\ pc[h] = "questStore"
    /\ answered' = answered \cup {frame[h].block}
    /\ Goto(h, "progressRead")
    /\ UNCHANGED <<row, snapshot, completed, decision, summary, events, frame>>

-----------------------------------------------------------------------------
(* update_progress, after a trial or a questionnaire was stored.  What the  *)
(* handler no longer needs of its locals is dropped.                       *)

ProgressRead(h) ==
    /\ pc[h] = "progressRead"
    /\ frame' = [frame EXCEPT ![h] = [EmptyFrame EXCEPT !.at = Reached]]
    /\ Goto(h, "progressWrite")
    /\ UNCHANGED tables

ProgressWrite(h) ==
    /\ pc[h] = "progressWrite"
    /\ row' = [row EXCEPT !.stage = frame[h].at.stage, !.block = frame[h].at.block,
                          !.index = frame[h].at.index]
    /\ frame' = [frame EXCEPT ![h] = EmptyFrame]
    /\ Goto(h, "awaitRead")
    /\ UNCHANGED <<snapshot, completed, decision, summary, answered, events>>

-----------------------------------------------------------------------------
(* required_work_status: a pending trial, then a block without answers     *)

\* Mutant: the query asks for any completed trial, not for a pending one.
WorkPendingAny(h, from, to) ==
    /\ pc[h] = from
    /\ IF snapshot /\ completed = {}
       THEN Return(h)
       ELSE Goto(h, to) /\ UNCHANGED frame
    /\ UNCHANGED tables

WorkPending(h, from, to) ==
    /\ pc[h] = from
    /\ IF snapshot /\ completed # Trials
       THEN Return(h)
       ELSE Goto(h, to) /\ UNCHANGED frame
    /\ UNCHANGED tables

\* A mutant: a questionnaire is asked for after practice, too.
WorkAnswersPractice(h, from, to) ==
    /\ pc[h] = from
    /\ IF snapshot /\ ~({BlockOf[t] : t \in Trials} \subseteq answered)
       THEN Return(h)
       ELSE Goto(h, to) /\ UNCHANGED frame
    /\ UNCHANGED tables

WorkAnswers(h, from, to) ==
    /\ pc[h] = from
    /\ IF snapshot /\ ~(MainBlocks \subseteq answered)
       THEN Return(h)
       ELSE Goto(h, to) /\ UNCHANGED frame
    /\ UNCHANGED tables

-----------------------------------------------------------------------------
(* mark_awaiting_final_submit_if_done                                      *)

AwaitRead(h) ==
    /\ pc[h] = "awaitRead"
    /\ IF row.status \in {"awaiting_final_submit", "finalized"}
       THEN Return(h)
       ELSE Goto(h, "awaitPending") /\ UNCHANGED frame
    /\ UNCHANGED tables

AwaitWrite(h) ==
    /\ pc[h] = "awaitWrite"
    /\ row' = [row EXCEPT !.status = "awaiting_final_submit",
                          !.stage = "awaiting_final_submit", !.completedAt = FALSE]
    /\ Return(h)
    /\ UNCHANGED <<snapshot, completed, decision, summary, answered, events>>

-----------------------------------------------------------------------------
(* POST /sessions/{id}/final-submit                                        *)

FinalRead(h) ==
    /\ pc[h] = "idle"
    /\ ClientWaits => snapshot
    /\ row.status # "finalized"
    /\ Goto(h, "finalPending")
    /\ UNCHANGED <<tables, frame>>

\* Mutant: completed_at is forgotten.
FinalWriteUndated(h) ==
    /\ pc[h] = "finalWrite"
    /\ row' = [row EXCEPT !.status = "finalized", !.stage = "completion",
                          !.finalizedAt = TRUE]
    /\ Return(h)
    /\ UNCHANGED <<snapshot, completed, decision, summary, answered, events>>

FinalWrite(h) ==
    /\ pc[h] = "finalWrite"
    /\ row' = [row EXCEPT !.status = "finalized", !.stage = "completion",
                          !.completedAt = TRUE, !.finalizedAt = TRUE]
    /\ Return(h)
    /\ UNCHANGED <<snapshot, completed, decision, summary, answered, events>>

-----------------------------------------------------------------------------
(* Next.                                                                   *)

Start(h) == StartRead(h) \/ StartFind(h) \/ StartInsert(h) \/ StartFreeze(h) \/ StartWrite(h)

NextTrial(h) ==
    \/ NextRead(h) \/ NextBlocks(h) \/ NextGate(h) \/ NextBlocked(h) \/ NextPick(h)
    \/ NextFeatures(h) \/ NextStore(h)
    \/ LogEvent(h, "nextLogStarted", "trial_started", "nextLogAssistance")
    \/ LogEvent(h, "nextLogAssistance", "assistance_rendered", "idle")

SubmitTrial(h) ==
    \/ \E t \in Trials, r \in Responses : SubmitRead(h, t, r)
    \/ SubmitFetch(h)
    \/ LogEvent(h, "submitLogResponse", "response_selected", "submitLogConfidence")
    \/ LogEvent(h, "submitLogConfidence", "confidence_submitted", "submitLogCompleted")
    \/ LogEvent(h, "submitLogCompleted", "trial_completed", "submitSummary")
    \/ SubmitSummary(h) \/ SubmitComplete(h)

SubmitQuestionnaire(h) == (\E b \in MainBlocks : QuestRead(h, b)) \/ QuestStore(h)

UpdateProgress(h) == ProgressRead(h) \/ ProgressWrite(h)

MarkAwaiting(h) ==
    \/ AwaitRead(h)
    \/ WorkPending(h, "awaitPending", "awaitAnswers")
    \/ WorkAnswers(h, "awaitAnswers", "awaitWrite")
    \/ AwaitWrite(h)

FinalSubmit(h) ==
    \/ FinalRead(h)
    \/ WorkPending(h, "finalPending", "finalAnswers")
    \/ WorkAnswers(h, "finalAnswers", "finalWrite")
    \/ FinalWrite(h)

Next == \E h \in Handlers :
    \/ Start(h) \/ NextTrial(h) \/ SubmitTrial(h) \/ SubmitQuestionnaire(h)
    \/ UpdateProgress(h) \/ MarkAwaiting(h) \/ FinalSubmit(h) \/ Crash(h)

Spec == Init /\ [][Next]_vars

-----------------------------------------------------------------------------
(* Properties.                                                             *)

\* Every variable has its type.
TypeOK ==
    /\ row \in [status : Statuses, stage : Stages, block : Practice..8, index : Nat,
                started : BOOLEAN, frozen : BOOLEAN,
                completedAt : BOOLEAN, finalizedAt : BOOLEAN]
    /\ snapshot \in BOOLEAN
    /\ completed \subseteq Trials
    /\ decision \in [Trials -> Decisions \cup {NoDecision}]
    /\ summary \in [Trials -> Summaries \cup {NoSummary}]
    /\ answered \subseteq MainBlocks
    /\ events \subseteq Trials \X EventTypes
    /\ pc \in [Handlers -> Labels]
    /\ frame \in [Handlers -> Frames]

\* A completed trial has its decision, its summary and its three submission
\* events: submit_trial writes them before it sets status = 'completed', so
\* no crash, retry or overlapping request leaves a completed trial without
\* the log rows that the exports and the analysis join on.
EvidenceBeforeCompletion ==
    \A t \in completed :
        /\ snapshot
        /\ decision[t] # NoDecision
        /\ summary[t] # NoSummary
        /\ \A e \in {"response_selected", "confidence_submitted", "trial_completed"} :
               <<t, e>> \in events

\* A trial is decided, hence served and submitted, only after every earlier
\* trial of the plan was completed, although submit_trial does not check
\* the order and next_trial reads "first pending" without a lock.
ServedInOrder ==
    \A t \in Trials : decision[t] # NoDecision => 1..(t - 1) \subseteq completed

AllWorkDone == snapshot /\ completed = Trials /\ MainBlocks \subseteq answered

\* A session that waits for its final submit, or was finally submitted, has
\* all required trials and questionnaires, under every interleaving of the
\* two eligibility reads with the writes of other requests.
SubmittedMeansDone ==
    (row.status \in {"awaiting_final_submit", "finalized"} \/ row.finalizedAt) => AllWorkDone

StepReached(block, index) ==
    \E t \in completed : BlockOf[t] = block /\ index = TrialIndex(t) + 1
PositionReached(at) ==
    /\ at.stage \in {"practice", "trial"}
    /\ at.index > 0 => StepReached(at.block, at.index)

\* The position a resumed client is sent to never lies beyond the work that
\* is stored, and a questionnaire is asked for only when its block is full,
\* although the position is written from an older read.
ProgressNotAhead ==
    /\ row.index > 0 => StepReached(row.block, row.index)
    /\ row.stage = "questionnaire" => row.block \in FullBlocks

-----------------------------------------------------------------------------
(* The inductive invariant: what the tables and a handler between two      *)
(* statements know.  It never mentions a status or a stage that a handler  *)
(* read earlier, because nothing follows from one.                         *)

SubmitLabels == {"submitLogResponse", "submitLogConfidence", "submitLogCompleted",
                 "submitSummary", "submitComplete"}
FinishLabels == {"questStore", "progressRead", "progressWrite", "awaitRead", "awaitPending",
                 "awaitAnswers", "awaitWrite", "finalPending", "finalAnswers", "finalWrite"}

\* A decision for trial t counts completed trials only, and all earlier ones.
CountsTo(t, basis) == 1..(t - 1) \subseteq basis /\ basis \subseteq completed \ {t}

HandlerOK(h) ==
    LET t == frame[h].trial IN
    /\ pc[h] \in {"startFreeze", "startWrite", "nextGate", "nextPick",
                  "nextFeatures", "nextStore"} => snapshot
    /\ pc[h] = "nextGate" => frame[h].full \subseteq FullBlocks
    /\ pc[h] = "nextBlocked" => frame[h].block \in FullBlocks
    /\ pc[h] \in {"nextFeatures", "nextStore"} => 1..(t - 1) \subseteq completed
    /\ pc[h] \in {"nextStore", "nextLogStarted", "nextLogAssistance"} =>
           CountsTo(t, frame[h].basis)
    /\ pc[h] \in {"nextLogStarted", "nextLogAssistance"} => decision[t] # NoDecision
    /\ pc[h] \in SubmitLabels => snapshot /\ decision[t] # NoDecision
    /\ pc[h] \in SubmitLabels \ {"submitLogResponse"} => <<t, "response_selected">> \in events
    /\ pc[h] \in SubmitLabels \ {"submitLogResponse", "submitLogConfidence"} =>
           <<t, "confidence_submitted">> \in events
    /\ pc[h] \in {"submitSummary", "submitComplete"} => <<t, "trial_completed">> \in events
    /\ pc[h] = "submitComplete" => summary[t] # NoSummary
    /\ pc[h] = "progressWrite" => PositionReached(frame[h].at)

StoredOK ==
    /\ row.started => snapshot
    /\ \A t \in Trials : decision[t] # NoDecision => snapshot /\ CountsTo(t, decision[t])
    /\ \A t \in completed : 1..(t - 1) \subseteq completed
    /\ EvidenceBeforeCompletion
    /\ ServedInOrder
    /\ ProgressNotAhead
    /\ row.status = "finalized" \/ row.stage = "completion" => row.finalizedAt

\* What else holds when no questionnaire and no final submit is sent before
\* the session has its trials: the two eligibility reads mean what they say.
RequestOK(h) ==
    /\ pc[h] \in FinishLabels => snapshot
    /\ pc[h] \in {"awaitAnswers", "finalAnswers"} => completed = Trials
    /\ pc[h] \in {"awaitWrite", "finalWrite"} => AllWorkDone

WaitingOK ==
    /\ SubmittedMeansDone
    /\ row.stage = "awaiting_final_submit" => AllWorkDone
    /\ \A h \in Handlers : RequestOK(h)

\* Everything the proofs need of a reachable state: the stored evidence and
\* order, and what a handler that stopped between two statements of
\* start_session, next_trial, submit_trial, update_progress,
\* mark_awaiting_final_submit_if_done or final_submit may rely on.
Inductive ==
    /\ TypeOK
    /\ StoredOK
    /\ \A h \in Handlers : HandlerOK(h)
    /\ ClientWaits => WaitingOK

-----------------------------------------------------------------------------
(* Properties of requests that do not overlap.                             *)

\* The status and completed_at never show what the researcher dashboard
\* counts as a lifecycle anomaly, when requests do not overlap.
NoLifecycleAnomaly == row.status = "finalized" <=> row.completedAt

\* A trial is served only when the questionnaires of all earlier main blocks
\* are stored, when requests do not overlap.
QuestionnaireGate ==
    \A t \in Trials : decision[t] # NoDecision =>
        {b \in MainBlocks : b < BlockOf[t]} \subseteq answered

\* A retry of submit_trial, whatever answer it carries, does not change the
\* summary of a completed trial, when requests do not overlap.
CompletedAnswersFrozen ==
    [][\A t \in completed : summary'[t] = summary[t]]_vars

\* A finalized session is locked: no later request reopens it.
FinalizedIsTerminal ==
    [][row.status = "finalized" => row'.status = "finalized"]_vars

\* The stored work implements WorkLedger under every interleaving.
Ledger == INSTANCE WorkLedger WITH done <- completed, submitted <- row.finalizedAt
LedgerImplemented == Ledger!Spec

\* The status column implements SessionLifecycle when requests do not
\* overlap.
Lifecycle == INSTANCE SessionLifecycle
    WITH status <- row.status, workDone <- AllWorkDone, completedAt <- row.completedAt
LifecycleImplemented == Lifecycle!Spec

=============================================================================
