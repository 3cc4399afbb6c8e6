------------------------------ MODULE TrialLog ------------------------------
(***************************************************************************)
(* What one session writes about its trials, and how next_trial reads it   *)
(* back: the lagged features of TrialService, the risk bucket and the      *)
(* assistance decision of policies/pilot_rules.py, and the event, summary  *)
(* and questionnaire rows that the researcher's reports are built from.    *)
(*                                                                         *)
(* The requests of the session do not overlap (ParticipantSession models   *)
(* those that do), but one may be cut off between two statements and sent  *)
(* again with another answer.  What no reader tells apart is left out:     *)
(* progress and stage, the events other than clicks, response_selected and *)
(* trial_completed, all but the last of them for a trial, and whether it   *)
(* was the reason, the evidence or the verification that was clicked.  The *)
(* task has two labels, so an answer accepts the advice iff it is as right *)
(* as the advice.                                                          *)
(***************************************************************************)
EXTENDS Integers, Sequences, SequencesExt

CONSTANTS
    NTrials,       \* trials of the frozen plan, in plan order
    Block,         \* trial -> block_index; -1 is the practice block
    Condition,     \* trial -> experiment condition
    AdviceRight,   \* trial -> model_correct
    Confidence,    \* trial -> model_confidence
    Difficulty,    \* trial -> difficulty_prior
    Payloads,      \* trial -> what a participant may submit
    MarkerWindow,  \* trials the error and blind acceptance counts look back (3 in the code)
    HistoryWindow, \* completed trials considered at all (5 in the code)
    MaxFaults,     \* bound on the requests and reports that are cut off
    None           \* NULL, or no row

Trials == 1..NTrials
MainBlocks == {Block[t] : t \in Trials} \ {-1}
Levels == {"low", "medium", "high"}
Conditions == {"static_help", "monotone_help", "cabdi_lite"}

\* What a trial_summary_logs row can hold, the risk bucket of the served trial
\* included.
SummaryRows ==
    [right : BOOLEAN, clicked : BOOLEAN, latency : Nat,
     risk : {"low", "moderate", "extreme", None}]

ASSUME TrialLogAssumption ==
    /\ NTrials \in Nat \ {0}
    /\ Block \in [Trials -> -1..8] /\ MainBlocks # {}
    /\ \A t, u \in Trials : t < u => Block[t] <= Block[u]
    /\ Condition \in [Trials -> Conditions]
    /\ \A t \in Trials : Block[t] = -1 => Condition[t] = "static_help"
    /\ AdviceRight \in [Trials -> BOOLEAN]
    /\ Confidence \in [Trials -> Levels] /\ Difficulty \in [Trials -> Levels]
    /\ \A t \in Trials : /\ Payloads[t] # {}
                          /\ Payloads[t] \subseteq [right : BOOLEAN, clicked : BOOLEAN, latency : Nat]
    /\ MarkerWindow \in Nat \ {0} /\ HistoryWindow \in Nat /\ MarkerWindow <= HistoryWindow
    /\ MaxFaults \in Nat

VARIABLES
    status,    \* the session: None before it exists
    trial,     \* trial -> session_trials row, None before start_session
    summary,   \* trial -> trial_summary_logs row
    log,       \* trial -> event type -> value of the last trial_event_logs row
    answered,  \* main blocks with a block_questionnaires row
    call,      \* the request under way: its next statement and its locals
    faults     \* requests and reports cut off so far

tables == <<status, trial, summary, log, answered>>
logVars == <<status, trial, summary, log, answered, call, faults>>

Statuses == {"created", "in_progress", "awaiting_final_submit", "finalized"}
Idle == [at |-> "idle", trial |-> None, payload |-> None]
Pending == [done |-> FALSE, features |-> None, risk |-> None, decision |-> None]

\* What the lagged features of a trial can be.
FeatureRows == [errors : Nat, blind : Nat, latency : Levels, considered : Nat]

\* NULL is not a status, a trial, a truth value, a number, a summary or a row
\* of features.
ASSUME NullAssumption ==
    /\ None \notin Statuses
    /\ None \notin BOOLEAN \cup Nat
    /\ None \notin SummaryRows \cup FeatureRows
    /\ \A t \in Trials : None # t

HasRows == trial # None
Done == {t \in Trials : HasRows /\ trial[t].done}
Full == {b \in MainBlocks : {t \in Trials : Block[t] = b} \subseteq Done}
AllDone == HasRows /\ Done = Trials /\ answered = MainBlocks

-----------------------------------------------------------------------------
(* Lagged features.                                                        *)

\* The i-th of a set of numbers.
Nth(S, i) == CHOOSE u \in S : Cardinality({v \in S : v < u}) = i - 1

\* Mutant: the oldest completed trials instead of the latest.
RecentAscending(t) ==
    LET prior == Done \ {t}
        n == IF Cardinality(prior) < HistoryWindow THEN Cardinality(prior) ELSE HistoryWindow
    IN  [i \in 1..n |-> Nth(prior, i)]

\* ORDER BY completed_at DESC LIMIT 5, without the trial that is served.
\* Trials complete in plan order because they are served in plan order.
Recent(t) ==
    LET prior == Done \ {t}
        n == IF Cardinality(prior) < HistoryWindow THEN Cardinality(prior) ELSE HistoryWindow
    IN  [i \in 1..n |-> Nth(prior, Cardinality(prior) + 1 - i)]

\* What is remembered of a completed trial: correctness from its summary,
\* or from the last response event without one; a click from either; the
\* latency of the last trial_completed event, or of the summary.
Remembered(u) ==
    LET known == summary[u] # None \/ log[u].response # None
        right == IF summary[u] # None THEN summary[u].right ELSE log[u].response
        clicked == log[u].click # None \/ (summary[u] # None /\ summary[u].clicked)
    IN  [error |-> known /\ ~right,
         blind |-> known /\ ~AdviceRight[u] /\ ~right /\ ~clicked,
         latency |-> IF log[u].finish # None THEN log[u].finish
                     ELSE IF summary[u] # None THEN summary[u].latency ELSE None]

\* Twice the median of a non-empty sequence of numbers.
TwiceMedian(s) ==
    LET sorted == SortSeq(s, <)  n == Len(s)
    IN  sorted[(n + 1) \div 2] + sorted[n \div 2 + 1]

\* Latencies, the latest first, to a coarse bucket.
LatencyBucket(s) ==
    IF s = <<>> THEN "medium"
    ELSE LET median == TwiceMedian(s)  latest == s[1]  one == Len(s) = 1
         IN  IF IF one THEN latest >= 1800 ELSE median >= 3200 \/ latest >= 2200 THEN "high"
             ELSE IF IF one THEN latest <= 800 ELSE median <= 1800 /\ latest <= 1200 THEN "low"
             ELSE "medium"

Lagged(t) ==
    LET recent == Recent(t)
        records == [i \in 1..Len(recent) |-> Remembered(recent[i])]
        marked == {i \in 1..Len(records) : i <= MarkerWindow}
        timed == {i \in 1..Len(records) : records[i].latency # None}
    IN  [errors |-> Cardinality({i \in marked : records[i].error}),
         blind |-> Cardinality({i \in marked : records[i].blind}),
         latency |-> LatencyBucket([i \in 1..Cardinality(timed) |-> records[Nth(timed, i)].latency]),
         considered |-> Len(records)]

-----------------------------------------------------------------------------
(* Risk bucket and assistance.                                             *)

Markers(f) == Cardinality({m \in 1..3 : \/ m = 1 /\ f.errors >= 2
                                        \/ m = 2 /\ f.blind >= 1
                                        \/ m = 3 /\ f.latency = "high"})

RiskBucket(t, f) ==
    IF \/ Confidence[t] = "low"
       \/ Difficulty[t] = "high" /\ f.blind >= 1
       \/ Markers(f) >= 2
    THEN "extreme"
    ELSE IF Confidence[t] = "high" /\ Difficulty[t] # "high" /\ Markers(f) = 0
    THEN "low"
    ELSE "moderate"

Help(confidence, rationale, evidence, verification, compression, steps) ==
    [confidence |-> confidence, rationale |-> rationale, evidence |-> evidence,
     verification |-> verification, compression |-> compression, steps |-> steps]

\* The prediction is always shown.
PolicyDecision(condition, bucket) ==
    CASE condition = "static_help" -> Help(1, "inline", 0, "none", "none", 0)
      [] condition # "static_help" /\ bucket = "low" -> Help(0, "none", 0, "none", "none", 0)
      [] condition = "monotone_help" /\ bucket = "moderate" ->
             Help(1, "inline", 0, "none", "none", 0)
      [] condition = "monotone_help" /\ bucket = "extreme" ->
             Help(1, "inline", 1, "soft_prompt", "none", 0)
      [] condition = "cabdi_lite" /\ bucket = "moderate" ->
             Help(1, "inline", 0, "soft_prompt", "none", 0)
      [] condition = "cabdi_lite" /\ bucket = "extreme" ->
             Help(1, "on_click", 0, "forced_checkbox", "medium", 1)

\* expected_budget_signature; text tokens are 20 per component.
BudgetSignature(condition, bucket) ==
    LET d == PolicyDecision(condition, bucket)
        rationale == CASE d.rationale = "none" -> 0 [] d.rationale = "on_click" -> 1
                       [] d.rationale = "inline" -> 2
        verification == CASE d.verification = "none" -> 0 [] d.verification = "soft_prompt" -> 1
                          [] d.verification = "forced_checkbox" -> 2
        percent == IF d.compression = "medium" THEN 85 ELSE 100
        cues == d.confidence + (IF d.rationale # "none" THEN 1 ELSE 0) + d.evidence
    IN  [components |-> 1 + cues,
         display |-> ((2 + d.confidence + rationale + 2 * d.evidence) * percent + 50) \div 100,
         interaction |-> d.steps + verification,
         provenance |-> cues,
         steps |-> d.steps]

\* build_policy_decision for a bucket.
Decision(condition, bucket) ==
    [risk |-> bucket, verification |-> PolicyDecision(condition, bucket).verification # "none",
     budget |-> BudgetSignature(condition, bucket)]

\* What a session_trials row can hold.
Buckets == {"low", "moderate", "extreme"}
Decisions == {Decision(condition, bucket) : condition \in Conditions, bucket \in Buckets}
TrialRows == [done : BOOLEAN, features : FeatureRows \cup {None}, risk : Buckets \cup {None},
              decision : Decisions \cup {None}]

\* NULL is no risk bucket, no decision and no table.
ASSUME DecisionAssumption ==
    /\ None \notin Buckets
    /\ None \notin Decisions
    /\ None \notin [Trials -> TrialRows]

-----------------------------------------------------------------------------
(* The requests.                                                           *)

LogInit ==
    /\ status = None /\ trial = None
    /\ summary = [t \in Trials |-> None]
    /\ log = [t \in Trials |-> [click |-> None, response |-> None, finish |-> None]]
    /\ answered = {}
    /\ call = Idle
    /\ faults = 0

Goto(at) == call' = [call EXCEPT !.at = at]

CreateSession ==
    /\ status = None
    /\ status' = "created"
    /\ UNCHANGED <<trial, summary, log, answered, call, faults>>

\* start_session: the trial rows, then the status.
StartInsert ==
    /\ call.at = "idle" /\ status = "created" /\ ~HasRows
    /\ trial' = [t \in Trials |-> Pending]
    /\ Goto("start")
    /\ UNCHANGED <<status, summary, log, answered, faults>>

StartWrite ==
    /\ \/ call.at = "start"
       \/ call.at = "idle" /\ status = "created" /\ HasRows
    /\ status' = "in_progress"
    /\ call' = Idle
    /\ UNCHANGED <<trial, summary, log, answered, faults>>

\* Mutant: the decision is made before the lagged features are merged in.
ServeUnlagged(t) ==
    /\ call.at = "idle" /\ status \in {"created", "in_progress"} /\ HasRows
    /\ Full \subseteq answered
    /\ t \notin Done /\ \A u \in Trials \ Done : t <= u
    /\ trial[t].decision = None
    /\ LET f == Lagged(t)
           base == RiskBucket(t, [f EXCEPT !.errors = 0, !.blind = 0, !.latency = "medium"])
       IN  trial' = [trial EXCEPT ![t].features = f, ![t].risk = RiskBucket(t, f),
                                  ![t].decision = Decision(Condition[t], base)]
    /\ UNCHANGED <<status, summary, log, answered, call, faults>>

\* next_trial serves the first pending trial, once no full block misses its
\* questionnaire, and stores what it decided.
Serve(t) ==
    /\ call.at = "idle" /\ status \in {"created", "in_progress"} /\ HasRows
    /\ Full \subseteq answered
    /\ t \notin Done /\ \A u \in Trials \ Done : t <= u
    /\ trial[t].decision = None
    /\ LET f == Lagged(t)  bucket == RiskBucket(t, f)
       IN  trial' = [trial EXCEPT ![t].features = f, ![t].risk = bucket,
                                  ![t].decision = Decision(Condition[t], bucket)]
    /\ UNCHANGED <<status, summary, log, answered, call, faults>>

\* _log_event.
LogEvent(from, type, value, to) ==
    /\ call.at = from
    /\ log' = [log EXCEPT ![call.trial][type] = value]
    /\ Goto(to)
    /\ UNCHANGED <<status, trial, summary, answered, faults>>

\* submit_trial for a trial that was served and is not completed.
SubmitTrial(t, p) ==
    /\ call.at = "idle" /\ status # "finalized" /\ HasRows
    /\ ~trial[t].done /\ trial[t].decision # None
    /\ call' = [at |-> IF p.clicked THEN "logClick" ELSE "logResponse",
                trial |-> t, payload |-> p]
    /\ UNCHANGED <<tables, faults>>

WriteSummary ==
    /\ call.at = "summary"
    /\ summary' = [summary EXCEPT ![call.trial] =
                       [right |-> call.payload.right, clicked |-> call.payload.clicked,
                        latency |-> call.payload.latency, risk |-> trial[call.trial].risk]]
    /\ Goto("complete")
    /\ UNCHANGED <<status, trial, log, answered, faults>>

WriteCompleted ==
    /\ call.at = "complete"
    /\ trial' = [trial EXCEPT ![call.trial].done = TRUE]
    /\ call' = [Idle EXCEPT !.at = "await"]
    /\ UNCHANGED <<status, summary, log, answered, faults>>

\* submit_block_questionnaire, which the client sends when next_trial asks.
SubmitQuestionnaire(b) ==
    /\ call.at = "idle" /\ status # "finalized"
    /\ b \in Full \ answered
    /\ answered' = answered \cup {b}
    /\ call' = [Idle EXCEPT !.at = "await"]
    /\ UNCHANGED <<status, trial, summary, log, faults>>

MarkAwaiting ==
    /\ \/ call.at = "await"
       \/ call.at = "idle" /\ status \in {"created", "in_progress"} /\ AllDone
    /\ status' = IF AllDone THEN "awaiting_final_submit" ELSE status
    /\ call' = Idle
    /\ UNCHANGED <<trial, summary, log, answered, faults>>

\* Mutant: the status of the older schema is written.
FinalSubmitLegacy ==
    /\ call.at = "idle" /\ status \notin {None, "finalized"} /\ AllDone
    /\ status' = "completed"
    /\ UNCHANGED <<trial, summary, log, answered, call, faults>>

\* A premise on the client: the final submit of a session that was never
\* started, which required_work_status accepts because no row is missing, is
\* left out.  ParticipantWebProofs shows of the page that it sends none.
FinalSubmit ==
    /\ call.at = "idle" /\ status \notin {None, "finalized"} /\ AllDone
    /\ status' = "finalized"
    /\ UNCHANGED <<trial, summary, log, answered, call, faults>>

CutOff ==
    /\ call.at # "idle" /\ faults < MaxFaults
    /\ call' = Idle
    /\ faults' = faults + 1
    /\ UNCHANGED tables

LogNext ==
    \/ CreateSession \/ StartInsert \/ StartWrite
    \/ \E t \in Trials : Serve(t)
    \/ \E t \in Trials : \E p \in Payloads[t] : SubmitTrial(t, p)
    \/ LogEvent("logClick", "click", TRUE, "logResponse")
    \/ LogEvent("logResponse", "response", call.payload.right, "logFinish")
    \/ LogEvent("logFinish", "finish", call.payload.latency, "summary")
    \/ WriteSummary \/ WriteCompleted
    \/ \E b \in MainBlocks : SubmitQuestionnaire(b)
    \/ MarkAwaiting \/ FinalSubmit \/ CutOff

-----------------------------------------------------------------------------
(* Properties.                                                             *)

LogTypeOK ==
    /\ status \in Statuses \cup {None}
    /\ HasRows => /\ DOMAIN trial = Trials
                  /\ \A t \in Trials : trial[t].risk \in {None, "low", "moderate", "extreme"}
    /\ \A t \in Trials : log[t].response \in BOOLEAN \cup {None}
    /\ answered \subseteq MainBlocks
    /\ IF call.trial = None THEN call.payload = None
       ELSE call.trial \in Trials /\ call.payload \in Payloads[call.trial]
    /\ faults \in 0..MaxFaults

\* The features a trial was routed by are those of the answers that count,
\* the summaries of the latest completed trials, although they are put
\* together from summaries and from the events of every attempt, cut off or
\* not.  Only a click survives from an attempt that was cut off: it can hide
\* a blind acceptance, never invent one.
FeaturesFollowAnswers ==
    \A t \in Trials : HasRows /\ trial[t].features # None =>
        LET f == trial[t].features
            considered == IF t - 1 < HistoryWindow THEN t - 1 ELSE HistoryWindow
            marked == {u \in 1..(t - 1) : u >= t - MarkerWindow}
            blind == {u \in marked : ~AdviceRight[u] /\ ~summary[u].right /\ ~summary[u].clicked}
        IN  /\ f.considered = considered
            /\ f.errors = Cardinality({u \in marked : ~summary[u].right})
            /\ f.latency = LatencyBucket([i \in 1..considered |-> summary[t - i].latency])
            /\ f.blind <= Cardinality(blind)
            /\ faults = 0 => f.blind = Cardinality(blind)

=============================================================================
