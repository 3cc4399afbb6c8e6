---------------------- MODULE ParticipantSessionProofs ----------------------
(***************************************************************************)
(* Proofs about ParticipantSession for every plan, every set of handlers   *)
(* and every set of responses.                                             *)
(***************************************************************************)
EXTENDS ParticipantSession, FiniteSetTheorems, WellFoundedInduction, TLAPS

-----------------------------------------------------------------------------
(* Bounded non-empty sets of integers have a least and a greatest element. *)
(* The intervals from a bound to the elements are ordered by strict        *)
(* inclusion, which is well founded on finite sets.                        *)

\* A non-empty set of finite sets of integers has an element with no proper
\* subset in the set.
LEMMA MinimalSet ==
    ASSUME NEW T, T \subseteq FiniteSubsetsOf(Int), T # {}
    PROVE  \E t \in T : \A u \in T : u \subseteq t => u = t
<1> DEFINE R == StrictSubsetOrdering(Int)
<1>1. IsWellFoundedOn(R, FiniteSubsetsOf(Int))
  BY FS_StrictSubsetOrderingWellFounded
<1>2. \E t \in T : \A u \in T : <<u, t>> \notin R
  <2> HIDE DEF R
  <2> QED  BY <1>1, WFMin
<1>3. T \subseteq SUBSET Int
  BY DEF FiniteSubsetsOf
<1> QED  BY <1>2, <1>3 DEF StrictSubsetOrdering

\* Min is what its name says.
LEMMA MinOfBounded ==
    ASSUME NEW a \in Int, NEW b \in Int, NEW S \in SUBSET (a..b), S # {}
    PROVE  Min(S) \in S /\ \A y \in S : Min(S) <= y
<1> DEFINE T == {a..x : x \in S}
<1>1. T \subseteq FiniteSubsetsOf(Int)
  <2> SUFFICES ASSUME NEW x \in S PROVE a..x \in FiniteSubsetsOf(Int)
    OBVIOUS
  <2>1. IsFiniteSet(a..x)
    BY FS_Interval
  <2> QED  BY <2>1 DEF FiniteSubsetsOf
<1>2. PICK t \in T : \A u \in T : u \subseteq t => u = t
  <2>1. T # {}
    OBVIOUS
  <2> HIDE DEF T
  <2> QED  BY <1>1, <2>1, MinimalSet
<1>3. PICK x \in S : t = a..x
  OBVIOUS
<1>4. \A y \in S : x <= y
  <2> SUFFICES ASSUME NEW y \in S, y < x PROVE FALSE
    OBVIOUS
  <2>1. (a..y) \subseteq (a..x) /\ x \in (a..x) /\ x \notin (a..y)
    OBVIOUS
  <2> QED  BY <2>1, <1>2, <1>3
<1> QED  BY <1>4 DEF Min

\* Max is what its name says.
LEMMA MaxOfBounded ==
    ASSUME NEW a \in Int, NEW b \in Int, NEW S \in SUBSET (a..b), S # {}
    PROVE  Max(S) \in S /\ \A y \in S : y <= Max(S)
<1> DEFINE T == {x..b : x \in S}
<1>1. T \subseteq FiniteSubsetsOf(Int)
  <2> SUFFICES ASSUME NEW x \in S PROVE x..b \in FiniteSubsetsOf(Int)
    OBVIOUS
  <2>1. IsFiniteSet(x..b)
    BY FS_Interval
  <2> QED  BY <2>1 DEF FiniteSubsetsOf
<1>2. PICK t \in T : \A u \in T : u \subseteq t => u = t
  <2>1. T # {}
    OBVIOUS
  <2> HIDE DEF T
  <2> QED  BY <1>1, <2>1, MinimalSet
<1>3. PICK x \in S : t = x..b
  OBVIOUS
<1>4. \A y \in S : y <= x
  <2> SUFFICES ASSUME NEW y \in S, x < y PROVE FALSE
    OBVIOUS
  <2>1. (y..b) \subseteq (x..b) /\ x \in (x..b) /\ x \notin (y..b)
    OBVIOUS
  <2> QED  BY <2>1, <1>2, <1>3
<1> QED  BY <1>4 DEF Max

(***************************************************************************)
(* The operators of the model have the types they should.                  *)
(***************************************************************************)
LEMMA TrialIndexType == ASSUME NEW t \in Trials PROVE TrialIndex(t) \in Nat
<1>1. IsFiniteSet(Trials)
  BY PlanAssumption, FS_Interval DEF Trials
<1>2. {u \in Trials : u < t /\ BlockOf[u] = BlockOf[t]} \in SUBSET Trials
  OBVIOUS
<1> QED  BY <1>1, <1>2, FS_Subset, FS_CardinalityType DEF TrialIndex

\* Block indices lie between that of practice and 8.
LEMMA BlocksInRange ==
    /\ MainBlocks \subseteq Practice..8
BY PlanAssumption DEF MainBlocks, Practice

\* An idle handler's frame is well typed.
LEMMA EmptyFrameType == EmptyFrame \in Frames
<1>1. 1 \in Trials
  BY PlanAssumption DEF Trials
<1>2. (CHOOSE r \in Responses : TRUE) \in Responses
  BY ParameterAssumption
<1>3. (CHOOSE b \in MainBlocks : TRUE) \in MainBlocks
  BY PlanAssumption
<1>4. [stage |-> "consent", block |-> -1, index |-> 0] \in Positions
  BY DEF Positions, Stages, Practice
<1> QED  BY <1>1, <1>2, <1>3, <1>4 DEF EmptyFrame, Frames, Statuses, Decisions

\* The minimum of a non-empty set of trials or of main blocks is one of it.
LEMMA MinTrial ==
    ASSUME NEW S \in SUBSET Trials, S # {}
    PROVE  Min(S) \in S /\ \A t \in S : Min(S) <= t
<1>1. NTrials \in Int /\ 1 \in Int /\ S \in SUBSET (1..NTrials)
  BY PlanAssumption DEF Trials
<1> QED  BY <1>1, MinOfBounded

\* A non-empty set of main blocks has a first one.
LEMMA MinBlock ==
    ASSUME NEW S \in SUBSET MainBlocks, S # {}
    PROVE  Min(S) \in S
<1>1. Practice \in Int /\ 8 \in Int /\ S \in SUBSET (Practice..8)
  BY BlocksInRange DEF Practice
<1> QED  BY <1>1, MinOfBounded

\* The last completed trial is completed.
LEMMA MaxTrial ==
    ASSUME NEW S \in SUBSET Trials, S # {}
    PROVE  Max(S) \in S
<1>1. NTrials \in Int /\ 1 \in Int /\ S \in SUBSET (1..NTrials)
  BY PlanAssumption DEF Trials
<1> QED  BY <1>1, MaxOfBounded

\* update_progress computes a position of the plan.
LEMMA ReachedType == ASSUME completed \subseteq Trials PROVE Reached \in Positions
<1>1. CASE completed = {}
  BY <1>1 DEF Reached, InitialStage, Positions, Stages, Practice
<1>2. CASE completed # {}
  <2> DEFINE last == Max(completed)
  <2>1. last \in Trials
    BY <1>2, MaxTrial
  <2>2. TrialIndex(last) + 1 \in Nat /\ BlockOf[last] \in Practice..8
    BY <2>1, TrialIndexType, PlanAssumption
  <2> HIDE DEF last
  <2> QED  BY <1>2, <2>2 DEF Reached, Positions, Stages, last
<1> QED  BY <1>1, <1>2

(***************************************************************************)
(* Type correctness.                                                       *)
(***************************************************************************)
LEMMA InitType == Init => TypeOK
<1> SUFFICES ASSUME Init PROVE TypeOK
  OBVIOUS
<1>1. row \in [status : Statuses, stage : Stages, block : Practice..8, index : Nat,
                started : BOOLEAN, frozen : BOOLEAN,
                completedAt : BOOLEAN, finalizedAt : BOOLEAN]
  BY DEF Init, Statuses, Stages, Practice
<1>2. /\ decision \in [Trials -> Decisions \cup {NoDecision}]
      /\ summary \in [Trials -> Summaries \cup {NoSummary}]
  BY DEF Init
<1>3. pc \in [Handlers -> Labels] /\ frame \in [Handlers -> Frames]
  BY EmptyFrameType DEF Init, Labels
<1> QED  BY <1>1, <1>2, <1>3 DEF Init, TypeOK

\* What Goto and Return do to the types of pc and frame.
LEMMA GotoType ==
    ASSUME TypeOK, NEW h \in Handlers, NEW label \in Labels, Goto(h, label)
    PROVE  pc' \in [Handlers -> Labels]
BY DEF TypeOK, Goto

\* A handler that ends leaves pc and frame well typed.
LEMMA ReturnType ==
    ASSUME TypeOK, NEW h \in Handlers, Return(h)
    PROVE  pc' \in [Handlers -> Labels] /\ frame' \in [Handlers -> Frames]
BY EmptyFrameType DEF TypeOK, Return, Labels

\* start_session's early returns keep the types.
LEMMA StartGateType ==
    ASSUME TypeOK, NEW h \in Handlers, StartGate(h)
    PROVE  pc' \in [Handlers -> Labels] /\ frame' \in [Handlers -> Frames]
BY ReturnType, GotoType DEF StartGate, TypeOK, Labels

\* The statements of start_session keep the types.
LEMMA StartType ==
    ASSUME TypeOK, NEW h \in Handlers, Start(h) PROVE TypeOK'
<1>1. CASE StartRead(h)
  <2>1. pc' \in [Handlers -> Labels]
    BY <1>1, GotoType DEF StartRead, Labels
  <2>2. frame' \in [Handlers -> Frames]
    BY <1>1 DEF StartRead, TypeOK, Frames
  <2> QED  BY <1>1, <2>1, <2>2 DEF StartRead, TypeOK, tables
<1>2. CASE StartFind(h)
  <2>1. pc' \in [Handlers -> Labels] /\ frame' \in [Handlers -> Frames]
    BY <1>2, StartGateType, GotoType DEF StartFind, Labels, TypeOK
  <2> QED  BY <1>2, <2>1 DEF StartFind, TypeOK, tables
<1>3. CASE StartInsert(h)
  <2>1. pc' \in [Handlers -> Labels] /\ frame' \in [Handlers -> Frames]
    BY <1>3, ReturnType, GotoType DEF StartInsert, Labels, TypeOK
  <2> QED  BY <1>3, <2>1 DEF StartInsert, TypeOK
<1>4. CASE StartFreeze(h)
  <2>1. pc' \in [Handlers -> Labels] /\ frame' \in [Handlers -> Frames]
    BY <1>4, StartGateType DEF StartFreeze
  <2> QED  BY <1>4, <2>1 DEF StartFreeze, TypeOK
<1>5. CASE StartWrite(h)
  <2>1. pc' \in [Handlers -> Labels] /\ frame' \in [Handlers -> Frames]
    BY <1>5, ReturnType DEF StartWrite
  <2>2. InitialStage \in Stages /\ "in_progress" \in Statuses
    BY DEF InitialStage, Stages, Statuses
  <2> QED  BY <1>5, <2>1, <2>2 DEF StartWrite, TypeOK
<1> QED  BY <1>1, <1>2, <1>3, <1>4, <1>5 DEF Start

\* _log_event keeps the types.
LEMMA LogEventType ==
    ASSUME TypeOK, NEW h \in Handlers, NEW from, NEW event \in EventTypes,
           NEW to \in Labels, LogEvent(h, from, event, to)
    PROVE  TypeOK'
<1>1. pc' \in [Handlers -> Labels] /\ frame' \in [Handlers -> Frames]
  BY ReturnType, GotoType DEF LogEvent, TypeOK
<1>2. frame[h].trial \in Trials
  BY DEF TypeOK, Frames
<1> QED  BY <1>1, <1>2 DEF LogEvent, TypeOK

\* The statements of next_trial keep the types.
LEMMA NextTrialType ==
    ASSUME TypeOK, NEW h \in Handlers, NextTrial(h) PROVE TypeOK'
<1>1. CASE NextRead(h)
  BY <1>1, GotoType DEF NextRead, Labels, TypeOK, tables
<1>2. CASE NextBlocks(h)
  <2>1. pc' \in [Handlers -> Labels]
    BY <1>2, ReturnType, GotoType DEF NextBlocks, Labels
  <2>2. frame' \in [Handlers -> Frames]
    BY <1>2, ReturnType DEF NextBlocks, TypeOK, Frames, FullBlocks
  <2> QED  BY <1>2, <2>1, <2>2 DEF NextBlocks, TypeOK, tables
<1>3. CASE NextGate(h)
  <2>1. pc' \in [Handlers -> Labels]
    BY <1>3, GotoType DEF NextGate, Labels
  <2>2. frame[h].full \ answered \in SUBSET MainBlocks
    BY DEF TypeOK, Frames
  <2>3. frame' \in [Handlers -> Frames]
    <3> DEFINE missing == frame[h].full \ answered
    <3>1. CASE missing = {}
      BY <1>3, <3>1 DEF NextGate, TypeOK
    <3>2. CASE missing # {}
      <4>1. Min(missing) \in MainBlocks
        BY <2>2, <3>2, MinBlock
      <4>2. frame' = [frame EXCEPT ![h].block = Min(missing)]
        BY <1>3, <3>2 DEF NextGate
      <4> HIDE DEF missing
      <4> QED  BY <4>1, <4>2 DEF TypeOK, Frames
    <3> QED  BY <3>1, <3>2
  <2> QED  BY <1>3, <2>1, <2>3 DEF NextGate, TypeOK, tables
<1>4. CASE NextBlocked(h)
  <2>1. pc' \in [Handlers -> Labels] /\ frame' \in [Handlers -> Frames]
    BY <1>4, ReturnType DEF NextBlocked
  <2>2. frame[h].block \in Practice..8
    BY BlocksInRange DEF TypeOK, Frames
  <2> QED  BY <1>4, <2>1, <2>2 DEF NextBlocked, TypeOK, Stages
<1>5. CASE NextPick(h)
  <2>1. pc' \in [Handlers -> Labels]
    BY <1>5, ReturnType, GotoType DEF NextPick, Labels
  <2>2. frame' \in [Handlers -> Frames]
    <3> DEFINE pending == Trials \ completed
    <3>1. CASE pending = {} \/ (pending # {} /\ decision[Min(pending)] # NoDecision)
      BY <1>5, <3>1, ReturnType DEF NextPick, TypeOK
    <3>2. CASE pending # {} /\ decision[Min(pending)] = NoDecision
      <4>1. Min(pending) \in Trials
        BY <3>2, MinTrial
      <4>2. frame' = [frame EXCEPT ![h].trial = Min(pending)]
        BY <1>5, <3>2 DEF NextPick
      <4> HIDE DEF pending
      <4> QED  BY <4>1, <4>2 DEF TypeOK, Frames
    <3> QED  BY <3>1, <3>2
  <2> QED  BY <1>5, <2>1, <2>2 DEF NextPick, TypeOK, tables
<1>6. CASE NextFeatures(h)
  <2>1. pc' \in [Handlers -> Labels]
    BY <1>6, GotoType DEF NextFeatures, Labels
  <2>2. completed \ {frame[h].trial} \in Decisions
    BY DEF TypeOK, Decisions
  <2>3. frame' \in [Handlers -> Frames]
    <3> DEFINE v == completed \ {frame[h].trial}
    <3>1. v \in Decisions /\ frame' = [frame EXCEPT ![h].basis = v]
      BY <1>6, <2>2 DEF NextFeatures
    <3> HIDE DEF v
    <3> QED  BY <3>1 DEF TypeOK, Frames
  <2> QED  BY <1>6, <2>1, <2>3 DEF NextFeatures, TypeOK, tables
<1>7. CASE NextStore(h)
  <2>1. pc' \in [Handlers -> Labels]
    BY <1>7, GotoType DEF NextStore, Labels
  <2>2. frame[h].basis \in Decisions
    BY DEF TypeOK, Frames
  <2> QED  BY <1>7, <2>1, <2>2 DEF NextStore, TypeOK
<1>8. CASE LogEvent(h, "nextLogStarted", "trial_started", "nextLogAssistance")
  BY <1>8, LogEventType DEF EventTypes, Labels
<1>9. CASE LogEvent(h, "nextLogAssistance", "assistance_rendered", "idle")
  BY <1>9, LogEventType DEF EventTypes, Labels
<1> QED
  BY <1>1, <1>2, <1>3, <1>4, <1>5, <1>6, <1>7, <1>8, <1>9 DEF NextTrial

\* The statements of submit_trial keep the types.
LEMMA SubmitTrialType ==
    ASSUME TypeOK, NEW h \in Handlers, SubmitTrial(h) PROVE TypeOK'
<1>1. CASE \E t \in Trials, r \in Responses : SubmitRead(h, t, r)
  <2>1. PICK t \in Trials, r \in Responses : SubmitRead(h, t, r)
    BY <1>1
  <2>2. pc' \in [Handlers -> Labels]
    BY <2>1, GotoType DEF SubmitRead, Labels
  <2>3. frame' \in [Handlers -> Frames]
    <3>1. [frame[h] EXCEPT !.trial = t, !.response = r] \in Frames
      BY DEF TypeOK, Frames
    <3> QED  BY <2>1, <3>1 DEF SubmitRead, TypeOK
  <2> QED  BY <2>1, <2>2, <2>3 DEF SubmitRead, TypeOK, tables
<1>2. CASE SubmitFetch(h)
  <2>1. pc' \in [Handlers -> Labels]
    BY <1>2, ReturnType, GotoType DEF SubmitFetch, Labels
  <2>2. frame' \in [Handlers -> Frames]
    BY <1>2, ReturnType DEF SubmitFetch, TypeOK, Frames
  <2> QED  BY <1>2, <2>1, <2>2 DEF SubmitFetch, TypeOK, tables
<1>3. CASE LogEvent(h, "submitLogResponse", "response_selected", "submitLogConfidence")
  BY <1>3, LogEventType DEF EventTypes, Labels
<1>4. CASE LogEvent(h, "submitLogConfidence", "confidence_submitted", "submitLogCompleted")
  BY <1>4, LogEventType DEF EventTypes, Labels
<1>5. CASE LogEvent(h, "submitLogCompleted", "trial_completed", "submitSummary")
  BY <1>5, LogEventType DEF EventTypes, Labels
<1>6. CASE SubmitSummary(h)
  <2>1. pc' \in [Handlers -> Labels]
    BY <1>6, GotoType DEF SubmitSummary, Labels
  <2>2. frame[h].basis \in Decisions
    BY DEF TypeOK, Frames
  <2> QED  BY <1>6, <2>1, <2>2 DEF SubmitSummary, TypeOK, Summaries, Frames
<1>7. CASE SubmitComplete(h)
  <2>1. pc' \in [Handlers -> Labels]
    BY <1>7, GotoType DEF SubmitComplete, Labels
  <2>2. frame[h].trial \in Trials
    BY DEF TypeOK, Frames
  <2> QED  BY <1>7, <2>1, <2>2 DEF SubmitComplete, TypeOK
<1> QED  BY <1>1, <1>2, <1>3, <1>4, <1>5, <1>6, <1>7 DEF SubmitTrial

\* The statements of submit_block_questionnaire keep the types.
LEMMA SubmitQuestionnaireType ==
    ASSUME TypeOK, NEW h \in Handlers, SubmitQuestionnaire(h) PROVE TypeOK'
<1>1. CASE \E b \in MainBlocks : QuestRead(h, b)
  <2>1. PICK b \in MainBlocks : QuestRead(h, b)
    BY <1>1
  <2>2. pc' \in [Handlers -> Labels]
    BY <2>1, GotoType DEF QuestRead, Labels
  <2>3. frame' \in [Handlers -> Frames]
    BY <2>1 DEF QuestRead, TypeOK, Frames
  <2> QED  BY <2>1, <2>2, <2>3 DEF QuestRead, TypeOK, tables
<1>2. CASE QuestStore(h)
  <2>1. pc' \in [Handlers -> Labels]
    BY <1>2, GotoType DEF QuestStore, Labels
  <2>2. frame[h].block \in MainBlocks
    BY DEF TypeOK, Frames
  <2> QED  BY <1>2, <2>1, <2>2 DEF QuestStore, TypeOK
<1> QED  BY <1>1, <1>2 DEF SubmitQuestionnaire

\* The statements of update_progress keep the types.
LEMMA UpdateProgressType ==
    ASSUME TypeOK, NEW h \in Handlers, UpdateProgress(h) PROVE TypeOK'
<1>1. CASE ProgressRead(h)
  <2>1. pc' \in [Handlers -> Labels]
    BY <1>1, GotoType DEF ProgressRead, Labels
  <2>2. Reached \in Positions
    BY ReachedType DEF TypeOK
  <2>3. frame' \in [Handlers -> Frames]
    BY <1>1, <2>2, EmptyFrameType DEF ProgressRead, TypeOK, Frames
  <2> QED  BY <1>1, <2>1, <2>3 DEF ProgressRead, TypeOK, tables
<1>2. CASE ProgressWrite(h)
  <2>1. pc' \in [Handlers -> Labels]
    BY <1>2, GotoType DEF ProgressWrite, Labels
  <2>2. frame[h].at \in Positions
    BY DEF TypeOK, Frames
  <2>3. frame' \in [Handlers -> Frames]
    BY <1>2, EmptyFrameType DEF ProgressWrite, TypeOK
  <2> QED  BY <1>2, <2>1, <2>2, <2>3 DEF ProgressWrite, TypeOK, Positions
<1> QED  BY <1>1, <1>2 DEF UpdateProgress

\* required_work_status keeps the types.
LEMMA WorkType ==
    ASSUME TypeOK, NEW h \in Handlers, NEW from, NEW to \in Labels,
           WorkPending(h, from, to) \/ WorkAnswers(h, from, to)
    PROVE  TypeOK'
<1>1. pc' \in [Handlers -> Labels] /\ frame' \in [Handlers -> Frames]
  BY ReturnType, GotoType DEF WorkPending, WorkAnswers, TypeOK
<1> QED  BY <1>1 DEF WorkPending, WorkAnswers, TypeOK, tables

\* The statements of mark_awaiting_final_submit_if_done keep the types.
LEMMA MarkAwaitingType ==
    ASSUME TypeOK, NEW h \in Handlers, MarkAwaiting(h) PROVE TypeOK'
<1>1. CASE AwaitRead(h)
  <2>1. pc' \in [Handlers -> Labels] /\ frame' \in [Handlers -> Frames]
    BY <1>1, ReturnType, GotoType DEF AwaitRead, Labels, TypeOK
  <2> QED  BY <1>1, <2>1 DEF AwaitRead, TypeOK, tables
<1>2. CASE WorkPending(h, "awaitPending", "awaitAnswers")
  BY <1>2, WorkType DEF Labels
<1>3. CASE WorkAnswers(h, "awaitAnswers", "awaitWrite")
  BY <1>3, WorkType DEF Labels
<1>4. CASE AwaitWrite(h)
  <2>1. pc' \in [Handlers -> Labels] /\ frame' \in [Handlers -> Frames]
    BY <1>4, ReturnType DEF AwaitWrite
  <2> QED  BY <1>4, <2>1 DEF AwaitWrite, TypeOK, Statuses, Stages
<1> QED  BY <1>1, <1>2, <1>3, <1>4 DEF MarkAwaiting

\* The statements of final_submit keep the types.
LEMMA FinalSubmitType ==
    ASSUME TypeOK, NEW h \in Handlers, FinalSubmit(h) PROVE TypeOK'
<1>1. CASE FinalRead(h)
  BY <1>1, GotoType DEF FinalRead, Labels, TypeOK, tables
<1>2. CASE WorkPending(h, "finalPending", "finalAnswers")
  BY <1>2, WorkType DEF Labels
<1>3. CASE WorkAnswers(h, "finalAnswers", "finalWrite")
  BY <1>3, WorkType DEF Labels
<1>4. CASE FinalWrite(h)
  <2>1. pc' \in [Handlers -> Labels] /\ frame' \in [Handlers -> Frames]
    BY <1>4, ReturnType DEF FinalWrite
  <2> QED  BY <1>4, <2>1 DEF FinalWrite, TypeOK, Statuses, Stages
<1> QED  BY <1>1, <1>2, <1>3, <1>4 DEF FinalSubmit

\* Every step keeps the types.
LEMMA NextType == TypeOK /\ [Next]_vars => TypeOK'
<1> SUFFICES ASSUME TypeOK, [Next]_vars PROVE TypeOK'
  OBVIOUS
<1>1. CASE Next
  <2>1. PICK h \in Handlers :
            \/ Start(h) \/ NextTrial(h) \/ SubmitTrial(h) \/ SubmitQuestionnaire(h)
            \/ UpdateProgress(h) \/ MarkAwaiting(h) \/ FinalSubmit(h) \/ Crash(h)
    BY <1>1 DEF Next
  <2>2. CASE Crash(h)
    <3>1. pc' \in [Handlers -> Labels] /\ frame' \in [Handlers -> Frames]
      BY <2>2, ReturnType DEF Crash
    <3> QED  BY <2>2, <3>1 DEF Crash, TypeOK, tables
  <2> QED
    BY <2>1, <2>2, StartType, NextTrialType, SubmitTrialType, SubmitQuestionnaireType,
       UpdateProgressType, MarkAwaitingType, FinalSubmitType
<1>2. CASE UNCHANGED vars
  BY <1>2 DEF vars, TypeOK
<1> QED  BY <1>1, <1>2

\* Every reachable state of the session tables and of the handlers' locals
\* has its type: row values, frozen plan, decisions, summaries, program
\* counters (session_service.py, trial_service.py).
THEOREM TypeCorrect == Spec => []TypeOK
BY InitType, NextType, PTL DEF Spec

-----------------------------------------------------------------------------
(* The safety invariants of ParticipantSession, under every interleaving   *)
(* of any number of request handlers and with a crash between any two      *)
(* statements, and the refinement of WorkLedger.                           *)
(*                                                                         *)
(* None of the invariants is inductive alone: whether submit_trial may     *)
(* complete a trial depends on what it read before it logged the events.   *)
(* Inductive therefore adds one line per program counter.  A step of one   *)
(* handler never invalidates what another one knows, because all of it is  *)
(* monotone in the tables (Grows).                                         *)

\* What is stored is never withdrawn.
Grows ==
    /\ snapshot => snapshot'
    /\ completed \subseteq completed'
    /\ answered \subseteq answered'
    /\ events \subseteq events'
    /\ \A t \in Trials : decision[t] # NoDecision => decision'[t] # NoDecision
    /\ \A t \in Trials : summary[t] # NoSummary => summary'[t] # NoSummary

\* Only handler h moves.
Moves(h) == \A g \in Handlers \ {h} : pc'[g] = pc[g] /\ frame'[g] = frame[g]

-----------------------------------------------------------------------------
(* Monotonicity.                                                           *)

\* Completed blocks stay completed.
LEMMA FullBlocksGrow ==
    ASSUME completed \subseteq completed' PROVE FullBlocks \subseteq FullBlocks'
BY DEF FullBlocks

\* A position that was reached stays reached.
LEMMA StepReachedGrows ==
    ASSUME completed \subseteq completed', NEW block, NEW index, StepReached(block, index)
    PROVE  StepReached(block, index)'
BY DEF StepReached, TrialIndex

\* Work that is all done stays all done.
LEMMA WorkDoneGrows ==
    ASSUME TypeOK, TypeOK', Grows, AllWorkDone PROVE AllWorkDone'
BY DEF TypeOK, Grows, AllWorkDone

\* What a handler relies on survives the steps of the others.
LEMMA OtherHandlerOK ==
    ASSUME TypeOK, TypeOK', Grows, NEW g \in Handlers, HandlerOK(g),
           pc'[g] = pc[g], frame'[g] = frame[g]
    PROVE  HandlerOK(g)'
<1>1. FullBlocks \subseteq FullBlocks'
  BY FullBlocksGrow DEF Grows
<1>2. PositionReached(frame[g].at) => PositionReached(frame[g].at)'
  BY StepReachedGrows DEF Grows, PositionReached
<1>3. \A t, basis : CountsTo(t, basis) => CountsTo(t, basis)'
  BY DEF CountsTo, Grows
<1>4. frame[g].trial \in Trials
  BY DEF TypeOK, Frames
<1> QED
  BY <1>1, <1>2, <1>3, <1>4 DEF HandlerOK, Grows, CountsTo

\* So it is enough to look at the handler that moves.
LEMMA HandlersOK ==
    ASSUME Inductive, TypeOK', Grows, NEW h \in Handlers, Moves(h), HandlerOK(h)'
    PROVE  \A g \in Handlers : HandlerOK(g)'
<1> SUFFICES ASSUME NEW g \in Handlers, g # h PROVE HandlerOK(g)'
  OBVIOUS
<1> QED  BY OtherHandlerOK DEF Inductive, Moves

\* At these labels a handler has read nothing that it relies on.
LEMMA FreeOK ==
    ASSUME NEW h \in Handlers,
           pc'[h] \in {"idle", "startFind", "startInsert", "nextBlocks", "submitFetch",
                       "questStore", "progressRead", "awaitRead", "awaitPending",
                       "awaitAnswers", "awaitWrite", "finalPending", "finalAnswers",
                       "finalWrite"}
    PROVE  HandlerOK(h)'
BY DEF HandlerOK, SubmitLabels

\* A step that writes no table lets nothing shrink.
LEMMA GrowsTables == ASSUME UNCHANGED tables PROVE Grows
BY DEF Grows, tables

\* A step that writes no table keeps what is stored consistent.
LEMMA StoredTables == ASSUME StoredOK, UNCHANGED tables PROVE StoredOK'
<1>1. FullBlocks' = FullBlocks /\ AllWorkDone' = AllWorkDone
  BY DEF FullBlocks, AllWorkDone, tables
<1>2. \A b, i : StepReached(b, i)' <=> StepReached(b, i)
  BY DEF StepReached, TrialIndex, tables
<1> QED
  BY <1>1, <1>2 DEF StoredOK, EvidenceBeforeCompletion, ServedInOrder, ProgressNotAhead,
     CountsTo, tables

\* A handler that ends moves no other.
LEMMA ReturnMoves ==
    ASSUME TypeOK, NEW h \in Handlers, Return(h)
    PROVE  pc'[h] = "idle" /\ Moves(h)
BY DEF TypeOK, Return, Moves

\* A handler that goes on moves no other.
LEMMA GotoMoves ==
    ASSUME TypeOK, NEW h \in Handlers, NEW label, Goto(h, label)
    PROVE  pc'[h] = label /\ \A g \in Handlers \ {h} : pc'[g] = pc[g]
BY DEF TypeOK, Goto

\* What has to be shown of a step of handler h.
Sound(h) == StoredOK' /\ Grows /\ Moves(h) /\ HandlerOK(h)'

\* Steps that write no table keep the invariant.
LEMMA QuietSound ==
    ASSUME Inductive, NEW h \in Handlers, UNCHANGED tables, Moves(h), HandlerOK(h)'
    PROVE  Sound(h)
BY GrowsTables, StoredTables DEF Sound, Inductive

\* Only the session row changes.
LEMMA RowSound ==
    ASSUME Inductive, NEW h \in Handlers,
           UNCHANGED <<snapshot, completed, decision, summary, answered, events>>,
           row'.started => snapshot,
           row'.index > 0 => StepReached(row'.block, row'.index),
           row'.stage = "questionnaire" => row'.block \in FullBlocks,
           row'.status = "finalized" \/ row'.stage = "completion" => row'.finalizedAt,
           Moves(h), HandlerOK(h)'
    PROVE  Sound(h)
<1>1. FullBlocks' = FullBlocks /\ AllWorkDone' = AllWorkDone
  BY DEF FullBlocks, AllWorkDone
<1>2. \A b, i : StepReached(b, i)' <=> StepReached(b, i)
  BY DEF StepReached, TrialIndex
<1>3. StoredOK'
  BY <1>1, <1>2 DEF Inductive, StoredOK, EvidenceBeforeCompletion, ServedInOrder,
     ProgressNotAhead, CountsTo
<1> QED  BY <1>3 DEF Sound, Grows

\* Rows other than the session row and the completed trials change.
LEMMA EvidenceSound ==
    ASSUME Inductive, TypeOK', NEW h \in Handlers, Grows, row' = row,
           completed' = completed,
           \A t \in Trials : decision'[t] # NoDecision =>
               snapshot' /\ CountsTo(t, decision'[t]),
           Moves(h), HandlerOK(h)'
    PROVE  Sound(h)
<1>1. FullBlocks' = FullBlocks
  BY DEF FullBlocks
<1>2. \A b, i : StepReached(b, i)' <=> StepReached(b, i)
  BY DEF StepReached, TrialIndex
<1>3. EvidenceBeforeCompletion'
  <2> SUFFICES ASSUME NEW t \in completed
      PROVE  /\ snapshot' /\ decision'[t] # NoDecision /\ summary'[t] # NoSummary
             /\ \A e \in {"response_selected", "confidence_submitted", "trial_completed"} :
                    <<t, e>> \in events'
    BY DEF EvidenceBeforeCompletion
  <2> QED  BY DEF Inductive, StoredOK, EvidenceBeforeCompletion, Grows, TypeOK
<1>4. StoredOK'
  BY <1>1, <1>2, <1>3 DEF Inductive, StoredOK, ServedInOrder, ProgressNotAhead, Grows,
     CountsTo
<1> QED  BY <1>4 DEF Sound

-----------------------------------------------------------------------------
(* One lemma per request.                                                  *)

\* start_session's early returns keep the invariant.
LEMMA StartGateSound ==
    ASSUME Inductive, NEW h \in Handlers, StartGate(h), snapshot'
    PROVE  Moves(h) /\ HandlerOK(h)'
<1>1. CASE Return(h)
  BY <1>1, ReturnMoves, FreeOK DEF Inductive
<1>2. CASE Goto(h, "startWrite") /\ UNCHANGED frame
  <2>1. pc'[h] = "startWrite" /\ Moves(h)
    BY <1>2, GotoMoves DEF Inductive, Moves
  <2> QED  BY <2>1 DEF HandlerOK, SubmitLabels
<1> QED  BY <1>1, <1>2 DEF StartGate

\* The statements of start_session keep the invariant.
LEMMA StartSound ==
    ASSUME Inductive, TypeOK', NEW h \in Handlers, Start(h) PROVE Sound(h)
<1> USE DEF Inductive
<1>1. CASE StartRead(h)
  <2>1. pc'[h] = "startFind" /\ Moves(h)
    BY <1>1, GotoMoves DEF StartRead, Moves, TypeOK
  <2> QED  BY <1>1, <2>1, FreeOK, QuietSound DEF StartRead
<1>2. CASE StartFind(h)
  <2>1. CASE snapshot
    BY <1>2, <2>1, StartGateSound, QuietSound DEF StartFind, tables
  <2>2. CASE ~snapshot
    <3>1. pc'[h] = "startInsert" /\ Moves(h)
      BY <1>2, <2>2, GotoMoves DEF StartFind, Moves
    <3> QED  BY <1>2, <3>1, FreeOK, QuietSound DEF StartFind
  <2> QED  BY <2>1, <2>2
<1>3. CASE StartInsert(h)
  <2>1. Moves(h) /\ pc'[h] \in {"idle", "startFreeze"}
    BY <1>3, ReturnMoves, GotoMoves DEF StartInsert, Moves
  <2>2. HandlerOK(h)'
    BY <1>3, <2>1 DEF StartInsert, HandlerOK, SubmitLabels
  <2>3. Grows
    BY <1>3 DEF StartInsert, Grows
  <2> QED  BY <1>3, <2>1, <2>2, <2>3, EvidenceSound DEF StartInsert, StoredOK
<1>4. CASE StartFreeze(h)
  <2>1. snapshot
    BY <1>4 DEF StartFreeze, HandlerOK
  <2>2. Moves(h) /\ HandlerOK(h)'
    BY <1>4, <2>1, StartGateSound DEF StartFreeze
  <2>3. row' = [row EXCEPT !.frozen = TRUE]
    BY <1>4 DEF StartFreeze
  <2> QED
    BY <1>4, <2>2, <2>3, RowSound
    DEF StartFreeze, StoredOK, ProgressNotAhead, TypeOK
<1>5. CASE StartWrite(h)
  <2>1. snapshot
    BY <1>5 DEF StartWrite, HandlerOK
  <2>2. Moves(h) /\ HandlerOK(h)'
    BY <1>5, ReturnMoves, FreeOK DEF StartWrite
  <2>3. /\ row'.status = "in_progress" /\ row'.started /\ row'.finalizedAt = row.finalizedAt
        /\ row'.index = row.index /\ row'.block = row.block
        /\ row'.stage \in {row.stage, "practice", "trial"}
    BY <1>5 DEF StartWrite, TypeOK, InitialStage
  <2> QED
    BY <1>5, <2>1, <2>2, <2>3, RowSound
    DEF StartWrite, StoredOK, ProgressNotAhead
<1> QED  BY <1>1, <1>2, <1>3, <1>4, <1>5 DEF Start

\* _log_event keeps the invariant.
LEMMA LogEventSound ==
    ASSUME Inductive, TypeOK', NEW h \in Handlers, NEW from, NEW event, NEW to,
           LogEvent(h, from, event, to),
           <<frame[h].trial, event>> \in events' => HandlerOK(h)'
    PROVE  Sound(h)
<1>1. Moves(h)
  BY ReturnMoves, GotoMoves DEF Inductive, LogEvent, Moves
<1>2. Grows
  BY DEF LogEvent, Grows
<1>3. <<frame[h].trial, event>> \in events'
  BY DEF LogEvent
<1> QED
  BY <1>1, <1>2, <1>3, EvidenceSound DEF LogEvent, Inductive, StoredOK

\* The statements of next_trial keep the invariant.
LEMMA NextTrialSound ==
    ASSUME Inductive, TypeOK', NEW h \in Handlers, NextTrial(h) PROVE Sound(h)
<1> USE DEF Inductive
<1>1. CASE NextRead(h)
  <2>1. pc'[h] = "nextBlocks" /\ Moves(h)
    BY <1>1, GotoMoves DEF NextRead, Moves
  <2> QED  BY <1>1, <2>1, FreeOK, QuietSound DEF NextRead
<1>2. CASE NextBlocks(h)
  <2>1. CASE snapshot
    <3>1. pc'[h] = "nextGate" /\ Moves(h) /\ frame'[h].full = FullBlocks
      BY <1>2, <2>1, GotoMoves DEF NextBlocks, Moves, TypeOK, Frames
    <3>2. FullBlocks' = FullBlocks
      BY <1>2 DEF NextBlocks, tables, FullBlocks
    <3>3. HandlerOK(h)'
      BY <1>2, <2>1, <3>1, <3>2 DEF NextBlocks, tables, HandlerOK, SubmitLabels
    <3> QED  BY <1>2, <3>1, <3>3, QuietSound DEF NextBlocks
  <2>2. CASE ~snapshot
    BY <1>2, <2>2, ReturnMoves, FreeOK, QuietSound DEF NextBlocks
  <2> QED  BY <2>1, <2>2
<1>3. CASE NextGate(h)
  <2> DEFINE missing == frame[h].full \ answered
  <2>1. snapshot /\ frame[h].full \subseteq FullBlocks /\ FullBlocks' = FullBlocks
    BY <1>3 DEF NextGate, HandlerOK, tables, FullBlocks
  <2>2. CASE missing # {}
    <3>1. Min(missing) \in missing
      BY <2>2, MinBlock DEF TypeOK, Frames
    <3>2. pc'[h] = "nextBlocked" /\ Moves(h) /\ frame'[h].block = Min(missing)
      BY <1>3, <2>2, GotoMoves DEF NextGate, Moves, TypeOK, Frames
    <3>3. frame'[h].block \in FullBlocks'
      BY <2>1, <3>1, <3>2
    <3>4. HandlerOK(h)'
      BY <3>2, <3>3 DEF HandlerOK, SubmitLabels
    <3> QED  BY <1>3, <3>2, <3>4, QuietSound DEF NextGate
  <2>3. CASE missing = {}
    <3>1. pc'[h] = "nextPick" /\ Moves(h)
      BY <1>3, <2>3, GotoMoves DEF NextGate, Moves
    <3>2. HandlerOK(h)'
      BY <1>3, <2>1, <3>1 DEF NextGate, tables, HandlerOK, SubmitLabels
    <3> QED  BY <1>3, <3>1, <3>2, QuietSound DEF NextGate
  <2> QED  BY <2>2, <2>3
<1>4. CASE NextBlocked(h)
  <2>1. Moves(h) /\ HandlerOK(h)'
    BY <1>4, ReturnMoves, FreeOK DEF NextBlocked
  <2>2. frame[h].block \in FullBlocks
    BY <1>4 DEF NextBlocked, HandlerOK
  <2>3. /\ row'.status = row.status /\ row'.started = row.started
        /\ row'.finalizedAt = row.finalizedAt
        /\ row'.index = 0 /\ row'.block = frame[h].block
    BY <1>4 DEF NextBlocked, TypeOK
  <2> QED
    BY <1>4, <2>1, <2>2, <2>3, RowSound DEF NextBlocked, StoredOK
<1>5. CASE NextPick(h)
  <2> DEFINE pending == Trials \ completed
  <2>1. snapshot
    BY <1>5 DEF NextPick, HandlerOK
  <2>2. CASE pending = {}
    <3>1. pc'[h] = "awaitRead" /\ Moves(h)
      BY <1>5, <2>2, GotoMoves DEF NextPick, Moves
    <3> QED  BY <1>5, <3>1, FreeOK, QuietSound DEF NextPick
  <2>3. CASE pending # {} /\ decision[Min(pending)] # NoDecision
    BY <1>5, <2>3, ReturnMoves, FreeOK, QuietSound DEF NextPick
  <2>4. CASE pending # {} /\ decision[Min(pending)] = NoDecision
    <3>1. Min(pending) \in pending /\ \A t \in pending : Min(pending) <= t
      BY <2>4, MinTrial
    <3>2. 1..(Min(pending) - 1) \subseteq completed
      <4> HIDE DEF pending
      <4>1. Min(pending) \in 1..NTrials /\ NTrials \in Nat
        BY <3>1, PlanAssumption DEF pending, Trials
      <4>2. ASSUME NEW u \in 1..(Min(pending) - 1) PROVE u \in completed
        <5>1. u \in Trials /\ ~(Min(pending) <= u)
          BY <4>1 DEF Trials
        <5> QED  BY <3>1, <5>1 DEF pending
      <4> QED  BY <4>2
    <3>3. pc'[h] = "nextFeatures" /\ Moves(h) /\ frame'[h].trial = Min(pending)
      BY <1>5, <2>4, GotoMoves DEF NextPick, Moves, TypeOK, Frames
    <3>4. snapshot' /\ completed' = completed
      BY <1>5, <2>1 DEF NextPick, tables
    <3>5. HandlerOK(h)'
      <4> HIDE DEF pending
      <4> QED  BY <3>2, <3>3, <3>4 DEF HandlerOK, SubmitLabels
    <3> QED  BY <1>5, <3>3, <3>5, QuietSound DEF NextPick
  <2> QED  BY <2>2, <2>3, <2>4
<1>6. CASE NextFeatures(h)
  <2>1. snapshot /\ 1..(frame[h].trial - 1) \subseteq completed
    BY <1>6 DEF NextFeatures, HandlerOK
  <2>2. /\ pc'[h] = "nextStore" /\ Moves(h) /\ frame'[h].trial = frame[h].trial
        /\ frame'[h].basis = completed \ {frame[h].trial}
    BY <1>6, GotoMoves DEF NextFeatures, Moves, TypeOK, Frames
  <2>3. frame[h].trial \in Nat
    BY DEF TypeOK, Frames, Trials
  <2>4. CountsTo(frame'[h].trial, frame'[h].basis)
    BY <2>1, <2>2, <2>3 DEF CountsTo
  <2>5. UNCHANGED tables
    BY <1>6 DEF NextFeatures
  <2>6. HandlerOK(h)'
    BY <2>1, <2>2, <2>4, <2>5 DEF tables, HandlerOK, SubmitLabels, CountsTo
  <2> QED  BY <2>2, <2>5, <2>6, QuietSound
<1>7. CASE NextStore(h)
  <2>1. snapshot /\ CountsTo(frame[h].trial, frame[h].basis) /\ frame[h].trial \in Trials
    BY <1>7 DEF NextStore, HandlerOK, TypeOK, Frames
  <2>2. pc'[h] = "nextLogStarted" /\ Moves(h)
    BY <1>7, GotoMoves DEF NextStore, Moves
  <2>3. frame[h].basis # NoDecision
    BY ParameterAssumption DEF TypeOK, Frames, Decisions
  <2>4. Grows
    BY <1>7, <2>3 DEF NextStore, Grows, TypeOK
  <2>5. \A t \in Trials : decision'[t] # NoDecision => snapshot' /\ CountsTo(t, decision'[t])
    BY <1>7, <2>1 DEF NextStore, StoredOK, TypeOK
  <2>6. decision'[frame[h].trial] # NoDecision /\ UNCHANGED <<snapshot, completed, frame>>
    BY <1>7, <2>1, <2>3 DEF NextStore, TypeOK
  <2>7. HandlerOK(h)'
    BY <2>1, <2>2, <2>6 DEF HandlerOK, SubmitLabels, CountsTo
  <2> QED  BY <1>7, <2>2, <2>4, <2>5, <2>7, EvidenceSound DEF NextStore
<1>8. CASE LogEvent(h, "nextLogStarted", "trial_started", "nextLogAssistance")
  <2>1. pc'[h] = "nextLogAssistance" /\ UNCHANGED <<frame, completed, decision>>
    BY <1>8, GotoMoves DEF LogEvent
  <2>2. CountsTo(frame[h].trial, frame[h].basis) /\ decision[frame[h].trial] # NoDecision
    BY <1>8 DEF LogEvent, HandlerOK
  <2>3. HandlerOK(h)'
    BY <2>1, <2>2 DEF HandlerOK, SubmitLabels, CountsTo
  <2> QED  BY <1>8, <2>3, LogEventSound
<1>9. CASE LogEvent(h, "nextLogAssistance", "assistance_rendered", "idle")
  <2>1. pc'[h] = "idle"
    BY <1>9, ReturnMoves DEF LogEvent
  <2> QED  BY <1>9, <2>1, FreeOK, LogEventSound
<1> QED
  BY <1>1, <1>2, <1>3, <1>4, <1>5, <1>6, <1>7, <1>8, <1>9 DEF NextTrial

\* The statements of submit_trial keep the invariant.
LEMMA SubmitTrialSound ==
    ASSUME Inductive, TypeOK', NEW h \in Handlers, SubmitTrial(h) PROVE Sound(h)
<1> USE DEF Inductive
<1>1. CASE \E t \in Trials, r \in Responses : SubmitRead(h, t, r)
  <2>1. pc'[h] = "submitFetch" /\ Moves(h) /\ UNCHANGED tables
    BY <1>1, GotoMoves DEF SubmitRead, Moves, TypeOK
  <2> QED  BY <2>1, FreeOK, QuietSound
<1>2. CASE SubmitFetch(h)
  <2> DEFINE t == frame[h].trial
  <2>1. CASE snapshot /\ t \notin completed /\ decision[t] # NoDecision
    <3>1. pc'[h] = "submitLogResponse" /\ Moves(h) /\ frame'[h].trial = t
      BY <1>2, <2>1, GotoMoves DEF SubmitFetch, Moves, TypeOK, Frames
    <3>2. HandlerOK(h)'
      BY <1>2, <2>1, <3>1 DEF SubmitFetch, tables, HandlerOK, SubmitLabels
    <3> QED  BY <1>2, <3>1, <3>2, QuietSound DEF SubmitFetch
  <2>2. CASE ~(snapshot /\ t \notin completed /\ decision[t] # NoDecision)
    <3>1. Return(h)
      BY <1>2, <2>2 DEF SubmitFetch
    <3> QED  BY <1>2, <3>1, ReturnMoves, FreeOK, QuietSound DEF SubmitFetch
  <2> QED  BY <2>1, <2>2
<1>3. CASE LogEvent(h, "submitLogResponse", "response_selected", "submitLogConfidence")
  <2>1. pc'[h] = "submitLogConfidence" /\ UNCHANGED <<frame, snapshot, decision>>
    BY <1>3, GotoMoves DEF LogEvent
  <2>2. /\ snapshot /\ decision[frame[h].trial] # NoDecision
    BY <1>3 DEF LogEvent, HandlerOK, SubmitLabels
  <2>3. events \subseteq events'
    BY <1>3 DEF LogEvent
  <2>4. <<frame[h].trial, "response_selected">> \in events' => HandlerOK(h)'
    BY <2>1, <2>2, <2>3 DEF HandlerOK, SubmitLabels
  <2> QED  BY <1>3, <2>4, LogEventSound
<1>4. CASE LogEvent(h, "submitLogConfidence", "confidence_submitted", "submitLogCompleted")
  <2>1. pc'[h] = "submitLogCompleted" /\ UNCHANGED <<frame, snapshot, decision>>
    BY <1>4, GotoMoves DEF LogEvent
  <2>2. /\ snapshot /\ decision[frame[h].trial] # NoDecision
        /\ <<frame[h].trial, "response_selected">> \in events
    BY <1>4 DEF LogEvent, HandlerOK, SubmitLabels
  <2>3. events \subseteq events'
    BY <1>4 DEF LogEvent
  <2>4. <<frame[h].trial, "confidence_submitted">> \in events' => HandlerOK(h)'
    BY <2>1, <2>2, <2>3 DEF HandlerOK, SubmitLabels
  <2> QED  BY <1>4, <2>4, LogEventSound
<1>5. CASE LogEvent(h, "submitLogCompleted", "trial_completed", "submitSummary")
  <2>1. pc'[h] = "submitSummary" /\ UNCHANGED <<frame, snapshot, decision>>
    BY <1>5, GotoMoves DEF LogEvent
  <2>2. /\ snapshot /\ decision[frame[h].trial] # NoDecision
        /\ <<frame[h].trial, "response_selected">> \in events
        /\ <<frame[h].trial, "confidence_submitted">> \in events
    BY <1>5 DEF LogEvent, HandlerOK, SubmitLabels
  <2>3. events \subseteq events'
    BY <1>5 DEF LogEvent
  <2>4. <<frame[h].trial, "trial_completed">> \in events' => HandlerOK(h)'
    BY <2>1, <2>2, <2>3 DEF HandlerOK, SubmitLabels
  <2> QED  BY <1>5, <2>4, LogEventSound
<1>6. CASE SubmitSummary(h)
  <2> DEFINE new == [basis |-> frame[h].basis, response |-> frame[h].response]
  <2>1. pc'[h] = "submitComplete" /\ Moves(h)
    BY <1>6, GotoMoves DEF SubmitSummary, Moves
  <2>2. new # NoSummary /\ frame[h].trial \in Trials
    BY ParameterAssumption DEF TypeOK, Frames, Decisions
  <2>3. summary' = [summary EXCEPT ![frame[h].trial] = new]
    BY <1>6 DEF SubmitSummary
  <2> HIDE DEF new
  <2>4. Grows
    BY <1>6, <2>2, <2>3 DEF SubmitSummary, Grows, TypeOK
  <2>5. summary'[frame[h].trial] # NoSummary
    BY <2>2, <2>3 DEF TypeOK
  <2>6. HandlerOK(h)'
    BY <1>6, <2>1, <2>5 DEF SubmitSummary, HandlerOK, SubmitLabels
  <2> QED
    BY <1>6, <2>1, <2>4, <2>6, EvidenceSound DEF SubmitSummary, StoredOK
<1>7. CASE SubmitComplete(h)
  <2> DEFINE t == frame[h].trial
  <2>1. pc'[h] = "progressRead" /\ Moves(h)
    BY <1>7, GotoMoves DEF SubmitComplete, Moves
  <2>2. /\ snapshot /\ decision[t] # NoDecision /\ summary[t] # NoSummary
        /\ \A e \in {"response_selected", "confidence_submitted", "trial_completed"} :
               <<t, e>> \in events
    BY <1>7 DEF SubmitComplete, HandlerOK, SubmitLabels
  <2>3. t \in Trials /\ completed' = completed \cup {t}
    BY <1>7 DEF SubmitComplete, TypeOK, Frames
  <2>4. 1..(t - 1) \subseteq completed
    BY <2>2, <2>3 DEF StoredOK, ServedInOrder
  <2>5. UNCHANGED <<row, snapshot, decision, summary, answered, events, frame>>
    BY <1>7 DEF SubmitComplete
  <2> HIDE DEF t
  <2>6. Grows
    BY <2>3, <2>5 DEF Grows
  <2>7. HandlerOK(h)'
    BY <2>1, FreeOK
  <2>8. EvidenceBeforeCompletion'
    BY <2>2, <2>3, <2>5 DEF StoredOK, EvidenceBeforeCompletion
  <2>9. /\ \A u \in completed' : 1..(u - 1) \subseteq completed'
        /\ ServedInOrder'
    BY <2>3, <2>4, <2>5 DEF StoredOK, ServedInOrder
  <2>10. ProgressNotAhead'
    BY <2>3, <2>5, FullBlocksGrow, StepReachedGrows DEF StoredOK, ProgressNotAhead
  <2>11. (\A u \in Trials : decision[u] # NoDecision =>
              snapshot /\ CountsTo(u, decision[u]))'
    BY <2>3, <2>5 DEF StoredOK, CountsTo
  <2> QED
    BY <2>1, <2>5, <2>6, <2>7, <2>8, <2>9, <2>10, <2>11 DEF Sound, StoredOK
<1> QED  BY <1>1, <1>2, <1>3, <1>4, <1>5, <1>6, <1>7 DEF SubmitTrial

\* The statements of submit_block_questionnaire keep the invariant.
LEMMA SubmitQuestionnaireSound ==
    ASSUME Inductive, TypeOK', NEW h \in Handlers, SubmitQuestionnaire(h) PROVE Sound(h)
<1> USE DEF Inductive
<1>1. CASE \E b \in MainBlocks : QuestRead(h, b)
  <2>1. pc'[h] = "questStore" /\ Moves(h) /\ UNCHANGED tables
    BY <1>1, GotoMoves DEF QuestRead, Moves, TypeOK
  <2> QED  BY <2>1, FreeOK, QuietSound
<1>2. CASE QuestStore(h)
  <2>1. pc'[h] = "progressRead" /\ Moves(h)
    BY <1>2, GotoMoves DEF QuestStore, Moves
  <2>2. HandlerOK(h)'
    BY <2>1, FreeOK
  <2>3. Grows
    BY <1>2 DEF QuestStore, Grows
  <2> QED
    BY <1>2, <2>1, <2>2, <2>3, EvidenceSound DEF QuestStore, StoredOK
<1> QED  BY <1>1, <1>2 DEF SubmitQuestionnaire

\* update_progress never points beyond a completed trial.
LEMMA ReachedIsReached == ASSUME TypeOK PROVE PositionReached(Reached)
<1>1. CASE completed = {}
  BY <1>1 DEF Reached, InitialStage, PositionReached
<1>2. CASE completed # {}
  <2> DEFINE last == Max(completed)
  <2>1. last \in completed
    BY <1>2, MaxTrial DEF TypeOK
  <2>2. /\ Reached.stage \in {"practice", "trial"} /\ Reached.block = BlockOf[last]
        /\ Reached.index = TrialIndex(last) + 1
    BY <1>2 DEF Reached
  <2> HIDE DEF last
  <2> QED  BY <2>1, <2>2 DEF PositionReached, StepReached
<1> QED  BY <1>1, <1>2

\* The statements of update_progress keep the invariant.
LEMMA UpdateProgressSound ==
    ASSUME Inductive, TypeOK', NEW h \in Handlers, UpdateProgress(h) PROVE Sound(h)
<1> USE DEF Inductive
<1>1. CASE ProgressRead(h)
  <2>1. pc'[h] = "progressWrite" /\ Moves(h) /\ frame'[h].at = Reached /\ UNCHANGED tables
    BY <1>1, GotoMoves DEF ProgressRead, Moves, TypeOK, Frames
  <2>2. PositionReached(frame'[h].at)
    BY <2>1, ReachedIsReached
  <2>3. PositionReached(frame[h].at)'
    BY <2>1, <2>2 DEF PositionReached, StepReached, TrialIndex, tables
  <2>4. HandlerOK(h)'
    BY <2>1, <2>3 DEF HandlerOK, SubmitLabels
  <2> QED  BY <2>1, <2>4, QuietSound
<1>2. CASE ProgressWrite(h)
  <2>1. pc'[h] = "awaitRead" /\ Moves(h)
    BY <1>2, GotoMoves DEF ProgressWrite, Moves
  <2>2. PositionReached(frame[h].at)
    BY <1>2 DEF ProgressWrite, HandlerOK
  <2>3. HandlerOK(h)'
    BY <2>1, FreeOK
  <2>4. /\ row'.status = row.status /\ row'.started = row.started
        /\ row'.finalizedAt = row.finalizedAt /\ row'.stage = frame[h].at.stage
        /\ row'.index = frame[h].at.index /\ row'.block = frame[h].at.block
    BY <1>2 DEF ProgressWrite, TypeOK
  <2> QED
    BY <1>2, <2>1, <2>2, <2>3, <2>4, RowSound
    DEF ProgressWrite, PositionReached, StoredOK
<1> QED  BY <1>1, <1>2 DEF UpdateProgress

\* required_work_status writes nothing and keeps nothing.
LEMMA WorkSound ==
    ASSUME Inductive, NEW h \in Handlers, NEW from,
           NEW to \in {"awaitAnswers", "finalAnswers", "awaitWrite", "finalWrite"},
           WorkPending(h, from, to) \/ WorkAnswers(h, from, to)
    PROVE  Sound(h)
<1>1. UNCHANGED tables
  BY DEF WorkPending, WorkAnswers
<1>2. CASE Return(h)
  BY <1>1, <1>2, ReturnMoves, FreeOK, QuietSound DEF Inductive
<1>3. CASE Goto(h, to) /\ UNCHANGED frame
  <2>1. pc'[h] = to /\ Moves(h)
    BY <1>3, GotoMoves DEF Inductive, Moves
  <2> QED  BY <1>1, <2>1, FreeOK, QuietSound
<1> QED  BY <1>2, <1>3 DEF WorkPending, WorkAnswers

\* The statements of mark_awaiting_final_submit_if_done keep the invariant.
LEMMA MarkAwaitingSound ==
    ASSUME Inductive, NEW h \in Handlers, MarkAwaiting(h) PROVE Sound(h)
<1> USE DEF Inductive
<1>1. CASE AwaitRead(h)
  <2>1. CASE row.status \in {"awaiting_final_submit", "finalized"}
    BY <1>1, <2>1, ReturnMoves, FreeOK, QuietSound DEF AwaitRead
  <2>2. CASE row.status \notin {"awaiting_final_submit", "finalized"}
    <3>1. pc'[h] = "awaitPending" /\ Moves(h) /\ UNCHANGED tables
      BY <1>1, <2>2, GotoMoves DEF AwaitRead, Moves
    <3> QED  BY <3>1, FreeOK, QuietSound
  <2> QED  BY <2>1, <2>2
<1>2. CASE WorkPending(h, "awaitPending", "awaitAnswers")
  BY <1>2, WorkSound
<1>3. CASE WorkAnswers(h, "awaitAnswers", "awaitWrite")
  BY <1>3, WorkSound
<1>4. CASE AwaitWrite(h)
  <2>1. Moves(h) /\ HandlerOK(h)'
    BY <1>4, ReturnMoves, FreeOK DEF AwaitWrite
  <2>2. /\ row'.started = row.started /\ row'.stage = "awaiting_final_submit"
        /\ row'.status = "awaiting_final_submit"
        /\ row'.index = row.index /\ row'.block = row.block
    BY <1>4 DEF AwaitWrite, TypeOK
  <2> QED
    BY <1>4, <2>1, <2>2, RowSound DEF AwaitWrite, StoredOK, ProgressNotAhead
<1> QED  BY <1>1, <1>2, <1>3, <1>4 DEF MarkAwaiting

\* The statements of final_submit keep the invariant.
LEMMA FinalSubmitSound ==
    ASSUME Inductive, NEW h \in Handlers, FinalSubmit(h) PROVE Sound(h)
<1> USE DEF Inductive
<1>1. CASE FinalRead(h)
  <2>1. pc'[h] = "finalPending" /\ Moves(h) /\ UNCHANGED tables
    BY <1>1, GotoMoves DEF FinalRead, Moves
  <2> QED  BY <2>1, FreeOK, QuietSound
<1>2. CASE WorkPending(h, "finalPending", "finalAnswers")
  BY <1>2, WorkSound
<1>3. CASE WorkAnswers(h, "finalAnswers", "finalWrite")
  BY <1>3, WorkSound
<1>4. CASE FinalWrite(h)
  <2>1. Moves(h) /\ HandlerOK(h)'
    BY <1>4, ReturnMoves, FreeOK DEF FinalWrite
  <2>2. /\ row'.started = row.started /\ row'.stage = "completion" /\ row'.finalizedAt
        /\ row'.index = row.index /\ row'.block = row.block
    BY <1>4 DEF FinalWrite, TypeOK
  <2> QED
    BY <1>4, <2>1, <2>2, RowSound DEF FinalWrite, StoredOK, ProgressNotAhead
<1> QED  BY <1>1, <1>2, <1>3, <1>4 DEF FinalSubmit

-----------------------------------------------------------------------------
(* Clients that wait for the trials before they submit.                    *)

\* A step of handler h, whatever the request.
Step(h) ==
    \/ Start(h) \/ NextTrial(h) \/ SubmitTrial(h) \/ SubmitQuestionnaire(h)
    \/ UpdateProgress(h) \/ MarkAwaiting(h) \/ FinalSubmit(h) \/ Crash(h)

\* A questionnaire or the final submit is sent only to a session with trials.
Patient(h) == (\E b \in MainBlocks : QuestRead(h, b)) \/ FinalRead(h) => snapshot

\* The row says that the session waits for its final submit or is through.
RowSubmitted ==
    \/ row.status \in {"awaiting_final_submit", "finalized"} \/ row.finalizedAt
    \/ row.stage = "awaiting_final_submit"

\* What has to be shown of a step of a handler of such a client.
Waits(h) == RequestOK(h)' /\ (RowSubmitted' => AllWorkDone)

\* What the two eligibility reads established survives other handlers.
LEMMA WaitingFromStep ==
    ASSUME TypeOK, TypeOK', WaitingOK, NEW h \in Handlers, Grows, Moves(h), Waits(h)
    PROVE  WaitingOK'
<1>1. AllWorkDone => AllWorkDone'
  BY WorkDoneGrows
<1>2. completed = Trials => completed' = Trials
  BY DEF TypeOK, Grows
<1>3. \A g \in Handlers : RequestOK(g)'
  BY <1>1, <1>2 DEF Waits, WaitingOK, RequestOK, Moves, Grows
<1> QED  BY <1>1, <1>3 DEF Waits, WaitingOK, SubmittedMeansDone, RowSubmitted

\* A handler elsewhere than at the end of a submission relies on nothing.
LEMMA UnfinishedWaits ==
    ASSUME NEW h \in Handlers, pc'[h] \notin FinishLabels PROVE RequestOK(h)'
BY DEF RequestOK, FinishLabels

\* A statement that does not say that work is done.
LEMMA SameRowWaits ==
    ASSUME WaitingOK, row'.status \in {row.status, "in_progress"},
           row'.finalizedAt = row.finalizedAt,
           row'.stage \in {row.stage, "practice", "trial", "questionnaire"}
    PROVE  RowSubmitted' => AllWorkDone
BY DEF WaitingOK, SubmittedMeansDone, RowSubmitted

\* A handler that ends relies on nothing.
LEMMA ReturnWaits ==
    ASSUME TypeOK, NEW h \in Handlers, Return(h) PROVE RequestOK(h)'
<1>1. pc'[h] = "idle"
  BY ReturnMoves
<1> QED  BY <1>1, UnfinishedWaits DEF FinishLabels

\* The statements of start_session.
LEMMA StartWaits ==
    ASSUME Inductive, WaitingOK, NEW h \in Handlers, Start(h) PROVE Waits(h)
<1> USE DEF Inductive
<1>1. /\ row'.status \in {row.status, "in_progress"} /\ row'.finalizedAt = row.finalizedAt
      /\ row'.stage \in {row.stage, "practice", "trial"}
  BY DEF Start, StartRead, StartFind, StartInsert, StartFreeze, StartWrite, tables, TypeOK,
     InitialStage
<1>2. pc'[h] \in {"idle", "startFind", "startInsert", "startFreeze", "startWrite"}
  BY ReturnMoves, GotoMoves DEF Start, StartRead, StartFind, StartInsert, StartFreeze,
     StartWrite, StartGate
<1> QED  BY <1>1, <1>2, UnfinishedWaits, SameRowWaits DEF Waits, FinishLabels

\* The statements of next_trial: nothing pending is found behind the
\* integrity check only.
LEMMA NextTrialWaits ==
    ASSUME Inductive, WaitingOK, NEW h \in Handlers, NextTrial(h) PROVE Waits(h)
<1> USE DEF Inductive
<1>1. /\ row'.status = row.status /\ row'.finalizedAt = row.finalizedAt
      /\ row'.stage \in {row.stage, "questionnaire"}
  BY DEF NextTrial, NextRead, NextBlocks, NextGate, NextBlocked, NextPick, NextFeatures,
     NextStore, LogEvent, tables, TypeOK
<1>2. RowSubmitted' => AllWorkDone
  BY <1>1, SameRowWaits
<1>3. RequestOK(h)'
  <2>1. CASE NextPick(h)
    <3>1. snapshot /\ UNCHANGED tables
      BY <2>1 DEF NextPick, HandlerOK
    <3>2. pc'[h] \in {"idle", "nextFeatures", "awaitRead"}
      BY <2>1, ReturnMoves, GotoMoves DEF NextPick
    <3> QED  BY <3>1, <3>2 DEF RequestOK, FinishLabels, tables
  <2>2. CASE ~NextPick(h)
    <3>1. pc'[h] \in {"idle", "nextBlocks", "nextGate", "nextBlocked", "nextPick", "nextStore",
                      "nextLogStarted", "nextLogAssistance"}
      BY <2>2, ReturnMoves, GotoMoves DEF NextTrial, NextRead, NextBlocks, NextGate,
         NextBlocked, NextFeatures, NextStore, LogEvent
    <3> QED  BY <3>1, UnfinishedWaits DEF FinishLabels
  <2> QED  BY <2>1, <2>2
<1> QED  BY <1>2, <1>3 DEF Waits

\* The statements of submit_trial: a trial that is served has its rows.
LEMMA SubmitTrialWaits ==
    ASSUME Inductive, WaitingOK, NEW h \in Handlers, SubmitTrial(h) PROVE Waits(h)
<1> USE DEF Inductive
<1>1. row' = row
  BY DEF SubmitTrial, SubmitRead, SubmitFetch, LogEvent, SubmitSummary, SubmitComplete, tables
<1>2. RowSubmitted' => AllWorkDone
  BY <1>1, SameRowWaits
<1>3. RequestOK(h)'
  <2>1. CASE SubmitComplete(h)
    <3>1. snapshot' /\ pc'[h] = "progressRead"
      BY <2>1, GotoMoves DEF SubmitComplete, HandlerOK, SubmitLabels
    <3> QED  BY <3>1 DEF RequestOK
  <2>2. CASE ~SubmitComplete(h)
    <3>1. pc'[h] \in {"idle", "submitFetch", "submitLogResponse", "submitLogConfidence",
                      "submitLogCompleted", "submitSummary", "submitComplete"}
      BY <2>2, ReturnMoves, GotoMoves DEF SubmitTrial, SubmitRead, SubmitFetch, LogEvent,
         SubmitSummary
    <3> QED  BY <3>1, UnfinishedWaits DEF FinishLabels
  <2> QED  BY <2>1, <2>2
<1> QED  BY <1>2, <1>3 DEF Waits

\* The statements of submit_block_questionnaire.
LEMMA SubmitQuestionnaireWaits ==
    ASSUME Inductive, WaitingOK, NEW h \in Handlers, SubmitQuestionnaire(h), Patient(h)
    PROVE  Waits(h)
<1> USE DEF Inductive
<1>1. row' = row /\ snapshot' = snapshot
  BY DEF SubmitQuestionnaire, QuestRead, QuestStore, tables
<1>2. RowSubmitted' => AllWorkDone
  BY <1>1, SameRowWaits
<1>3. snapshot
  BY DEF SubmitQuestionnaire, Patient, QuestStore, WaitingOK, RequestOK, FinishLabels
<1>4. pc'[h] \in {"questStore", "progressRead"}
  BY GotoMoves DEF SubmitQuestionnaire, QuestRead, QuestStore
<1> QED  BY <1>1, <1>2, <1>3, <1>4 DEF Waits, RequestOK

\* The statements of update_progress.
LEMMA UpdateProgressWaits ==
    ASSUME Inductive, WaitingOK, NEW h \in Handlers, UpdateProgress(h) PROVE Waits(h)
<1> USE DEF Inductive
<1>1. /\ row'.status = row.status /\ row'.finalizedAt = row.finalizedAt
      /\ row'.stage \in {row.stage, "practice", "trial"} /\ snapshot' = snapshot
  BY DEF UpdateProgress, ProgressRead, ProgressWrite, tables, TypeOK, HandlerOK, PositionReached
<1>2. RowSubmitted' => AllWorkDone
  BY <1>1, SameRowWaits
<1>3. snapshot
  BY DEF UpdateProgress, ProgressRead, ProgressWrite, WaitingOK, RequestOK, FinishLabels
<1>4. pc'[h] \in {"progressWrite", "awaitRead"}
  BY GotoMoves DEF UpdateProgress, ProgressRead, ProgressWrite
<1> QED  BY <1>1, <1>2, <1>3, <1>4 DEF Waits, RequestOK

\* The two eligibility reads happen one after the other, yet together they
\* establish that all work is done when the second one ends.
LEMMA WorkWaits ==
    ASSUME Inductive, WaitingOK, NEW h \in Handlers,
           \/ WorkPending(h, "awaitPending", "awaitAnswers")
           \/ WorkPending(h, "finalPending", "finalAnswers")
           \/ WorkAnswers(h, "awaitAnswers", "awaitWrite")
           \/ WorkAnswers(h, "finalAnswers", "finalWrite")
    PROVE  Waits(h)
<1> USE DEF Inductive
<1>1. UNCHANGED tables
  BY DEF WorkPending, WorkAnswers
<1>2. RowSubmitted' => AllWorkDone
  BY <1>1, SameRowWaits DEF tables
<1>3. snapshot
  BY DEF WorkPending, WorkAnswers, WaitingOK, RequestOK, FinishLabels
<1>4. RequestOK(h)'
  <2>1. CASE Return(h)
    BY <2>1, ReturnWaits
  <2>2. CASE ~Return(h) /\ (\/ WorkPending(h, "awaitPending", "awaitAnswers")
                            \/ WorkPending(h, "finalPending", "finalAnswers"))
    <3>1. completed = Trials /\ pc'[h] \in {"awaitAnswers", "finalAnswers"}
      BY <1>3, <2>2, GotoMoves DEF WorkPending
    <3> QED  BY <1>1, <1>3, <3>1 DEF RequestOK, tables
  <2>3. CASE ~Return(h) /\ (\/ WorkAnswers(h, "awaitAnswers", "awaitWrite")
                            \/ WorkAnswers(h, "finalAnswers", "finalWrite"))
    <3>1. MainBlocks \subseteq answered /\ pc'[h] \in {"awaitWrite", "finalWrite"}
      BY <1>3, <2>3, GotoMoves DEF WorkAnswers
    <3>2. completed = Trials
      BY <2>3 DEF WorkAnswers, WaitingOK, RequestOK
    <3> QED  BY <1>1, <1>3, <3>1, <3>2 DEF RequestOK, AllWorkDone, tables
  <2> QED  BY <2>1, <2>2, <2>3
<1> QED  BY <1>2, <1>4 DEF Waits

\* The statements of mark_awaiting_final_submit_if_done.
LEMMA MarkAwaitingWaits ==
    ASSUME Inductive, WaitingOK, NEW h \in Handlers, MarkAwaiting(h) PROVE Waits(h)
<1> USE DEF Inductive
<1>1. CASE AwaitRead(h)
  <2>1. UNCHANGED tables /\ snapshot /\ pc'[h] \in {"idle", "awaitPending"}
    BY <1>1, ReturnMoves, GotoMoves DEF AwaitRead, WaitingOK, RequestOK, FinishLabels
  <2> QED  BY <2>1, SameRowWaits DEF Waits, RequestOK, tables, FinishLabels
<1>2. CASE AwaitWrite(h)
  <2>1. AllWorkDone /\ RequestOK(h)'
    BY <1>2, ReturnWaits DEF AwaitWrite, WaitingOK, RequestOK
  <2> QED  BY <2>1 DEF Waits
<1> QED  BY <1>1, <1>2, WorkWaits DEF MarkAwaiting

\* The statements of final_submit.
LEMMA FinalSubmitWaits ==
    ASSUME Inductive, WaitingOK, NEW h \in Handlers, FinalSubmit(h), Patient(h)
    PROVE  Waits(h)
<1> USE DEF Inductive
<1>1. CASE FinalRead(h)
  <2>1. UNCHANGED tables /\ snapshot /\ pc'[h] = "finalPending"
    BY <1>1, GotoMoves DEF FinalRead, Patient
  <2> QED  BY <2>1, SameRowWaits DEF Waits, RequestOK, tables
<1>2. CASE FinalWrite(h)
  <2>1. AllWorkDone /\ RequestOK(h)'
    BY <1>2, ReturnWaits DEF FinalWrite, WaitingOK, RequestOK
  <2> QED  BY <2>1 DEF Waits
<1> QED  BY <1>1, <1>2, WorkWaits DEF FinalSubmit

\* A step of a handler of a patient client.
LEMMA WaitingStep ==
    ASSUME Inductive, TypeOK', WaitingOK, NEW h \in Handlers, Step(h), Sound(h), Patient(h)
    PROVE  WaitingOK'
<1>1. CASE Crash(h)
  <2>1. Return(h) /\ UNCHANGED tables
    BY <1>1 DEF Crash
  <2> QED
    BY <2>1, ReturnWaits, SameRowWaits, WaitingFromStep DEF Waits, Inductive, Sound, tables
<1>2. CASE ~Crash(h)
  <2>1. Waits(h)
    BY <1>2, StartWaits, NextTrialWaits, SubmitTrialWaits, SubmitQuestionnaireWaits,
       UpdateProgressWaits, MarkAwaitingWaits, FinalSubmitWaits DEF Step
  <2> QED  BY <2>1, WaitingFromStep DEF Inductive, Sound
<1> QED  BY <1>1, <1>2

\* A step that changes nothing.
LEMMA WaitingStutter ==
    ASSUME TypeOK, WaitingOK, UNCHANGED <<tables, pc>> PROVE WaitingOK'
BY DEF WaitingOK, RequestOK, SubmittedMeansDone, AllWorkDone, tables

-----------------------------------------------------------------------------
(* The inductive invariant.                                                *)

\* A session just created has nothing to wait for.
LEMMA InitWaiting == Init => WaitingOK
BY DEF Init, WaitingOK, SubmittedMeansDone, RequestOK, FinishLabels

\* The inductive invariant holds for a session just created.
LEMMA InitInductive == Init => Inductive
<1> SUFFICES ASSUME Init PROVE Inductive
  OBVIOUS
<1>1. TypeOK
  BY InitType
<1>2. StoredOK
  BY DEF Init, StoredOK, EvidenceBeforeCompletion, ServedInOrder, ProgressNotAhead
<1>3. \A h \in Handlers : HandlerOK(h)
  BY DEF Init, HandlerOK, SubmitLabels
<1> QED  BY <1>1, <1>2, <1>3, InitWaiting DEF Inductive

\* The step of a handler is sound.
LEMMA StepSound ==
    ASSUME Inductive, NEW h \in Handlers, Step(h) PROVE TypeOK' /\ Sound(h)
<1>1. TypeOK'
  BY NextType DEF Inductive, Next, Step
<1>2. CASE Crash(h)
  <2>1. pc'[h] = "idle" /\ Moves(h) /\ UNCHANGED tables
    BY <1>2, ReturnMoves DEF Crash, Inductive
  <2> QED  BY <1>1, <2>1, FreeOK, QuietSound
<1> QED
  BY <1>1, <1>2, StartSound, NextTrialSound, SubmitTrialSound, SubmitQuestionnaireSound,
     UpdateProgressSound, MarkAwaitingSound, FinalSubmitSound DEF Step

\* The step of a handler keeps the inductive invariant.
LEMMA StepInductive ==
    ASSUME Inductive, NEW h \in Handlers, Step(h) PROVE Inductive'
<1>1. TypeOK' /\ Sound(h)
  BY StepSound
<1>2. \A g \in Handlers : HandlerOK(g)'
  BY <1>1, HandlersOK DEF Sound
<1>3. ClientWaits => WaitingOK'
  BY <1>1, WaitingStep DEF Patient, QuestRead, FinalRead, Inductive
<1> QED  BY <1>1, <1>2, <1>3 DEF Sound, Inductive

\* Nothing happens to the session.
LEMMA StutterInductive == ASSUME Inductive, UNCHANGED vars PROVE Inductive'
<1>1. TypeOK' /\ UNCHANGED tables
  BY NextType DEF vars, tables, Inductive
<1>2. StoredOK'
  BY <1>1, StoredTables DEF Inductive
<1>3. \A g \in Handlers : HandlerOK(g)'
  BY <1>1, GrowsTables, OtherHandlerOK DEF vars, Inductive
<1>4. ClientWaits => WaitingOK'
  BY WaitingStutter DEF vars, tables, Inductive
<1> QED  BY <1>1, <1>2, <1>3, <1>4 DEF Inductive

\* Every step keeps the inductive invariant.
LEMMA NextInductive == Inductive /\ [Next]_vars => Inductive'
BY StepInductive, StutterInductive DEF Next, Step

\* The inductive invariant holds in every reachable state.
THEOREM InductiveInvariant == Spec => []Inductive
BY InitInductive, NextInductive, PTL DEF Spec

\* A completed trial has its decision, its summary and its submission events
\* (submit_trial's order of statements), however requests overlap and die.
THEOREM EvidenceIsComplete == Spec => []EvidenceBeforeCompletion
<1>1. Inductive => EvidenceBeforeCompletion
  BY DEF Inductive, StoredOK
<1> QED  BY <1>1, InductiveInvariant, PTL

\* Trials are served in plan order (next_trial), however requests overlap.
THEOREM TrialsServedInOrder == Spec => []ServedInOrder
<1>1. Inductive => ServedInOrder
  BY DEF Inductive, StoredOK
<1> QED  BY <1>1, InductiveInvariant, PTL

\* The stored position never lies beyond the stored work (update_progress,
\* mark_questionnaire_stage).
THEOREM ProgressIsReached == Spec => []ProgressNotAhead
<1>1. Inductive => ProgressNotAhead
  BY DEF Inductive, StoredOK
<1> QED  BY <1>1, InductiveInvariant, PTL

\* With a client that waits for its start, a session is awaiting or
\* finalized only when all of its work is stored (required_work_status).
THEOREM SubmittedSessionsAreDone ==
    ASSUME ClientWaits = TRUE PROVE Spec => []SubmittedMeansDone
<1>1. Inductive => SubmittedMeansDone
  BY DEF Inductive, WaitingOK
<1> QED  BY <1>1, InductiveInvariant, PTL

-----------------------------------------------------------------------------
(* Refinement of WorkLedger.                                               *)

\* A session just created maps to an empty ledger.
LEMMA LedgerInit == Init => Ledger!Init
BY DEF Init, Ledger!Init

\* Every step maps to a step of WorkLedger or to a stutter.
LEMMA LedgerStep ==
    ASSUME WaitingOK, Inductive, TypeOK', [Next]_vars
    PROVE  [Ledger!Next]_(Ledger!vars)
<1> USE DEF Ledger!vars
<1>1. CASE UNCHANGED <<completed, answered, row>>
  BY <1>1
<1>2. CASE \E h \in Handlers : SubmitComplete(h)
  <2>1. PICK h \in Handlers : SubmitComplete(h)
    BY <1>2
  <2> DEFINE t == frame[h].trial
  <2>2. /\ t \in Trials /\ completed' = completed \cup {t}
        /\ UNCHANGED <<row, answered>>
    BY <2>1 DEF SubmitComplete, Inductive, TypeOK, Frames
  <2>3. 1..(t - 1) \subseteq completed
    BY <2>1, <2>2 DEF SubmitComplete, Inductive, HandlerOK, SubmitLabels, StoredOK, ServedInOrder
  <2>4. CASE t \in completed
    BY <2>2, <2>4
  <2>5. CASE t \notin completed
    <3>1. \A u \in completed : u \in 1..(t - 1)
      <4> SUFFICES ASSUME NEW u \in completed PROVE u < t /\ u >= 1 /\ u \in Int
        BY <2>2 DEF Trials
      <4>1. u \in 1..NTrials /\ t \in 1..NTrials /\ NTrials \in Nat
        BY <2>2, PlanAssumption DEF Inductive, TypeOK, Trials
      <4>2. 1..(u - 1) \subseteq completed
        BY DEF Inductive, StoredOK
      <4> QED  BY <2>5, <4>1, <4>2
    <3>2. completed = 1..(t - 1)
      BY <2>3, <3>1
    <3>3. completed' = 1..t
      BY <2>2, <3>2 DEF Trials
    <3>4. Ledger!Complete(t)
      BY <2>2, <3>2, <3>3 DEF Ledger!Complete
    <3> QED  BY <2>2, <3>4 DEF Ledger!Next, Trials
  <2> QED  BY <2>4, <2>5
<1>3. CASE \E h \in Handlers : QuestStore(h)
  <2>1. PICK h \in Handlers : QuestStore(h)
    BY <1>3
  <2>2. frame[h].block \in MainBlocks
    BY DEF Inductive, TypeOK, Frames
  <2>3. Ledger!Answer(frame[h].block)
    BY <2>1 DEF QuestStore, Ledger!Answer
  <2> QED  BY <2>2, <2>3 DEF Ledger!Next
<1>4. CASE \E h \in Handlers : FinalWrite(h)
  <2>1. PICK h \in Handlers : FinalWrite(h)
    BY <1>4
  <2>2. AllWorkDone
    BY <2>1 DEF FinalWrite, WaitingOK, RequestOK
  <2>3. Ledger!Submit
    BY <2>1, <2>2 DEF FinalWrite, AllWorkDone, Ledger!Submit, Trials, Inductive, TypeOK
  <2> QED  BY <2>3 DEF Ledger!Next
<1>5. CASE row'.finalizedAt = row.finalizedAt /\ UNCHANGED <<completed, answered>>
  BY <1>5
<1>6. ASSUME NEW h \in Handlers,
             Start(h) \/ NextTrial(h) \/ UpdateProgress(h) \/ MarkAwaiting(h) \/ Crash(h)
      PROVE  row'.finalizedAt = row.finalizedAt /\ UNCHANGED <<completed, answered>>
  <2>1. CASE Start(h)
    BY <2>1 DEF Inductive, TypeOK, tables, Start, StartRead, StartFind, StartInsert,
       StartFreeze, StartWrite
  <2>2. CASE NextTrial(h)
    BY <2>2 DEF Inductive, TypeOK, tables, NextTrial, NextRead, NextBlocks, NextGate,
       NextBlocked, NextPick, NextFeatures, NextStore, LogEvent
  <2>3. CASE UpdateProgress(h)
    BY <2>3 DEF Inductive, TypeOK, tables, UpdateProgress, ProgressRead, ProgressWrite
  <2>4. CASE MarkAwaiting(h)
    BY <2>4 DEF Inductive, TypeOK, tables, MarkAwaiting, AwaitRead, WorkPending,
       WorkAnswers, AwaitWrite
  <2>5. CASE Crash(h)
    BY <2>5 DEF Crash, tables
  <2> QED  BY <1>6, <2>1, <2>2, <2>3, <2>4, <2>5
<1>7. CASE \E h \in Handlers : SubmitTrial(h)
  BY <1>1, <1>2, <1>7 DEF SubmitTrial, SubmitRead, SubmitFetch, LogEvent, SubmitSummary, tables
<1>8. CASE \E h \in Handlers : SubmitQuestionnaire(h)
  BY <1>1, <1>3, <1>8 DEF SubmitQuestionnaire, QuestRead, tables
<1>9. CASE \E h \in Handlers : FinalSubmit(h)
  BY <1>1, <1>4, <1>9 DEF FinalSubmit, FinalRead, WorkPending, WorkAnswers, tables
<1> QED  BY <1>1, <1>5, <1>6, <1>7, <1>8, <1>9 DEF Next, vars

\* The session tables implement the work ledger: trials are completed one by
\* one in plan order and stay completed, questionnaires accumulate, and the
\* session is submitted only with everything there.
THEOREM LedgerRefinement ==
    ASSUME ClientWaits = TRUE PROVE Spec => LedgerImplemented
<1>1. Inductive /\ Inductive' /\ [Next]_vars => [Ledger!Next]_(Ledger!vars)
  BY LedgerStep DEF Inductive
<1>2. Init => Ledger!Init
  BY LedgerInit
<1> QED
  BY <1>1, <1>2, InductiveInvariant, PTL DEF Spec, LedgerImplemented, Ledger!Spec

-----------------------------------------------------------------------------
(***************************************************************************)
(* When the requests of a session do not overlap: one handler, which may   *)
(* still die between any two statements.  This is how the participant API  *)
(* is tested, and the premise of its comments: what a handler read is      *)
(* still so when it writes.                                                *)
(*                                                                         *)
(* The invariant of the overlapping case says nothing of a status or a     *)
(* stage that was read, so SeqInv adds that knowledge to it, one line per  *)
(* program counter (Fresh).                                                *)
(***************************************************************************)

\* Requests do not overlap.
OneHandler == \A g, h \in Handlers : g = h

\* The main blocks before the block of a trial.
BlocksBefore(t) == {b \in MainBlocks : b < BlockOf[t]}

\* What the only handler still knows of what it read: no other request has
\* changed it since.
Fresh(h) ==
    LET t == frame[h].trial IN
    /\ pc[h] \in {"startFind", "startInsert", "startFreeze", "startWrite"} =>
           frame[h].seen = row.status
    /\ pc[h] = "nextGate" => frame[h].full = FullBlocks
    /\ pc[h] = "nextPick" => FullBlocks \subseteq answered
    /\ pc[h] \in {"nextFeatures", "nextStore"} => BlocksBefore(t) \subseteq answered
    /\ pc[h] \in SubmitLabels => t \notin completed
    /\ pc[h] \in {"startWrite", "awaitPending", "awaitAnswers", "awaitWrite"} =>
           row.status \in {"created", "in_progress"}
    /\ pc[h] \in {"finalPending", "finalAnswers", "finalWrite"} => row.status # "finalized"

\* The inductive invariant of requests that do not overlap.
SeqInv ==
    /\ NoLifecycleAnomaly
    /\ QuestionnaireGate
    /\ \A h \in Handlers : Fresh(h)

\* What has to be shown of a step of the handler.
Advances(h) == NoLifecycleAnomaly' /\ QuestionnaireGate' /\ Fresh(h)'

-----------------------------------------------------------------------------
(* The steps that do not matter.                                           *)

\* At these labels the handler has read nothing that it relies on.
LEMMA FreeFresh ==
    ASSUME NEW h \in Handlers,
           pc'[h] \in {"idle", "nextBlocks", "nextBlocked", "nextLogStarted",
                       "nextLogAssistance", "submitFetch", "questStore", "progressRead",
                       "progressWrite", "awaitRead"}
    PROVE  Fresh(h)'
BY DEF Fresh, SubmitLabels

\* A statement that leaves the status, completed_at, the decisions and the
\* answers alone keeps the two invariants.
LEMMA SameAdvances ==
    ASSUME SeqInv, NEW h \in Handlers, row'.status = row.status,
           row'.completedAt = row.completedAt, UNCHANGED <<decision, answered>>, Fresh(h)'
    PROVE  Advances(h)
BY DEF SeqInv, Advances, NoLifecycleAnomaly, QuestionnaireGate

\* A read keeps the two invariants.
LEMMA ReadAdvances ==
    ASSUME SeqInv, NEW h \in Handlers, UNCHANGED tables, Fresh(h)'
    PROVE  Advances(h)
BY SameAdvances DEF tables

\* A handler that ends knows nothing.
LEMMA ReturnFresh ==
    ASSUME Inductive, NEW h \in Handlers, Return(h) PROVE Fresh(h)'
BY ReturnMoves, FreeFresh DEF Inductive

-----------------------------------------------------------------------------
(* One lemma per request.                                                  *)

\* start_session's early return is decided on the status of the row.
LEMMA StartGateFresh ==
    ASSUME Inductive, SeqInv, NEW h \in Handlers, StartGate(h), row'.status = row.status,
           pc[h] \in {"startFind", "startFreeze"}
    PROVE  Fresh(h)'
<1>1. CASE Return(h)
  BY <1>1, ReturnFresh
<1>2. CASE ~Return(h)
  <2>1. /\ frame[h].seen \notin {"awaiting_final_submit", "finalized"}
        /\ Goto(h, "startWrite") /\ frame' = frame
    BY <1>2 DEF StartGate
  <2>2. frame[h].seen = row.status /\ row.status \in Statuses
    BY DEF SeqInv, Fresh, Inductive, TypeOK
  <2>3. pc'[h] = "startWrite"
    BY <2>1, GotoMoves DEF Inductive
  <2> QED  BY <2>1, <2>2, <2>3 DEF Fresh, SubmitLabels, Statuses
<1> QED  BY <1>1, <1>2

\* The statements of start_session.
LEMMA StartAdvances ==
    ASSUME Inductive, SeqInv, NEW h \in Handlers, Start(h) PROVE Advances(h)
<1> USE DEF Inductive
<1>1. CASE StartRead(h)
  <2>1. pc'[h] = "startFind" /\ frame'[h].seen = row.status /\ row' = row
    BY <1>1, GotoMoves DEF StartRead, TypeOK, Frames, tables
  <2>2. Fresh(h)'
    BY <2>1 DEF Fresh, SubmitLabels
  <2> QED  BY <1>1, <2>2, ReadAdvances DEF StartRead
<1>2. CASE StartFind(h)
  <2>1. CASE snapshot
    BY <1>2, <2>1, StartGateFresh, ReadAdvances DEF StartFind, tables
  <2>2. CASE ~snapshot
    <3>1. pc'[h] = "startInsert" /\ frame' = frame /\ row' = row
      BY <1>2, <2>2, GotoMoves DEF StartFind, tables
    <3>2. frame[h].seen = row.status
      BY <1>2 DEF StartFind, SeqInv, Fresh
    <3>3. Fresh(h)'
      BY <3>1, <3>2 DEF Fresh, SubmitLabels
    <3> QED  BY <1>2, <3>3, ReadAdvances DEF StartFind
  <2> QED  BY <2>1, <2>2
<1>3. CASE StartInsert(h)
  <2>1. CASE Return(h)
    BY <1>3, <2>1, ReturnFresh, SameAdvances DEF StartInsert
  <2>2. CASE ~Return(h)
    <3>1. pc'[h] = "startFreeze" /\ frame' = frame /\ row' = row
      BY <1>3, <2>2, GotoMoves DEF StartInsert
    <3>2. frame[h].seen = row.status
      BY <1>3 DEF StartInsert, SeqInv, Fresh
    <3>3. Fresh(h)'
      BY <3>1, <3>2 DEF Fresh, SubmitLabels
    <3> QED  BY <1>3, <3>3, SameAdvances DEF StartInsert
  <2> QED  BY <2>1, <2>2
<1>4. CASE StartFreeze(h)
  <2>1. row'.status = row.status /\ row'.completedAt = row.completedAt
    BY <1>4 DEF StartFreeze, TypeOK
  <2> QED  BY <1>4, <2>1, StartGateFresh, SameAdvances DEF StartFreeze
<1>5. CASE StartWrite(h)
  <2>1. row.status \in {"created", "in_progress"} /\ ~row.completedAt
    BY <1>5 DEF StartWrite, SeqInv, Fresh, NoLifecycleAnomaly
  <2>2. row'.status = "in_progress" /\ row'.completedAt = row.completedAt
    BY <1>5 DEF StartWrite, TypeOK
  <2>3. Fresh(h)'
    BY <1>5, ReturnFresh DEF StartWrite
  <2> QED
    BY <1>5, <2>1, <2>2, <2>3
    DEF StartWrite, Advances, SeqInv, NoLifecycleAnomaly, QuestionnaireGate
<1> QED  BY <1>1, <1>2, <1>3, <1>4, <1>5 DEF Start

\* When the trials before t are completed and the full blocks answered, the
\* blocks before that of t are answered: the plan is ordered by block.
LEMMA EarlierBlocks ==
    ASSUME TypeOK, NEW t \in Trials, 1..(t - 1) \subseteq completed, FullBlocks \subseteq answered
    PROVE  BlocksBefore(t) \subseteq answered
<1> SUFFICES ASSUME NEW b \in MainBlocks, b < BlockOf[t] PROVE b \in FullBlocks
  BY DEF BlocksBefore
<1> SUFFICES ASSUME NEW u \in Trials, BlockOf[u] = b PROVE u \in completed
  BY DEF FullBlocks
<1>1. NTrials \in Nat /\ BlockOf[u] \in Int /\ BlockOf[t] \in Int
  BY PlanAssumption, BlocksInRange DEF Trials, Practice
<1>2. ~(t <= u)
  <2>1. ~(BlockOf[t] <= BlockOf[u])
    BY <1>1
  <2> QED  BY <1>1, <2>1, PlanAssumption DEF Trials
<1> QED  BY <1>1, <1>2 DEF Trials

\* The trials before the first pending one are completed.
LEMMA PendingPrefix ==
    ASSUME TypeOK, Trials \ completed # {}
    PROVE  1..(Min(Trials \ completed) - 1) \subseteq completed
<1> DEFINE pending == Trials \ completed
<1>1. Min(pending) \in pending /\ \A t \in pending : Min(pending) <= t
  BY MinTrial
<1>2. NTrials \in Nat
  BY PlanAssumption
<1> HIDE DEF pending
<1>3. \A u \in 1..(Min(pending) - 1) : u \in Trials /\ u \notin pending
  <2>1. Min(pending) \in 1..NTrials
    BY <1>1 DEF pending, Trials
  <2> QED  BY <1>1, <1>2, <2>1 DEF Trials
<1> QED  BY <1>3 DEF pending

\* The statements of next_trial: a trial is decided only behind the gate.
LEMMA NextTrialAdvances ==
    ASSUME Inductive, SeqInv, NEW h \in Handlers, NextTrial(h) PROVE Advances(h)
<1> USE DEF Inductive
<1>1. CASE NextRead(h)
  <2>1. pc'[h] = "nextBlocks" /\ UNCHANGED tables
    BY <1>1, GotoMoves DEF NextRead, tables
  <2> QED  BY <2>1, FreeFresh, ReadAdvances
<1>2. CASE NextBlocks(h)
  <2>1. CASE snapshot
    <3>1. pc'[h] = "nextGate" /\ frame'[h].full = FullBlocks
      BY <1>2, <2>1, GotoMoves DEF NextBlocks, TypeOK, Frames
    <3>2. FullBlocks' = FullBlocks
      BY <1>2 DEF NextBlocks, tables, FullBlocks
    <3>3. Fresh(h)'
      BY <3>1, <3>2 DEF Fresh, SubmitLabels
    <3> QED  BY <1>2, <3>3, ReadAdvances DEF NextBlocks
  <2>2. CASE ~snapshot
    BY <1>2, <2>2, ReturnFresh, ReadAdvances DEF NextBlocks
  <2> QED  BY <2>1, <2>2
<1>3. CASE NextGate(h)
  <2>1. CASE frame[h].full \ answered # {}
    <3>1. pc'[h] = "nextBlocked"
      BY <1>3, <2>1, GotoMoves DEF NextGate
    <3> QED  BY <1>3, <3>1, FreeFresh, ReadAdvances DEF NextGate
  <2>2. CASE frame[h].full \ answered = {}
    <3>1. pc'[h] = "nextPick" /\ UNCHANGED tables
      BY <1>3, <2>2, GotoMoves DEF NextGate
    <3>2. FullBlocks' \subseteq answered'
      BY <1>3, <2>2, <3>1 DEF NextGate, SeqInv, Fresh, FullBlocks, tables
    <3>3. Fresh(h)'
      BY <3>1, <3>2 DEF Fresh, SubmitLabels
    <3> QED  BY <3>1, <3>3, ReadAdvances
  <2> QED  BY <2>1, <2>2
<1>4. CASE NextBlocked(h)
  <2>1. row'.status = row.status /\ row'.completedAt = row.completedAt
    BY <1>4 DEF NextBlocked, TypeOK
  <2> QED  BY <1>4, <2>1, ReturnFresh, SameAdvances DEF NextBlocked
<1>5. CASE NextPick(h)
  <2> DEFINE pending == Trials \ completed
  <2>1. CASE pending = {}
    <3>1. pc'[h] = "awaitRead"
      BY <1>5, <2>1, GotoMoves DEF NextPick
    <3> QED  BY <1>5, <3>1, FreeFresh, ReadAdvances DEF NextPick
  <2>2. CASE pending # {} /\ decision[Min(pending)] # NoDecision
    BY <1>5, <2>2, ReturnFresh, ReadAdvances DEF NextPick
  <2>3. CASE pending # {} /\ decision[Min(pending)] = NoDecision
    <3>1. pc'[h] = "nextFeatures" /\ frame'[h].trial = Min(pending) /\ UNCHANGED tables
      BY <1>5, <2>3, GotoMoves DEF NextPick, TypeOK, Frames
    <3>2. frame'[h].trial \in Trials
      BY <2>3, <3>1, MinTrial
    <3>3. 1..(Min(pending) - 1) \subseteq completed
      BY <2>3, PendingPrefix
    <3>4. FullBlocks \subseteq answered
      BY <1>5 DEF NextPick, SeqInv, Fresh
    <3>5. BlocksBefore(frame'[h].trial) \subseteq answered
      BY <3>1, <3>2, <3>3, <3>4, EarlierBlocks
    <3>6. Fresh(h)'
      BY <3>1, <3>5 DEF Fresh, SubmitLabels, BlocksBefore, tables
    <3> QED  BY <3>1, <3>6, ReadAdvances
  <2> QED  BY <2>1, <2>2, <2>3
<1>6. CASE NextFeatures(h)
  <2>1. pc'[h] = "nextStore" /\ frame'[h].trial = frame[h].trial /\ UNCHANGED tables
    BY <1>6, GotoMoves DEF NextFeatures, TypeOK, Frames
  <2>2. BlocksBefore(frame[h].trial) \subseteq answered
    BY <1>6 DEF NextFeatures, SeqInv, Fresh
  <2>3. Fresh(h)'
    BY <2>1, <2>2 DEF Fresh, SubmitLabels, BlocksBefore, tables
  <2> QED  BY <2>1, <2>3, ReadAdvances
<1>7. CASE NextStore(h)
  <2>1. pc'[h] = "nextLogStarted"
    BY <1>7, GotoMoves DEF NextStore
  <2>2. BlocksBefore(frame[h].trial) \subseteq answered
    BY <1>7 DEF NextStore, SeqInv, Fresh
  <2>3. QuestionnaireGate'
    BY <1>7, <2>2 DEF NextStore, SeqInv, QuestionnaireGate, BlocksBefore, TypeOK
  <2>4. NoLifecycleAnomaly'
    BY <1>7 DEF NextStore, SeqInv, NoLifecycleAnomaly
  <2> QED  BY <2>1, <2>3, <2>4, FreeFresh DEF Advances
<1>8. CASE LogEvent(h, "nextLogStarted", "trial_started", "nextLogAssistance")
  <2>1. pc'[h] = "nextLogAssistance"
    BY <1>8, GotoMoves DEF LogEvent
  <2> QED  BY <1>8, <2>1, FreeFresh, SameAdvances DEF LogEvent
<1>9. CASE LogEvent(h, "nextLogAssistance", "assistance_rendered", "idle")
  <2>1. pc'[h] = "idle"
    BY <1>9, ReturnMoves DEF LogEvent
  <2> QED  BY <1>9, <2>1, FreeFresh, SameAdvances DEF LogEvent
<1> QED
  BY <1>1, <1>2, <1>3, <1>4, <1>5, <1>6, <1>7, <1>8, <1>9 DEF NextTrial

\* The statements of submit_trial: the trial it writes is not completed.
LEMMA SubmitTrialAdvances ==
    ASSUME Inductive, SeqInv, NEW h \in Handlers, SubmitTrial(h) PROVE Advances(h)
<1> USE DEF Inductive
<1>1. CASE \E t \in Trials, r \in Responses : SubmitRead(h, t, r)
  <2>1. pc'[h] = "submitFetch" /\ UNCHANGED tables
    BY <1>1, GotoMoves DEF SubmitRead
  <2> QED  BY <2>1, FreeFresh, ReadAdvances
<1>2. CASE SubmitFetch(h)
  <2> DEFINE t == frame[h].trial
  <2>1. CASE snapshot /\ t \notin completed /\ decision[t] # NoDecision
    <3>1. pc'[h] = "submitLogResponse" /\ frame'[h].trial = t /\ UNCHANGED tables
      BY <1>2, <2>1, GotoMoves DEF SubmitFetch, TypeOK, Frames
    <3>2. Fresh(h)'
      BY <2>1, <3>1 DEF Fresh, tables
    <3> QED  BY <3>1, <3>2, ReadAdvances
  <2>2. CASE ~(snapshot /\ t \notin completed /\ decision[t] # NoDecision)
    BY <1>2, <2>2, ReturnFresh, ReadAdvances DEF SubmitFetch
  <2> QED  BY <2>1, <2>2
<1>3. CASE \/ LogEvent(h, "submitLogResponse", "response_selected", "submitLogConfidence")
           \/ LogEvent(h, "submitLogConfidence", "confidence_submitted", "submitLogCompleted")
           \/ LogEvent(h, "submitLogCompleted", "trial_completed", "submitSummary")
  <2>1. /\ pc'[h] \in {"submitLogConfidence", "submitLogCompleted", "submitSummary"}
        /\ pc[h] \in SubmitLabels /\ frame' = frame
        /\ UNCHANGED <<row, completed, decision, answered>>
    BY <1>3, GotoMoves DEF LogEvent, SubmitLabels
  <2>2. Fresh(h)'
    BY <2>1 DEF SeqInv, Fresh, SubmitLabels
  <2> QED  BY <2>1, <2>2, SameAdvances
<1>4. CASE SubmitSummary(h)
  <2>1. pc'[h] = "submitComplete" /\ pc[h] \in SubmitLabels /\ frame' = frame
    BY <1>4, GotoMoves DEF SubmitSummary, SubmitLabels
  <2>2. Fresh(h)'
    BY <1>4, <2>1 DEF SubmitSummary, SeqInv, Fresh, SubmitLabels
  <2> QED  BY <1>4, <2>2, SameAdvances DEF SubmitSummary
<1>5. CASE SubmitComplete(h)
  <2>1. pc'[h] = "progressRead"
    BY <1>5, GotoMoves DEF SubmitComplete
  <2> QED  BY <1>5, <2>1, FreeFresh, SameAdvances DEF SubmitComplete
<1> QED  BY <1>1, <1>2, <1>3, <1>4, <1>5 DEF SubmitTrial

\* The statements of submit_block_questionnaire: answers accumulate.
LEMMA SubmitQuestionnaireAdvances ==
    ASSUME Inductive, SeqInv, NEW h \in Handlers, SubmitQuestionnaire(h) PROVE Advances(h)
<1> USE DEF Inductive
<1>1. CASE \E b \in MainBlocks : QuestRead(h, b)
  <2>1. pc'[h] = "questStore" /\ UNCHANGED tables
    BY <1>1, GotoMoves DEF QuestRead
  <2> QED  BY <2>1, FreeFresh, ReadAdvances
<1>2. CASE QuestStore(h)
  <2>1. pc'[h] = "progressRead"
    BY <1>2, GotoMoves DEF QuestStore
  <2> QED
    BY <1>2, <2>1, FreeFresh
    DEF QuestStore, SeqInv, Advances, NoLifecycleAnomaly, QuestionnaireGate
<1> QED  BY <1>1, <1>2 DEF SubmitQuestionnaire

\* The statements of update_progress leave the status alone.
LEMMA UpdateProgressAdvances ==
    ASSUME Inductive, SeqInv, NEW h \in Handlers, UpdateProgress(h) PROVE Advances(h)
<1> USE DEF Inductive
<1>1. CASE ProgressRead(h)
  <2>1. pc'[h] = "progressWrite" /\ UNCHANGED tables
    BY <1>1, GotoMoves DEF ProgressRead
  <2> QED  BY <2>1, FreeFresh, ReadAdvances
<1>2. CASE ProgressWrite(h)
  <2>1. pc'[h] = "awaitRead" /\ row'.status = row.status /\ row'.completedAt = row.completedAt
    BY <1>2, GotoMoves DEF ProgressWrite, TypeOK
  <2> QED  BY <1>2, <2>1, FreeFresh, SameAdvances DEF ProgressWrite
<1> QED  BY <1>1, <1>2 DEF UpdateProgress

\* A read of required_work_status leaves what was known of the status.
LEMMA WorkAdvances ==
    ASSUME Inductive, SeqInv, NEW h \in Handlers,
           \/ WorkPending(h, "awaitPending", "awaitAnswers")
           \/ WorkAnswers(h, "awaitAnswers", "awaitWrite")
           \/ WorkPending(h, "finalPending", "finalAnswers")
           \/ WorkAnswers(h, "finalAnswers", "finalWrite")
    PROVE  Advances(h)
<1> USE DEF Inductive
<1>1. UNCHANGED tables
  BY DEF WorkPending, WorkAnswers
<1>2. CASE Return(h)
  BY <1>1, <1>2, ReturnFresh, ReadAdvances
<1>3. CASE ~Return(h)
  <2>1. \/ pc[h] \in {"awaitPending", "awaitAnswers"} /\ pc'[h] \in {"awaitAnswers", "awaitWrite"}
        \/ pc[h] \in {"finalPending", "finalAnswers"} /\ pc'[h] \in {"finalAnswers", "finalWrite"}
    BY <1>3, GotoMoves DEF WorkPending, WorkAnswers
  <2>2. Fresh(h)'
    BY <1>1, <2>1 DEF SeqInv, Fresh, SubmitLabels, tables
  <2> QED  BY <1>1, <2>2, ReadAdvances
<1> QED  BY <1>2, <1>3

\* The statements of mark_awaiting_final_submit_if_done: a session that is
\* finalized is not written.
LEMMA MarkAwaitingAdvances ==
    ASSUME Inductive, SeqInv, NEW h \in Handlers, MarkAwaiting(h) PROVE Advances(h)
<1> USE DEF Inductive
<1>1. CASE AwaitRead(h)
  <2>1. CASE row.status \in {"awaiting_final_submit", "finalized"}
    BY <1>1, <2>1, ReturnFresh, ReadAdvances DEF AwaitRead
  <2>2. CASE row.status \notin {"awaiting_final_submit", "finalized"}
    <3>1. pc'[h] = "awaitPending" /\ row' = row
      BY <1>1, <2>2, GotoMoves DEF AwaitRead, tables
    <3>2. row.status \in {"created", "in_progress"}
      BY <2>2 DEF TypeOK, Statuses
    <3>3. Fresh(h)'
      BY <3>1, <3>2 DEF Fresh, SubmitLabels
    <3> QED  BY <1>1, <3>3, ReadAdvances DEF AwaitRead
  <2> QED  BY <2>1, <2>2
<1>2. CASE AwaitWrite(h)
  <2>1. row'.status = "awaiting_final_submit" /\ row'.completedAt = FALSE
    BY <1>2 DEF AwaitWrite, TypeOK
  <2> QED
    BY <1>2, <2>1, ReturnFresh
    DEF AwaitWrite, SeqInv, Advances, NoLifecycleAnomaly, QuestionnaireGate
<1> QED  BY <1>1, <1>2, WorkAdvances DEF MarkAwaiting

\* The statements of final_submit: status and completed_at are one UPDATE.
LEMMA FinalSubmitAdvances ==
    ASSUME Inductive, SeqInv, NEW h \in Handlers, FinalSubmit(h) PROVE Advances(h)
<1> USE DEF Inductive
<1>1. CASE FinalRead(h)
  <2>1. pc'[h] = "finalPending" /\ UNCHANGED tables /\ row.status # "finalized"
    BY <1>1, GotoMoves DEF FinalRead, tables
  <2>2. Fresh(h)'
    BY <2>1 DEF Fresh, SubmitLabels, tables
  <2> QED  BY <2>1, <2>2, ReadAdvances
<1>2. CASE FinalWrite(h)
  <2>1. row'.status = "finalized" /\ row'.completedAt = TRUE
    BY <1>2 DEF FinalWrite, TypeOK
  <2> QED
    BY <1>2, <2>1, ReturnFresh
    DEF FinalWrite, SeqInv, Advances, NoLifecycleAnomaly, QuestionnaireGate
<1> QED  BY <1>1, <1>2, WorkAdvances DEF FinalSubmit

-----------------------------------------------------------------------------
(* The inductive invariant.                                                *)

\* It holds for a session just created.
LEMMA SeqInit == Init => SeqInv
BY DEF Init, SeqInv, NoLifecycleAnomaly, QuestionnaireGate, Fresh, SubmitLabels

\* Every step of the only handler keeps it.
LEMMA SeqNext ==
    ASSUME OneHandler, Inductive, SeqInv, [Next]_vars PROVE SeqInv'
<1>1. CASE Next
  <2>1. PICK h \in Handlers :
            \/ Start(h) \/ NextTrial(h) \/ SubmitTrial(h) \/ SubmitQuestionnaire(h)
            \/ UpdateProgress(h) \/ MarkAwaiting(h) \/ FinalSubmit(h) \/ Crash(h)
    BY <1>1 DEF Next
  <2>2. ASSUME Crash(h) PROVE Advances(h)
    BY <2>2, ReturnFresh, ReadAdvances DEF Crash
  <2>3. Advances(h)
    BY <2>1, <2>2, StartAdvances, NextTrialAdvances, SubmitTrialAdvances,
       SubmitQuestionnaireAdvances, UpdateProgressAdvances, MarkAwaitingAdvances,
       FinalSubmitAdvances
  <2> QED  BY <2>3 DEF OneHandler, Advances, SeqInv
<1>2. CASE UNCHANGED vars
  BY <1>2 DEF vars, SeqInv, NoLifecycleAnomaly, QuestionnaireGate, Fresh, FullBlocks
<1> QED  BY <1>1, <1>2

\* It holds in every reachable state.
THEOREM SequentialInvariant == ASSUME OneHandler PROVE Spec => []SeqInv
<1>1. Inductive /\ SeqInv /\ [Next]_vars => SeqInv'
  BY SeqNext
<1> QED  BY <1>1, SeqInit, InductiveInvariant, PTL DEF Spec

\* Requests one at a time never leave a row that the dashboard counts as a
\* lifecycle anomaly (finalized without completed_at, or the reverse).
THEOREM LifecycleIsSound == ASSUME OneHandler PROVE Spec => []NoLifecycleAnomaly
<1>1. SeqInv => NoLifecycleAnomaly
  BY DEF SeqInv
<1> QED  BY <1>1, SequentialInvariant, PTL

\* Requests one at a time, next_trial serves no trial whose earlier blocks
\* still lack a questionnaire.
THEOREM GateHolds == ASSUME OneHandler PROVE Spec => []QuestionnaireGate
<1>1. SeqInv => QuestionnaireGate
  BY DEF SeqInv
<1> QED  BY <1>1, SequentialInvariant, PTL

\* The summaries are written by submit_trial alone.
LEMMA SummaryWriter ==
    ASSUME Next PROVE summary' = summary \/ \E h \in Handlers : SubmitSummary(h)
<1>1. PICK h \in Handlers :
          \/ Start(h) \/ NextTrial(h) \/ SubmitTrial(h) \/ SubmitQuestionnaire(h)
          \/ UpdateProgress(h) \/ MarkAwaiting(h) \/ FinalSubmit(h) \/ Crash(h)
  BY DEF Next
<1> USE DEF tables
<1>2. CASE Start(h)
  BY <1>2 DEF Start, StartRead, StartFind, StartInsert, StartFreeze, StartWrite
<1>3. CASE NextTrial(h)
  BY <1>3 DEF NextTrial, NextRead, NextBlocks, NextGate, NextBlocked, NextPick, NextFeatures,
     NextStore, LogEvent
<1>4. CASE SubmitTrial(h)
  BY <1>4 DEF SubmitTrial, SubmitRead, SubmitFetch, LogEvent, SubmitComplete
<1>5. CASE SubmitQuestionnaire(h)
  BY <1>5 DEF SubmitQuestionnaire, QuestRead, QuestStore
<1>6. CASE UpdateProgress(h)
  BY <1>6 DEF UpdateProgress, ProgressRead, ProgressWrite
<1>7. CASE MarkAwaiting(h)
  BY <1>7 DEF MarkAwaiting, AwaitRead, WorkPending, WorkAnswers, AwaitWrite
<1>8. CASE FinalSubmit(h)
  BY <1>8 DEF FinalSubmit, FinalRead, WorkPending, WorkAnswers, FinalWrite
<1>9. CASE Crash(h)
  BY <1>9 DEF Crash
<1> QED  BY <1>1, <1>2, <1>3, <1>4, <1>5, <1>6, <1>7, <1>8, <1>9

\* Requests one at a time, a retry of submit_trial leaves the summary of a
\* completed trial as it is, whatever answer it carries.
THEOREM AnswersAreFrozen == ASSUME OneHandler PROVE Spec => CompletedAnswersFrozen
<1> DEFINE Frozen == \A t \in completed : summary'[t] = summary[t]
<1>1. Inductive /\ SeqInv /\ [Next]_vars => [Frozen]_vars
  <2> SUFFICES ASSUME Inductive, SeqInv, Next PROVE Frozen
    OBVIOUS
  <2>1. CASE \E h \in Handlers : SubmitSummary(h)
    <3>1. PICK h \in Handlers : SubmitSummary(h)
      BY <2>1
    <3>2. frame[h].trial \notin completed
      BY <3>1 DEF SubmitSummary, SeqInv, Fresh, SubmitLabels
    <3> QED  BY <3>1, <3>2 DEF SubmitSummary, Inductive, TypeOK
  <2>2. CASE summary' = summary
    BY <2>2
  <2> QED  BY <2>1, <2>2, SummaryWriter
<1> QED
  BY <1>1, SequentialInvariant, InductiveInvariant, PTL DEF Spec, CompletedAnswersFrozen

-----------------------------------------------------------------------------
(* Refinement of SessionLifecycle.                                         *)

\* A session just created maps to one that has no work done.
LEMMA LifecycleInit == Init => Lifecycle!Init
BY DEF Init, Lifecycle!Init, AllWorkDone

\* The status and completed_at are written by three statements.
LEMMA StatusWriters ==
    ASSUME TypeOK, Next
    PROVE  \/ row'.status = row.status /\ row'.completedAt = row.completedAt
           \/ \E h \in Handlers : StartWrite(h) \/ AwaitWrite(h) \/ FinalWrite(h)
<1>1. PICK h \in Handlers :
          \/ Start(h) \/ NextTrial(h) \/ SubmitTrial(h) \/ SubmitQuestionnaire(h)
          \/ UpdateProgress(h) \/ MarkAwaiting(h) \/ FinalSubmit(h) \/ Crash(h)
  BY DEF Next
<1> USE DEF tables, TypeOK
<1>2. CASE Start(h)
  BY <1>2 DEF Start, StartRead, StartFind, StartInsert, StartFreeze
<1>3. CASE NextTrial(h)
  BY <1>3 DEF NextTrial, NextRead, NextBlocks, NextGate, NextBlocked, NextPick, NextFeatures,
     NextStore, LogEvent
<1>4. CASE SubmitTrial(h)
  BY <1>4 DEF SubmitTrial, SubmitRead, SubmitFetch, LogEvent, SubmitSummary, SubmitComplete
<1>5. CASE SubmitQuestionnaire(h)
  BY <1>5 DEF SubmitQuestionnaire, QuestRead, QuestStore
<1>6. CASE UpdateProgress(h)
  BY <1>6 DEF UpdateProgress, ProgressRead, ProgressWrite
<1>7. CASE MarkAwaiting(h)
  BY <1>7 DEF MarkAwaiting, AwaitRead, WorkPending, WorkAnswers
<1>8. CASE FinalSubmit(h)
  BY <1>8 DEF FinalSubmit, FinalRead, WorkPending, WorkAnswers
<1>9. CASE Crash(h)
  BY <1>9 DEF Crash
<1> QED  BY <1>1, <1>2, <1>3, <1>4, <1>5, <1>6, <1>7, <1>8, <1>9

\* Every step maps to a step of SessionLifecycle or to a stutter.
LEMMA LifecycleStep ==
    ASSUME ClientWaits = TRUE, Inductive, Inductive', SeqInv, [Next]_vars
    PROVE  [Lifecycle!Next]_(Lifecycle!vars)
<1> USE DEF Lifecycle!vars
<1>1. CASE row'.status = row.status /\ row'.completedAt = row.completedAt /\ Grows
  <2>1. AllWorkDone => AllWorkDone'
    BY <1>1, WorkDoneGrows DEF Inductive
  <2>2. CASE AllWorkDone' = AllWorkDone
    BY <1>1, <2>2
  <2>3. CASE ~AllWorkDone /\ AllWorkDone'
    <3>1. row.status \in {"created", "in_progress"}
      BY <2>3 DEF Inductive, WaitingOK, SubmittedMeansDone, TypeOK, Statuses
    <3>2. Lifecycle!FinishWork
      BY <1>1, <2>3, <3>1 DEF Lifecycle!FinishWork
    <3> QED  BY <3>2 DEF Lifecycle!Next
  <2> QED  BY <2>1, <2>2, <2>3 DEF AllWorkDone
<1>2. CASE \E h \in Handlers : StartWrite(h)
  <2>1. PICK h \in Handlers : StartWrite(h)
    BY <1>2
  <2>2. row.status \in {"created", "in_progress"} /\ AllWorkDone' = AllWorkDone
    BY <2>1 DEF StartWrite, SeqInv, Fresh, AllWorkDone
  <2>3. row'.status = "in_progress" /\ row'.completedAt = row.completedAt
    BY <2>1 DEF StartWrite, Inductive, TypeOK
  <2> QED  BY <2>2, <2>3 DEF Lifecycle!Next, Lifecycle!Start
<1>3. CASE \E h \in Handlers : AwaitWrite(h)
  <2>1. PICK h \in Handlers : AwaitWrite(h)
    BY <1>3
  <2>2. row.status \in {"created", "in_progress"} /\ ~row.completedAt
    BY <2>1 DEF AwaitWrite, SeqInv, Fresh, NoLifecycleAnomaly
  <2>3. AllWorkDone /\ AllWorkDone' = AllWorkDone
    BY <2>1 DEF AwaitWrite, Inductive, WaitingOK, RequestOK, AllWorkDone
  <2>4. row'.status = "awaiting_final_submit" /\ row'.completedAt = row.completedAt
    BY <2>1, <2>2 DEF AwaitWrite, Inductive, TypeOK
  <2> QED  BY <2>2, <2>3, <2>4 DEF Lifecycle!Next, Lifecycle!Await
<1>4. CASE \E h \in Handlers : FinalWrite(h)
  <2>1. PICK h \in Handlers : FinalWrite(h)
    BY <1>4
  <2>2. row.status # "finalized"
    BY <2>1 DEF FinalWrite, SeqInv, Fresh
  <2>3. AllWorkDone /\ AllWorkDone' = AllWorkDone
    BY <2>1 DEF FinalWrite, Inductive, WaitingOK, RequestOK, AllWorkDone
  <2>4. row'.status = "finalized" /\ row'.completedAt = TRUE
    BY <2>1 DEF FinalWrite, Inductive, TypeOK
  <2> QED  BY <2>2, <2>3, <2>4 DEF Lifecycle!Next, Lifecycle!Finalize
<1>5. CASE UNCHANGED vars
  BY <1>5 DEF vars, AllWorkDone
<1>6. CASE Next
  <2>1. Grows
    BY <1>6, StepSound DEF Sound, Next, Step
  <2>2. \/ row'.status = row.status /\ row'.completedAt = row.completedAt
        \/ \E h \in Handlers : StartWrite(h) \/ AwaitWrite(h) \/ FinalWrite(h)
    BY <1>6, StatusWriters DEF Inductive
  <2> QED  BY <1>1, <1>2, <1>3, <1>4, <2>1, <2>2
<1> QED  BY <1>5, <1>6

\* The status column implements the lifecycle that the API describes when
\* requests do not overlap: started once, awaiting when the work is done,
\* finalized for good.
THEOREM LifecycleRefinement ==
    ASSUME OneHandler, ClientWaits = TRUE PROVE Spec => LifecycleImplemented
<1>1. Inductive /\ Inductive' /\ SeqInv /\ [Next]_vars => [Lifecycle!Next]_(Lifecycle!vars)
  BY LifecycleStep
<1> QED
  BY <1>1, LifecycleInit, SequentialInvariant, InductiveInvariant, PTL
  DEF Spec, LifecycleImplemented, Lifecycle!Spec
=============================================================================
