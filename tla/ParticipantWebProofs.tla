------------------------ MODULE ParticipantWebProofs ------------------------
(***************************************************************************)
(* The page and the session together, for every plan, any number of        *)
(* handlers and any number of failures: the page is a client of            *)
(* ParticipantSession that waits for its trials, it is a dead end only     *)
(* where the run's details were lost, it shows completion only over stored *)
(* work, and the decision it shows was made from the trials before.        *)
(*                                                                         *)
(* The hard part is the trial on the page.  An earlier request for it that *)
(* the page gave up may still be about to store its own decision, so the   *)
(* invariant must say why that one counts the same trials: nothing after   *)
(* the trial is completed or being submitted (Newest), a decision counts   *)
(* at least the trials before (CountsTo), and there are no others.         *)
(***************************************************************************)
EXTENDS ParticipantWeb, ParticipantSessionProofs

\* The statements of start_session.
StartLabels == {"startFind", "startInsert", "startFreeze", "startWrite"}
\* The statements of next_trial up to its pick.
PickLabels == {"nextBlocks", "nextGate", "nextBlocked", "nextPick"}
\* The statements of next_trial with the trial it picked.
DecideLabels == {"nextFeatures", "nextStore", "nextLogStarted", "nextLogAssistance"}
\* The statements of submit_trial.
Submitting == {"submitFetch"} \cup SubmitLabels
\* The statements of update_progress.
ProgressLabels == {"progressRead", "progressWrite"}
\* The statements of mark_awaiting_final_submit_if_done.
AwaitLabels == {"awaitRead", "awaitPending", "awaitAnswers", "awaitWrite"}
\* The statements of final_submit.
FinalLabels == {"finalPending", "finalAnswers", "finalWrite"}

\* The stages of useParticipantFlow.ts.
PageStages == {"entry", "resume_prompt", "trial", "questionnaire",
               "awaiting_final_submit", "completion"}
\* The states of the page.
Pages == [stage : PageStages, trial : Trials \cup {NoTrial}, basis : Decisions,
          block : MainBlocks \cup {NoBlock}, run : BOOLEAN, known : BOOLEAN,
          error : BOOLEAN]
\* What the page may be waiting for.
Calls == {"none", "enter", "resume", "progress", "start", "next", "submit",
          "questionnaire", "final"}

\* A page has what its stage needs.
PageFits(p) ==
    /\ p \in Pages
    /\ p.stage \in {"trial", "questionnaire", "awaiting_final_submit"} => p.known
    /\ p.stage = "trial" <=> p.trial # NoTrial

\* No trial after t is completed or being submitted.
Newest(t) ==
    /\ completed \subseteq 1..t
    /\ \A h \in Handlers : pc[h] \in Submitting => frame[h].trial <= t

\* What a page says about the session is so.
Shows(p) ==
    /\ p.stage \in {"questionnaire", "awaiting_final_submit"} => snapshot
    /\ p.stage = "completion" => row.finalizedAt
    /\ p.trial # NoTrial =>
           /\ Newest(p.trial)
           /\ decision[p.trial] # NoDecision
           /\ p.basis = 1..(p.trial - 1)

\* Which page waits for which request.
Sends(p, kind) ==
    /\ kind = "enter" => p.stage = "entry"
    /\ kind = "resume" => p.stage = "resume_prompt"
    /\ kind = "progress" => p.stage = "resume_prompt" /\ p.known
    /\ kind = "start" => p.stage \in {"entry", "resume_prompt"} /\ p.known
    /\ kind = "next" => p.known
    /\ kind = "submit" => p.stage = "trial"
    /\ kind = "questionnaire" => p.stage = "questionnaire" /\ p.block # NoBlock
    /\ kind = "final" => p.stage = "awaiting_final_submit"
    /\ p.stage = "questionnaire" /\ p.block = NoBlock => kind = "next" \/ p.error

\* Handler h is at a statement of the request.
Serves(h, kind) ==
    \/ kind = "start" /\ pc[h] \in StartLabels
    \/ kind = "next" /\ pc[h] \in PickLabels \cup DecideLabels \cup AwaitLabels
    \/ kind = "submit" /\ pc[h] \in Submitting \cup ProgressLabels \cup AwaitLabels
    \/ kind = "questionnaire" /\ pc[h] \in {"questStore"} \cup ProgressLabels \cup AwaitLabels
    \/ kind = "final" /\ pc[h] \in FinalLabels

\* The page, its request, and the handler that serves it.
ClientOK ==
    /\ token \in BOOLEAN /\ call \in Calls /\ via \in Handlers \cup {NoHandler}
    /\ PageFits(page) /\ Shows(page) /\ Sends(page, call)
    /\ via # NoHandler =>
           /\ Serves(via, call)
           /\ pc[via] \in DecideLabels => Newest(frame[via].trial)

\* The page submits a trial only when all earlier ones are completed.
FetchOK ==
    \A h \in Handlers : pc[h] = "submitFetch" => 1..(frame[h].trial - 1) \subseteq completed

\* The inductive invariant of the page and the session together.
WebInv == Inductive /\ WaitingOK /\ FetchOK /\ ClientOK

-----------------------------------------------------------------------------
(* The session's side: what a step of a handler does to what the page      *)
(* relies on.                                                              *)

\* Where a step takes a handler.
LEMMA Flow ==
    ASSUME TypeOK, NEW h \in Handlers, Step(h), pc'[h] # "idle"
    PROVE  \/ /\ pc[h] = "idle"
              /\ pc'[h] \in {"startFind", "nextBlocks", "submitFetch", "questStore",
                             "finalPending"}
           \/ pc[h] \in StartLabels /\ pc'[h] \in StartLabels
           \/ pc[h] \in PickLabels /\ pc'[h] \in PickLabels
           \/ pc[h] = "nextPick" /\ pc'[h] \in {"nextFeatures", "awaitRead"}
           \/ pc[h] \in DecideLabels /\ pc'[h] \in DecideLabels /\ frame'[h].trial = frame[h].trial
           \/ pc[h] \in Submitting /\ pc'[h] \in SubmitLabels /\ frame'[h].trial = frame[h].trial
           \/ pc[h] \in {"submitComplete", "questStore"} /\ pc'[h] = "progressRead"
           \/ pc[h] \in ProgressLabels /\ pc'[h] \in ProgressLabels \cup {"awaitRead"}
           \/ pc[h] \in AwaitLabels /\ pc'[h] \in AwaitLabels
           \/ pc[h] \in FinalLabels /\ pc'[h] \in FinalLabels
<1> USE DEF StartLabels, PickLabels, DecideLabels, Submitting, SubmitLabels, ProgressLabels,
        AwaitLabels, FinalLabels
<1>1. CASE Start(h)
  BY <1>1, ReturnMoves, GotoMoves DEF Start, StartRead, StartFind, StartInsert, StartFreeze,
     StartWrite, StartGate
<1>2. CASE NextTrial(h)
  <2>1. frame[h] \in Frames /\ frame \in [Handlers -> Frames]
    BY DEF TypeOK
  <2>2. CASE NextFeatures(h)
    BY <2>1, <2>2, GotoMoves DEF NextFeatures, Frames
  <2>3. CASE ~NextFeatures(h)
    BY <1>2, <2>1, <2>3, ReturnMoves, GotoMoves DEF NextTrial, NextRead, NextBlocks, NextGate,
       NextBlocked, NextPick, NextStore, LogEvent
  <2> QED  BY <2>2, <2>3
<1>3. CASE SubmitTrial(h)
  <2>1. frame[h] \in Frames /\ frame \in [Handlers -> Frames]
    BY DEF TypeOK
  <2>2. CASE SubmitFetch(h)
    BY <2>1, <2>2, ReturnMoves, GotoMoves DEF SubmitFetch, Frames
  <2>3. CASE ~SubmitFetch(h)
    BY <1>3, <2>1, <2>3, ReturnMoves, GotoMoves DEF SubmitTrial, SubmitRead, LogEvent,
       SubmitSummary, SubmitComplete
  <2> QED  BY <2>2, <2>3
<1>4. CASE SubmitQuestionnaire(h) \/ UpdateProgress(h)
  BY <1>4, GotoMoves DEF SubmitQuestionnaire, QuestRead, QuestStore, UpdateProgress,
     ProgressRead, ProgressWrite
<1>5. CASE MarkAwaiting(h)
  BY <1>5, ReturnMoves, GotoMoves DEF MarkAwaiting, AwaitRead, WorkPending, WorkAnswers, AwaitWrite
<1>6. CASE FinalSubmit(h)
  BY <1>6, ReturnMoves, GotoMoves DEF FinalSubmit, FinalRead, WorkPending, WorkAnswers, FinalWrite
<1>7. CASE Crash(h)
  BY <1>7, ReturnMoves DEF Crash
<1> QED  BY <1>1, <1>2, <1>3, <1>4, <1>5, <1>6, <1>7 DEF Step

\* Only the last statement of submit_trial completes a trial.
LEMMA CompletedBy ==
    ASSUME NEW h \in Handlers, Step(h)
    PROVE  \/ completed' = completed
           \/ pc[h] = "submitComplete" /\ completed' = completed \cup {frame[h].trial}
<1>1. CASE Start(h) \/ Crash(h)
  BY <1>1 DEF Start, StartRead, StartFind, StartInsert, StartFreeze, StartWrite, Crash, tables
<1>2. CASE NextTrial(h)
  BY <1>2 DEF NextTrial, NextRead, NextBlocks, NextGate, NextBlocked, NextPick, NextFeatures,
     NextStore, LogEvent, tables
<1>3. CASE SubmitTrial(h)
  BY <1>3 DEF SubmitTrial, SubmitRead, SubmitFetch, LogEvent, SubmitSummary, SubmitComplete, tables
<1>4. CASE SubmitQuestionnaire(h) \/ UpdateProgress(h)
  BY <1>4 DEF SubmitQuestionnaire, QuestRead, QuestStore, UpdateProgress, ProgressRead,
     ProgressWrite, tables
<1>5. CASE MarkAwaiting(h) \/ FinalSubmit(h)
  BY <1>5 DEF MarkAwaiting, AwaitRead, WorkPending, WorkAnswers, AwaitWrite, FinalSubmit,
     FinalRead, FinalWrite, tables
<1> QED  BY <1>1, <1>2, <1>3, <1>4, <1>5 DEF Step

\* The final submit is not withdrawn.
LEMMA FinalStays ==
    ASSUME TypeOK, NEW h \in Handlers, Step(h), row.finalizedAt PROVE row'.finalizedAt
<1> USE DEF TypeOK
<1>1. CASE Start(h) \/ Crash(h)
  BY <1>1 DEF Start, StartRead, StartFind, StartInsert, StartFreeze, StartWrite, Crash, tables
<1>2. CASE NextTrial(h)
  BY <1>2 DEF NextTrial, NextRead, NextBlocks, NextGate, NextBlocked, NextPick, NextFeatures,
     NextStore, LogEvent, tables
<1>3. CASE SubmitTrial(h)
  BY <1>3 DEF SubmitTrial, SubmitRead, SubmitFetch, LogEvent, SubmitSummary, SubmitComplete, tables
<1>4. CASE SubmitQuestionnaire(h) \/ UpdateProgress(h)
  BY <1>4 DEF SubmitQuestionnaire, QuestRead, QuestStore, UpdateProgress, ProgressRead,
     ProgressWrite, tables
<1>5. CASE MarkAwaiting(h) \/ FinalSubmit(h)
  BY <1>5 DEF MarkAwaiting, AwaitRead, WorkPending, WorkAnswers, AwaitWrite, FinalSubmit,
     FinalRead, FinalWrite, tables
<1> QED  BY <1>1, <1>2, <1>3, <1>4, <1>5 DEF Step

\* The newest trial stays the newest unless a later one is submitted.
LEMMA NewestKept ==
    ASSUME Inductive, TypeOK', NEW h \in Handlers, Step(h), Sound(h), NEW t \in Trials, Newest(t),
           pc[h] = "idle" /\ pc'[h] = "submitFetch" => frame'[h].trial <= t
    PROVE  Newest(t)'
<1>1. completed' \subseteq 1..t
  <2>1. CASE completed' = completed
    BY <2>1 DEF Newest
  <2>2. CASE pc[h] = "submitComplete" /\ completed' = completed \cup {frame[h].trial}
    <3>1. frame[h].trial \in Trials /\ frame[h].trial <= t
      BY <2>2 DEF Newest, Submitting, SubmitLabels, Inductive, TypeOK, Frames
    <3> QED  BY <2>2, <3>1 DEF Newest, Trials
  <2> QED  BY <2>1, <2>2, CompletedBy
<1>2. ASSUME NEW g \in Handlers, pc'[g] \in Submitting PROVE frame'[g].trial <= t
  <2>1. CASE g # h
    BY <1>2, <2>1 DEF Newest, Sound, Moves
  <2>2. CASE g = h
    <3>1. CASE pc'[h] = "submitFetch"
      BY <2>2, <3>1, Flow DEF Inductive, StartLabels, PickLabels, DecideLabels, SubmitLabels,
         ProgressLabels, AwaitLabels, FinalLabels
    <3>2. CASE pc'[h] \in SubmitLabels
      <4>1. pc[h] \in Submitting /\ frame'[h].trial = frame[h].trial
        BY <3>2, Flow DEF Inductive, StartLabels, PickLabels, DecideLabels, SubmitLabels,
           ProgressLabels, AwaitLabels, FinalLabels
      <4> QED  BY <4>1, <2>2 DEF Newest
    <3> QED  BY <1>2, <2>2, <3>1, <3>2 DEF Submitting
  <2> QED  BY <2>1, <2>2
<1> QED  BY <1>1, <1>2 DEF Newest

\* What a page says stays so, unless it submits a trial after its own.
LEMMA ShowsKept ==
    ASSUME Inductive, TypeOK', NEW h \in Handlers, Step(h), Sound(h),
           NEW p \in Pages, Shows(p),
           pc[h] = "idle" /\ pc'[h] = "submitFetch" /\ p.trial # NoTrial =>
               frame'[h].trial <= p.trial
    PROVE  Shows(p)'
<1>1. snapshot => snapshot'
  BY DEF Sound, Grows
<1>2. row.finalizedAt => row'.finalizedAt
  BY FinalStays DEF Inductive
<1>3. ASSUME p.trial # NoTrial
      PROVE  /\ Newest(p.trial)'
             /\ decision'[p.trial] # NoDecision
             /\ p.basis = 1..(p.trial - 1)
  <2>1. p.trial \in Trials
    BY <1>3 DEF Pages
  <2>2. Newest(p.trial) /\ decision[p.trial] # NoDecision /\ p.basis = 1..(p.trial - 1)
    BY <1>3 DEF Shows
  <2>3. \A t \in Trials : t = p.trial => Newest(t)'
    BY <1>3, <2>2, NewestKept
  <2>4. Newest(p.trial)'
    BY <2>1, <2>3
  <2> QED  BY <2>1, <2>2, <2>4 DEF Sound, Grows
<1> QED  BY <1>1, <1>2, <1>3 DEF Shows

\* Nothing happens to the session.
LEMMA ShowsQuiet ==
    ASSUME UNCHANGED vars, NEW p, Shows(p) PROVE Shows(p)'
BY DEF Shows, Newest, vars

\* A submission starts behind completed trials, and these stay completed.
LEMMA FetchKept ==
    ASSUME Inductive, FetchOK, TypeOK', NEW h \in Handlers, Step(h), Sound(h),
           pc[h] = "idle" /\ pc'[h] = "submitFetch" =>
               1..(frame'[h].trial - 1) \subseteq completed
    PROVE  FetchOK'
<1> SUFFICES ASSUME NEW g \in Handlers, pc'[g] = "submitFetch"
             PROVE  1..(frame'[g].trial - 1) \subseteq completed'
  BY DEF FetchOK
<1>1. CASE g # h
  BY <1>1 DEF FetchOK, Sound, Moves, Grows
<1>2. CASE g = h
  <2>1. pc[h] = "idle"
    BY <1>2, Flow DEF Inductive, StartLabels, PickLabels, DecideLabels, SubmitLabels,
       ProgressLabels, AwaitLabels, FinalLabels
  <2> QED  BY <1>2, <2>1 DEF Sound, Grows
<1> QED  BY <1>1, <1>2

\* Every submission is behind completed trials.
LEMMA SubmittedPrefix ==
    ASSUME Inductive, FetchOK, NEW h \in Handlers, pc[h] \in Submitting
    PROVE  frame[h].trial \in Trials /\ 1..(frame[h].trial - 1) \subseteq completed
<1>1. frame[h].trial \in Trials
  BY DEF Inductive, TypeOK, Frames
<1>2. CASE pc[h] = "submitFetch"
  BY <1>1, <1>2 DEF FetchOK
<1>3. CASE pc[h] \in SubmitLabels
  <2>1. decision[frame[h].trial] # NoDecision
    BY <1>3 DEF Inductive, HandlerOK
  <2> QED  BY <1>1, <2>1 DEF Inductive, StoredOK, ServedInOrder
<1> QED  BY <1>1, <1>2, <1>3 DEF Submitting

\* The first pending trial is the newest: a later one has it behind itself.
LEMMA FirstPendingIsNewest ==
    ASSUME Inductive, FetchOK, NEW t \in Trials, t \notin completed PROVE Newest(t)
<1>1. \A u \in Trials : 1..(u - 1) \subseteq completed => u <= t
  <2> SUFFICES ASSUME NEW u \in Trials, 1..(u - 1) \subseteq completed, ~(u <= t) PROVE FALSE
    OBVIOUS
  <2>1. NTrials \in Nat /\ t \in 1..NTrials /\ u \in 1..NTrials
    BY PlanAssumption DEF Trials
  <2>2. t \in 1..(u - 1)
    BY <2>1
  <2> QED  BY <2>2
<1>2. completed \subseteq 1..t
  <2> SUFFICES ASSUME NEW u \in completed PROVE u \in 1..t
    OBVIOUS
  <2>1. u \in Trials /\ 1..(u - 1) \subseteq completed
    BY DEF Inductive, TypeOK, StoredOK
  <2>2. u <= t
    BY <1>1, <2>1
  <2> QED  BY <2>1, <2>2, PlanAssumption DEF Trials
<1>3. \A h \in Handlers : pc[h] \in Submitting => frame[h].trial <= t
  BY <1>1, SubmittedPrefix
<1> QED  BY <1>2, <1>3 DEF Newest

\* A decision for the newest trial counts exactly the trials before it.
LEMMA NewestBasis ==
    ASSUME NEW t \in Trials, NEW basis, CountsTo(t, basis), completed \subseteq 1..t
    PROVE  basis = 1..(t - 1)
<1>1. \A u \in basis : u \in 1..t /\ u # t
  BY DEF CountsTo
<1>2. t \in Nat
  BY PlanAssumption DEF Trials
<1>3. \A u \in basis : u \in 1..(t - 1)
  BY <1>1, <1>2
<1> QED  BY <1>3 DEF CountsTo

-----------------------------------------------------------------------------
(* The page's side: what each way to end a request leaves on the page.     *)

\* A block whose trials are all completed belongs to a started session.
LEMMA FullBlockStarted == ASSUME Inductive, NEW b \in FullBlocks PROVE snapshot
<1>1. PICK t \in Trials : BlockOf[t] = b
  BY DEF FullBlocks, MainBlocks
<1>2. t \in completed
  BY <1>1 DEF FullBlocks
<1> QED  BY <1>2 DEF Inductive, StoredOK, EvidenceBeforeCompletion

\* The chain of requests is over and leaves page p.
LEMMA AfterSettle ==
    ASSUME NEW p, Settle(p), PageFits(p), Shows(p)', Sends(p, "none"), token' \in BOOLEAN
    PROVE  ClientOK'
BY DEF ClientOK, Settle, Shows, Newest, Calls, Sends, PageFits

\* The page sends its next request.
LEMMA AfterAsk ==
    ASSUME NEW p, page' = p, PageFits(p), Shows(p)', NEW kind \in Calls, Sends(p, kind),
           Ask(kind), token' \in BOOLEAN
    PROVE  ClientOK'
BY DEF ClientOK, Ask, Shows, Newest, Calls, Sends, PageFits

\* The page shows an error and what it showed before.
LEMMA AfterFail ==
    ASSUME ClientOK, NEW p, p = page, Shows(p)', Fail PROVE ClientOK'
<1>1. PICK q : q = [page EXCEPT !.error = TRUE]
  OBVIOUS
<1>2. p \in Pages /\ PageFits(p)
  BY DEF ClientOK, PageFits
<1>3. /\ q \in Pages /\ q.stage = p.stage /\ q.trial = p.trial /\ q.basis = p.basis
      /\ q.known = p.known /\ q.block = p.block /\ q.error
  BY <1>1, <1>2 DEF Pages
<1>4. PageFits(q) /\ Sends(q, "none")
  BY <1>2, <1>3 DEF PageFits, Sends
<1>5. Shows(q)'
  BY <1>3 DEF Shows, Newest
<1>6. Settle(q) /\ token' \in BOOLEAN
  BY <1>1 DEF Fail, ClientOK
<1> QED  BY <1>4, <1>5, <1>6, AfterSettle

\* The page shows trial t with a decision that counts the trials before it.
LEMMA AfterTrial ==
    ASSUME ClientOK, page.known, NEW t \in Trials, NEW basis, basis = 1..(t - 1),
           Newest(t)', decision'[t] # NoDecision, ShowTrial(t, basis)
    PROVE  ClientOK'
<1>1. PICK q : q = [page EXCEPT !.stage = "trial", !.trial = t, !.basis = basis,
                                !.block = NoBlock]
  OBVIOUS
<1>2. page \in Pages /\ page.known \in BOOLEAN
  BY DEF ClientOK, PageFits, Pages
<1>3. basis \in Decisions
  BY PlanAssumption DEF Decisions, Trials
<1>4. /\ q \in Pages /\ q.stage = "trial" /\ q.trial = t /\ q.basis = basis /\ q.known
  BY <1>1, <1>2, <1>3 DEF Pages, PageStages
<1>5. t # NoTrial
  BY DEF Trials, NoTrial
<1>6. PageFits(q) /\ Sends(q, "none")
  BY <1>4, <1>5 DEF PageFits, Sends
<1>7. Shows(q)'
  BY <1>4 DEF Shows, Newest
<1>8. Settle(q) /\ token' \in BOOLEAN
  BY <1>1 DEF ShowTrial, ClientOK
<1> QED  BY <1>6, <1>7, <1>8, AfterSettle

\* The page shows the questionnaire of block b.
LEMMA AfterQuestionnaire ==
    ASSUME ClientOK, page.known, NEW b \in MainBlocks, snapshot', ShowQuestionnaire(b)
    PROVE  ClientOK'
<1>1. PICK q : q = [page EXCEPT !.stage = "questionnaire", !.trial = NoTrial, !.block = b]
  OBVIOUS
<1>2. page \in Pages
  BY DEF ClientOK, PageFits
<1>3. /\ q \in Pages /\ q.stage = "questionnaire" /\ q.trial = NoTrial /\ q.block = b /\ q.known
  BY <1>1, <1>2 DEF Pages, PageStages
<1>4. b # NoBlock
  BY DEF MainBlocks, Practice, NoBlock
<1>5. PageFits(q) /\ Sends(q, "none")
  BY <1>3, <1>4 DEF PageFits, Sends
<1>6. Shows(q)'
  BY <1>3 DEF Shows
<1>7. Settle(q) /\ token' \in BOOLEAN
  BY <1>1 DEF ShowQuestionnaire, ClientOK
<1> QED  BY <1>5, <1>6, <1>7, AfterSettle

\* The page waits for the final submit.
LEMMA AfterAwaiting ==
    ASSUME ClientOK, page.known, snapshot', ShowAwaiting PROVE ClientOK'
<1>1. PICK q : q = [page EXCEPT !.stage = "awaiting_final_submit", !.trial = NoTrial]
  OBVIOUS
<1>2. page \in Pages
  BY DEF ClientOK, PageFits
<1>3. q \in Pages /\ q.stage = "awaiting_final_submit" /\ q.trial = NoTrial /\ q.known
  BY <1>1, <1>2 DEF Pages, PageStages
<1>4. PageFits(q) /\ Sends(q, "none")
  BY <1>3 DEF PageFits, Sends
<1>5. Shows(q)'
  BY <1>3 DEF Shows
<1>6. Settle(q) /\ token' \in BOOLEAN
  BY <1>1 DEF ShowAwaiting, ClientOK
<1> QED  BY <1>4, <1>5, <1>6, AfterSettle

\* The completion page.
LEMMA AfterCompletion ==
    ASSUME ClientOK, row'.finalizedAt, ShowCompletion, token' \in BOOLEAN PROVE ClientOK'
<1>1. PICK q : q = [page EXCEPT !.stage = "completion", !.trial = NoTrial, !.block = NoBlock]
  OBVIOUS
<1>2. page \in Pages
  BY DEF ClientOK, PageFits
<1>3. q \in Pages /\ q.stage = "completion" /\ q.trial = NoTrial
  BY <1>1, <1>2 DEF Pages, PageStages
<1>4. PageFits(q) /\ Sends(q, "none")
  BY <1>3 DEF PageFits, Sends
<1>5. Shows(q)'
  BY <1>3 DEF Shows
<1>6. Settle(q)
  BY <1>1 DEF ShowCompletion
<1> QED  BY <1>4, <1>5, <1>6, AfterSettle

\* The answer to next-trial only carries the status of the row.
LEMMA AfterStatus ==
    ASSUME ClientOK, page.known, NEW p, p = page, Shows(p)', StoredOK', WaitingOK',
           NEW status, status = row'.status, ShowStatus(status)
    PROVE  ClientOK'
<1>1. CASE status = "awaiting_final_submit"
  <2>1. snapshot' /\ ShowAwaiting
    BY <1>1 DEF WaitingOK, SubmittedMeansDone, AllWorkDone, ShowStatus
  <2> QED  BY <2>1, AfterAwaiting
<1>2. CASE status = "finalized"
  <2>1. row'.finalizedAt /\ ShowCompletion /\ token' \in BOOLEAN
    BY <1>2 DEF StoredOK, ShowStatus, ClientOK
  <2> QED  BY <2>1, AfterCompletion
<1>3. CASE status \notin {"awaiting_final_submit", "finalized"}
  <2>1. Fail
    BY <1>3 DEF ShowStatus
  <2> QED  BY <2>1, AfterFail
<1> QED  BY <1>1, <1>2, <1>3

\* The page is loaded again.
LEMMA AfterLoad ==
    ASSUME NEW stage \in {"entry", "resume_prompt"}, NEW run \in BOOLEAN,
           Settle(Blank(stage, run)), token' \in BOOLEAN
    PROVE  ClientOK'
<1>1. PICK q : q = Blank(stage, run)
  OBVIOUS
<1>2. /\ q \in Pages /\ q.stage = stage /\ q.trial = NoTrial
  BY <1>1 DEF Pages, PageStages, Blank, Decisions
<1>3. PageFits(q) /\ Sends(q, "none")
  BY <1>2 DEF PageFits, Sends
<1>4. Shows(q)'
  BY <1>2 DEF Shows
<1> QED  BY <1>1, <1>3, <1>4, AfterSettle

-----------------------------------------------------------------------------
(* The page moves alone.                                                   *)

\* The session's part of the invariant holds while the session rests.
LEMMA Resting ==
    ASSUME WebInv, UNCHANGED vars
    PROVE  Inductive' /\ WaitingOK' /\ FetchOK'
<1>1. Inductive'
  BY StutterInductive DEF WebInv
<1>2. WaitingOK'
  BY WaitingStutter DEF WebInv, Inductive, vars, tables
<1>3. FetchOK'
  BY DEF WebInv, FetchOK, vars
<1> QED  BY <1>1, <1>2, <1>3

\* The page rests, too.
LEMMA ClientRests == ASSUME ClientOK, UNCHANGED webVars PROVE ClientOK'
BY DEF ClientOK, webVars, client, vars, PageFits, Shows, Sends, Serves, Newest

\* A button that is offered leads to a request that its page may send.
LEMMA ButtonStep == ASSUME WebInv, Advance \/ Retry PROVE ClientOK'
<1>1. PICK p : p = page
  OBVIOUS
<1>2. p \in Pages /\ PageFits(p) /\ Shows(p)
  BY <1>1 DEF WebInv, ClientOK, PageFits
<1>3. PICK kind \in Calls :
          /\ Press(kind)
          /\ \/ kind = "enter" /\ p.stage = "entry"
             \/ kind = "resume" /\ p.stage = "resume_prompt"
             \/ kind = "submit" /\ p.stage = "trial"
             \/ kind = "questionnaire" /\ p.stage = "questionnaire" /\ p.block # NoBlock
             \/ kind = "final" /\ p.stage = "awaiting_final_submit"
             \/ kind = "next" /\ p.known
  BY <1>1 DEF Advance, Begin, Continue, SubmitAnswer, SubmitRatings, SubmitSession, Retry, Calls
<1>4. PICK q : q = [page EXCEPT !.error = FALSE]
  OBVIOUS
<1>5. /\ q \in Pages /\ q.stage = p.stage /\ q.trial = p.trial /\ q.basis = p.basis
      /\ q.known = p.known /\ q.block = p.block
  BY <1>1, <1>2, <1>4 DEF Pages
<1>6. PageFits(q) /\ Sends(q, kind)
  BY <1>2, <1>3, <1>5 DEF PageFits, Sends
<1>7. Shows(q)'
  <2>1. Shows(q)
    BY <1>2, <1>5 DEF Shows
  <2> QED  BY <1>3, <2>1, ShowsQuiet DEF Press
<1>8. page' = q /\ Ask(kind) /\ token' \in BOOLEAN
  BY <1>3, <1>4 DEF Press, WebInv, ClientOK
<1> QED  BY <1>6, <1>7, <1>8, AfterAsk

\* A request that is answered from one read of the row.
LEMMA RefusedStep == ASSUME WebInv, Refused PROVE ClientOK'
<1>1. PICK p : p = page
  OBVIOUS
<1>2. UNCHANGED vars /\ ClientOK
  BY DEF Refused, WebInv
<1>3. Shows(p)'
  BY <1>1, <1>2, ShowsQuiet DEF ClientOK
<1>4. StoredOK' /\ WaitingOK'
  BY <1>2, Resting DEF Inductive
<1>5. CASE call = "next" /\ ShowStatus(row.status)
  <2>1. PICK status : status = row.status
    OBVIOUS
  <2>2. ShowStatus(status) /\ status = row'.status
    BY <1>2, <1>5, <2>1 DEF vars
  <2>3. page.known
    BY <1>2, <1>5 DEF ClientOK, Sends
  <2> QED  BY <1>1, <1>2, <1>3, <1>4, <2>2, <2>3, AfterStatus
<1>6. CASE Fail
  BY <1>1, <1>2, <1>3, <1>6, AfterFail
<1>7. CASE row.status = "finalized" /\ ShowCompletion /\ token' = FALSE
  <2>1. row'.finalizedAt
    BY <1>2, <1>4, <1>7 DEF StoredOK, vars
  <2> QED  BY <1>2, <1>7, <2>1, AfterCompletion
<1> QED  BY <1>5, <1>6, <1>7 DEF Refused

\* The participant begins again with the saved token.
LEMMA EnterStep == ASSUME WebInv, Enter PROVE ClientOK'
<1>1. PICK p : p = page
  OBVIOUS
<1>2. UNCHANGED vars /\ ClientOK /\ p \in Pages /\ PageFits(p) /\ p.stage = "entry"
  BY <1>1 DEF Enter, WebInv, ClientOK, PageFits, Sends
<1>3. Shows(p) /\ Shows(p)'
  BY <1>1, <1>2, ShowsQuiet DEF ClientOK
<1>4. CASE Settle(page) /\ token' = FALSE
  <2>1. Sends(p, "none")
    BY <1>2 DEF Sends
  <2>2. Settle(p)
    BY <1>1, <1>4
  <2> QED  BY <1>2, <1>3, <1>4, <2>1, <2>2, AfterSettle
<1>5. CASE page' = [page EXCEPT !.known = TRUE] /\ Ask("start") /\ UNCHANGED token
  <2>1. PICK q : q = [page EXCEPT !.known = TRUE]
    OBVIOUS
  <2>2. /\ q \in Pages /\ q.stage = p.stage /\ q.trial = p.trial /\ q.known
    BY <1>1, <1>2, <2>1 DEF Pages
  <2>3. PageFits(q) /\ Sends(q, "start") /\ Shows(q)'
    BY <1>2, <2>2 DEF PageFits, Sends, Shows
  <2>4. page' = q /\ token' \in BOOLEAN
    BY <1>2, <1>5, <2>1 DEF ClientOK
  <2> QED  BY <1>5, <2>3, <2>4, AfterAsk DEF Calls
<1> QED  BY <1>4, <1>5 DEF Enter

\* The participant continues after a reload.
LEMMA ResumeStep == ASSUME WebInv, Resume PROVE ClientOK'
<1>1. PICK p : p = page
  OBVIOUS
<1>2. UNCHANGED vars /\ ClientOK /\ p \in Pages /\ PageFits(p) /\ p.stage = "resume_prompt"
  BY <1>1 DEF Resume, WebInv, ClientOK, PageFits, Sends
<1>3. CASE Settle([page EXCEPT !.stage = "entry"])
  <2>1. PICK q : q = [page EXCEPT !.stage = "entry"]
    OBVIOUS
  <2>2. q \in Pages /\ q.stage = "entry" /\ q.trial = p.trial
    BY <1>1, <1>2, <2>1 DEF Pages, PageStages
  <2>3. PageFits(q) /\ Sends(q, "none") /\ Shows(q)'
    BY <1>2, <2>2 DEF PageFits, Sends, Shows
  <2>4. Settle(q) /\ token' \in BOOLEAN
    BY <1>2, <1>3, <2>1 DEF ClientOK, Resume
  <2> QED  BY <2>3, <2>4, AfterSettle
<1>4. CASE page' = [page EXCEPT !.known = TRUE] /\ Ask("progress")
  <2>1. PICK q : q = [page EXCEPT !.known = TRUE]
    OBVIOUS
  <2>2. q \in Pages /\ q.stage = p.stage /\ q.trial = p.trial /\ q.known
    BY <1>1, <1>2, <2>1 DEF Pages
  <2>3. PageFits(q) /\ Sends(q, "progress") /\ Shows(q)'
    BY <1>2, <2>2 DEF PageFits, Sends, Shows
  <2>4. page' = q /\ token' \in BOOLEAN
    BY <1>2, <1>4, <2>1 DEF ClientOK, Resume
  <2> QED  BY <1>4, <2>3, <2>4, AfterAsk DEF Calls
<1> QED  BY <1>3, <1>4 DEF Resume

\* The page of the stored stage: each stage of the row keeps its promise.
LEMMA ProgressStep == ASSUME WebInv, Progress PROVE ClientOK'
<1>1. PICK p : p = page
  OBVIOUS
<1>2. /\ UNCHANGED vars /\ ClientOK /\ p \in Pages /\ PageFits(p)
      /\ p.stage = "resume_prompt" /\ page.known
  BY <1>1 DEF Progress, WebInv, ClientOK, PageFits, Sends
<1>3. Inductive' /\ WaitingOK'
  BY <1>2, Resting
<1>4. Inductive /\ WaitingOK
  BY DEF WebInv
<1>5. CASE ResumedStage = "completion"
  <2>1. row'.finalizedAt
    BY <1>2, <1>4, <1>5 DEF ResumedStage, Inductive, StoredOK, vars
  <2>2. ShowCompletion /\ token' \in BOOLEAN
    BY <1>2, <1>5 DEF Progress, ClientOK
  <2> QED  BY <1>2, <2>1, <2>2, AfterCompletion
<1>6. CASE ResumedStage = "awaiting_final_submit"
  <2>1. snapshot'
    BY <1>2, <1>4, <1>6 DEF ResumedStage, WaitingOK, SubmittedMeansDone, AllWorkDone, vars
  <2>2. ShowAwaiting
    BY <1>6 DEF Progress
  <2> QED  BY <1>2, <2>1, <2>2, AfterAwaiting
<1>7. CASE ResumedStage = "questionnaire"
  <2>1. PICK b : b = row.block
    OBVIOUS
  <2>2. b \in FullBlocks /\ b \in MainBlocks
    BY <1>4, <1>7, <2>1 DEF ResumedStage, Inductive, StoredOK, ProgressNotAhead, FullBlocks
  <2>3. snapshot'
    BY <1>2, <1>4, <2>2, FullBlockStarted DEF vars
  <2>4. ShowQuestionnaire(b)
    BY <1>7, <2>1 DEF Progress
  <2> QED  BY <1>2, <2>2, <2>3, <2>4, AfterQuestionnaire
<1>8. CASE ResumedStage = "trial"
  <2>1. Ask("start") /\ page' = p /\ token' \in BOOLEAN
    BY <1>1, <1>2, <1>8 DEF Progress, ClientOK
  <2>2. Sends(p, "start") /\ Shows(p)'
    BY <1>1, <1>2 DEF Sends, Shows, PageFits
  <2> QED  BY <1>2, <2>1, <2>2, AfterAsk DEF Calls
<1> QED  BY <1>5, <1>6, <1>7, <1>8 DEF ResumedStage

\* A lost request or answer, a reload, and the way back to the entry page.
LEMMA LostStep == ASSUME WebInv, Lose \/ Reload \/ Refresh \/ Restart PROVE ClientOK'
<1>1. PICK p : p = page
  OBVIOUS
<1>2. UNCHANGED vars /\ ClientOK /\ p \in Pages /\ PageFits(p)
  BY <1>1 DEF Lose, Reload, Refresh, Restart, WebInv, ClientOK, PageFits
<1>3. CASE Lose
  <2>1. Shows(p)'
    BY <1>1, <1>2, ShowsQuiet DEF ClientOK
  <2> QED  BY <1>1, <1>2, <1>3, <2>1, AfterFail DEF Lose
<1>4. CASE Reload \/ Refresh
  BY <1>2, <1>4, AfterLoad DEF Reload, Refresh, Loaded, ClientOK
<1>5. CASE Restart
  <2>1. PICK q : q = [page EXCEPT !.stage = "entry"]
    OBVIOUS
  <2>2. q \in Pages /\ q.stage = "entry" /\ q.trial = p.trial
    BY <1>1, <1>2, <2>1 DEF Pages, PageStages
  <2>3. PageFits(q) /\ Sends(q, "none") /\ Shows(q)'
    BY <1>1, <1>2, <1>5, <2>2 DEF PageFits, Sends, Shows, Restart
  <2>4. via = NoHandler
    BY <1>2, <1>5 DEF Restart, ClientOK, Serves
  <2>5. Settle(q) /\ token' \in BOOLEAN
    BY <1>2, <1>5, <2>1, <2>4 DEF Restart, Settle, ClientOK
  <2> QED  BY <2>3, <2>5, AfterSettle
<1> QED  BY <1>3, <1>4, <1>5

-----------------------------------------------------------------------------
(* A handler moves, and the page perhaps with it.                          *)

\* A step of a handler that does not die.
Runs(h) ==
    \/ Start(h) \/ NextTrial(h) \/ SubmitTrial(h) \/ SubmitQuestionnaire(h)
    \/ UpdateProgress(h) \/ MarkAwaiting(h) \/ FinalSubmit(h)

\* next_trial picks a pending trial.
LEMMA PickedIsPending ==
    ASSUME TypeOK, NEW h \in Handlers, Step(h), pc[h] = "nextPick", pc'[h] = "nextFeatures"
    PROVE  frame'[h].trial \in Trials \ completed
<1>1. NextPick(h)
  BY ReturnMoves DEF Step, Start, StartRead, StartFind, StartInsert, StartFreeze, StartWrite,
     NextTrial, NextRead, NextBlocks, NextGate, NextBlocked, NextFeatures, NextStore, LogEvent,
     SubmitTrial, SubmitRead, SubmitFetch, SubmitSummary, SubmitComplete, SubmitQuestionnaire,
     QuestRead, QuestStore, UpdateProgress, ProgressRead, ProgressWrite, MarkAwaiting,
     AwaitRead, WorkPending, WorkAnswers, AwaitWrite, FinalSubmit, FinalRead, FinalWrite, Crash
<1>2. PICK pending : pending = Trials \ completed
  OBVIOUS
<1>3. pending # {} /\ frame' = [frame EXCEPT ![h].trial = Min(pending)]
  BY <1>1, <1>2, ReturnMoves, GotoMoves DEF NextPick
<1>4. Min(pending) \in pending
  BY <1>2, <1>3, MinTrial
<1> QED  BY <1>2, <1>3, <1>4 DEF TypeOK, Frames

\* What every step of a handler at work keeps.
LEMMA Working ==
    ASSUME WebInv, NEW h \in Handlers, Step(h), pc[h] # "idle"
    PROVE  /\ TypeOK' /\ Sound(h)
           /\ Inductive' /\ WaitingOK' /\ FetchOK'
           /\ \A p \in Pages : Shows(p) => Shows(p)'
           /\ \A t \in Trials : Newest(t) => Newest(t)'
<1>1. Inductive /\ WaitingOK /\ FetchOK
  BY DEF WebInv
<1>2. TypeOK' /\ Sound(h) /\ Inductive'
  BY <1>1, StepSound, StepInductive
<1>3. Patient(h)
  BY DEF Patient, QuestRead, FinalRead
<1>4. WaitingOK'
  BY <1>1, <1>2, <1>3, WaitingStep
<1>5. FetchOK'
  BY <1>1, <1>2, FetchKept
<1>6. \A p \in Pages : Shows(p) => Shows(p)'
  BY <1>1, <1>2, ShowsKept
<1>7. \A t \in Trials : Newest(t) => Newest(t)'
  BY <1>1, <1>2, NewestKept
<1> QED  BY <1>2, <1>4, <1>5, <1>6, <1>7

\* The page goes on waiting for its handler while any handler moves.
LEMMA WaitOn ==
    ASSUME WebInv, NEW h \in Handlers, Step(h), pc[h] # "idle",
           via = h => pc'[h] # "idle", UNCHANGED <<page, token, call, via>>
    PROVE  ClientOK'
<1>1. PICK p : p = page
  OBVIOUS
<1>2. ClientOK /\ p \in Pages /\ Inductive /\ FetchOK
  BY <1>1 DEF WebInv, ClientOK, PageFits
<1>3. Shows(p)'
  BY <1>1, <1>2, Working DEF ClientOK
<1>4. ASSUME NEW g \in Handlers, g = via
      PROVE  Serves(g, call)' /\ (pc'[g] \in DecideLabels => Newest(frame[g].trial)')
  <2>1. Serves(g, call) /\ (pc[g] \in DecideLabels => Newest(frame[g].trial))
    BY <1>2, <1>4, WebAssumption DEF ClientOK
  <2>2. PICK t \in Trials : t = frame'[g].trial
    BY Working DEF TypeOK, Frames
  <2>3. CASE g # h
    <3>1. pc'[g] = pc[g] /\ frame'[g] = frame[g]
      BY <2>3, Working DEF Sound, Moves
    <3>2. Serves(g, call)'
      BY <2>1, <3>1 DEF Serves
    <3>3. pc'[g] \in DecideLabels => Newest(t)'
      BY <2>1, <2>2, <3>1, Working
    <3> QED  BY <2>2, <3>2, <3>3 DEF Newest
  <2>4. CASE g = h
    <3>1. pc'[h] # "idle"
      BY <1>4, <2>4
    <3>2. Serves(g, call)'
      BY <1>2, <2>1, <2>4, <3>1, Flow DEF Inductive, Serves, StartLabels, PickLabels,
         DecideLabels, Submitting, SubmitLabels, ProgressLabels, AwaitLabels, FinalLabels
    <3>3. CASE pc[h] \in DecideLabels /\ frame'[h].trial = frame[h].trial
      <4>1. Newest(t)'
        BY <2>1, <2>2, <2>4, <3>3, Working
      <4> QED  BY <2>2, <3>2, <4>1 DEF Newest
    <3>4. CASE pc[h] = "nextPick" /\ pc'[h] = "nextFeatures"
      <4>1. t \notin completed
        BY <1>2, <2>2, <2>4, <3>4, PickedIsPending DEF Inductive
      <4>2. Newest(t)'
        BY <1>2, <4>1, FirstPendingIsNewest, Working
      <4> QED  BY <2>2, <3>2, <4>2 DEF Newest
    <3>5. CASE pc'[h] \notin DecideLabels
      BY <2>4, <3>2, <3>5
    <3> QED
      BY <1>2, <3>1, <3>3, <3>4, <3>5, Flow DEF Inductive, StartLabels, PickLabels,
         DecideLabels, Submitting, SubmitLabels, ProgressLabels, AwaitLabels, FinalLabels
  <2> QED  BY <2>3, <2>4
<1> QED  BY <1>1, <1>2, <1>3, <1>4 DEF ClientOK, PageFits, Shows, Sends, Serves, Newest

\* next_trial answers after its integrity check, its gate, its pick or its
\* last event, and the other statements of it go on.
LEMMA NextEnds ==
    ASSUME TypeOK, NEW h \in Handlers, Runs(h), pc[h] \in PickLabels \cup DecideLabels,
           pc'[h] = "idle"
    PROVE  pc[h] \in {"nextBlocks", "nextBlocked", "nextPick", "nextLogAssistance"}
<1>1. NextTrial(h)
  BY DEF Runs, PickLabels, DecideLabels, Start, StartRead, StartFind, StartInsert, StartFreeze,
     StartWrite, LogEvent, SubmitTrial, SubmitRead, SubmitFetch, SubmitSummary, SubmitComplete,
     SubmitQuestionnaire, QuestRead, QuestStore, UpdateProgress, ProgressRead, ProgressWrite,
     MarkAwaiting, AwaitRead, WorkPending, WorkAnswers, AwaitWrite, FinalSubmit, FinalRead,
     FinalWrite
<1>2. ~NextRead(h)
  BY DEF NextRead, PickLabels, DecideLabels
<1>3. ~NextGate(h)
  BY GotoMoves DEF NextGate
<1>4. ~NextFeatures(h) /\ ~NextStore(h)
  BY GotoMoves DEF NextFeatures, NextStore
<1>5. ~LogEvent(h, "nextLogStarted", "trial_started", "nextLogAssistance")
  BY GotoMoves DEF LogEvent
<1> QED
  BY <1>1, <1>2, <1>3, <1>4, <1>5 DEF NextTrial, NextBlocks, NextBlocked, NextPick, LogEvent

\* The pick answers with a stored decision, or goes on.
LEMMA PickEnds ==
    ASSUME TypeOK, NEW h \in Handlers, Runs(h), pc[h] = "nextPick", pc'[h] = "idle"
    PROVE  Trials \ completed # {} /\ decision[Min(Trials \ completed)] # NoDecision
<1>1. NextPick(h)
  BY DEF Runs, Start, StartRead, StartFind, StartInsert, StartFreeze, StartWrite,
     NextTrial, NextRead, NextBlocks, NextGate, NextBlocked, NextFeatures, NextStore, LogEvent,
     SubmitTrial, SubmitRead, SubmitFetch, SubmitSummary, SubmitComplete, SubmitQuestionnaire,
     QuestRead, QuestStore, UpdateProgress, ProgressRead, ProgressWrite, MarkAwaiting,
     AwaitRead, WorkPending, WorkAnswers, AwaitWrite, FinalSubmit, FinalRead, FinalWrite
<1> QED  BY <1>1, GotoMoves DEF NextPick

\* The last statement of final_submit finalizes.
LEMMA FinalEnds ==
    ASSUME TypeOK, NEW h \in Handlers, Runs(h), pc[h] = "finalWrite" PROVE row'.finalizedAt
<1>1. FinalWrite(h)
  BY DEF Runs, Start, StartRead, StartFind, StartInsert, StartFreeze, StartWrite,
     NextTrial, NextRead, NextBlocks, NextGate, NextBlocked, NextPick, NextFeatures, NextStore,
     LogEvent, SubmitTrial, SubmitRead, SubmitFetch, SubmitSummary, SubmitComplete,
     SubmitQuestionnaire, QuestRead, QuestStore, UpdateProgress, ProgressRead, ProgressWrite,
     MarkAwaiting, AwaitRead, WorkPending, WorkAnswers, AwaitWrite, FinalSubmit, FinalRead
<1> QED  BY <1>1 DEF FinalWrite, TypeOK

\* start_session answers.
LEMMA StartAnswered ==
    ASSUME WebInv, NEW p, p = page, Shows(p)', NEW h \in Handlers, call = "start", Answer(h)
    PROVE  ClientOK'
<1>1. ClientOK /\ PageFits(p) /\ p.stage \in {"entry", "resume_prompt"} /\ p.known
  BY DEF WebInv, ClientOK, Sends
<1>2. CASE pc[h] = "startInsert"
  <2>1. Fail
    BY <1>2 DEF Answer
  <2> QED  BY <1>1, <2>1, AfterFail
<1>3. CASE pc[h] # "startInsert"
  <2>1. Ask("next")
    BY <1>3 DEF Answer
  <2>2. page' = p
    BY <1>3 DEF Answer
  <2>3. token' = token
    BY <1>3 DEF Answer
  <2>4. Sends(p, "next") /\ token' \in BOOLEAN
    BY <1>1, <2>3 DEF Sends, ClientOK
  <2> QED  BY <1>1, <2>1, <2>2, <2>4, AfterAsk DEF Calls
<1> QED  BY <1>2, <1>3

\* next_trial answers: with the trial the page will show, a questionnaire
\* that is due, or the status of the row.
LEMMA NextAnswered ==
    ASSUME WebInv, NEW p, p = page, Shows(p)', NEW h \in Handlers, Runs(h), via = h,
           pc[h] # "idle", pc'[h] = "idle", call = "next", Answer(h)
    PROVE  ClientOK'
<1>1. /\ ClientOK /\ page.known /\ Inductive /\ FetchOK
      /\ pc[h] \in PickLabels \cup DecideLabels \cup AwaitLabels
      /\ pc[h] \in DecideLabels => Newest(frame[h].trial)
  BY WebAssumption DEF WebInv, ClientOK, Sends, Serves
<1>2. /\ Sound(h) /\ Inductive' /\ WaitingOK'
      /\ \A t \in Trials : Newest(t) => Newest(t)'
  BY Working DEF Runs, Step
<1>3. CASE pc[h] = "nextBlocks"
  BY <1>1, <1>3, AfterFail DEF Answer
<1>4. CASE pc[h] = "nextBlocked"
  <2>1. PICK b : b = frame[h].block
    OBVIOUS
  <2>2. b \in FullBlocks /\ b \in MainBlocks
    BY <1>1, <1>4, <2>1 DEF Inductive, HandlerOK, FullBlocks
  <2>3. snapshot'
    BY <1>1, <1>2, <2>2, FullBlockStarted DEF Sound, Grows
  <2>4. ShowQuestionnaire(b)
    BY <1>4, <2>1 DEF Answer
  <2> QED  BY <1>1, <2>2, <2>3, <2>4, AfterQuestionnaire
<1>5. CASE pc[h] = "nextPick"
  <2>1. PICK t : t = Min(Trials \ completed)
    OBVIOUS
  <2>2. PICK basis : basis = decision[t]
    OBVIOUS
  <2>3. Trials \ completed # {} /\ basis # NoDecision
    BY <1>1, <1>5, <2>1, <2>2, PickEnds DEF Inductive
  <2>4. t \in Trials \ completed
    <3>1. \A S \in SUBSET Trials : S # {} => Min(S) \in S
      BY MinTrial
    <3> QED  BY <2>1, <2>3, <3>1
  <2>5. Newest(t) /\ Newest(t)'
    BY <1>1, <1>2, <2>4, FirstPendingIsNewest
  <2>6. basis = 1..(t - 1)
    <3>1. CountsTo(t, basis)
      BY <1>1, <2>2, <2>3, <2>4 DEF Inductive, StoredOK
    <3> QED  BY <2>4, <2>5, <3>1, NewestBasis DEF Newest
  <2>7. decision'[t] # NoDecision
    BY <1>2, <2>2, <2>3, <2>4 DEF Sound, Grows
  <2>8. ShowTrial(t, basis)
    BY <1>5, <2>1, <2>2 DEF Answer
  <2> QED  BY <1>1, <2>4, <2>5, <2>6, <2>7, <2>8, AfterTrial
<1>6. CASE pc[h] = "nextLogAssistance"
  <2>1. PICK t \in Trials : t = frame[h].trial
    BY <1>1 DEF Inductive, TypeOK, Frames
  <2>2. PICK basis : basis = frame[h].basis
    OBVIOUS
  <2>3. CountsTo(t, basis) /\ decision[t] # NoDecision
    BY <1>1, <1>6, <2>1, <2>2 DEF Inductive, HandlerOK
  <2>4. Newest(t) /\ Newest(t)'
    BY <1>1, <1>2, <1>6, <2>1 DEF DecideLabels
  <2>5. basis = 1..(t - 1)
    BY <2>3, <2>4, NewestBasis DEF Newest
  <2>6. decision'[t] # NoDecision
    BY <1>2, <2>3 DEF Sound, Grows
  <2>7. ShowTrial(t, basis)
    BY <1>6, <2>1, <2>2 DEF Answer
  <2> QED  BY <1>1, <2>4, <2>5, <2>6, <2>7, AfterTrial
<1>7. CASE pc[h] \in AwaitLabels
  <2>1. PICK status : status = row'.status
    OBVIOUS
  <2>2. ShowStatus(status)
    BY <1>7, <2>1 DEF Answer, AwaitLabels
  <2> QED  BY <1>1, <1>2, <2>1, <2>2, AfterStatus DEF Inductive
<1> QED
  BY <1>1, <1>3, <1>4, <1>5, <1>6, <1>7, NextEnds DEF Inductive

\* submit_trial answers.
LEMMA SubmitAnswered ==
    ASSUME WebInv, NEW p, p = page, Shows(p)', NEW h \in Handlers, call = "submit", Answer(h)
    PROVE  ClientOK'
<1>1. ClientOK /\ PageFits(p) /\ p.stage = "trial" /\ p.known
  BY DEF WebInv, ClientOK, Sends, PageFits
<1>2. CASE pc[h] = "submitFetch" /\ frame[h].trial \notin completed
  <2>1. Fail
    BY <1>2 DEF Answer
  <2> QED  BY <1>1, <2>1, AfterFail
<1>3. CASE ~(pc[h] = "submitFetch" /\ frame[h].trial \notin completed)
  <2>1. Ask("next")
    BY <1>3 DEF Answer
  <2>2. page' = p
    BY <1>3 DEF Answer
  <2>3. token' = token
    BY <1>3 DEF Answer
  <2>4. Sends(p, "next") /\ token' \in BOOLEAN
    BY <1>1, <2>3 DEF Sends, ClientOK
  <2> QED  BY <1>1, <2>1, <2>2, <2>4, AfterAsk DEF Calls
<1> QED  BY <1>2, <1>3

\* submit_block_questionnaire answers.
LEMMA QuestionnaireAnswered ==
    ASSUME WebInv, NEW p, p = page, Shows(p)', NEW h \in Handlers, call = "questionnaire",
           Answer(h)
    PROVE  ClientOK'
<1>1. ClientOK /\ p \in Pages /\ PageFits(p) /\ p.stage = "questionnaire" /\ p.known
  BY DEF WebInv, ClientOK, Sends, PageFits
<1>2. PICK q : q = [page EXCEPT !.block = NoBlock]
  OBVIOUS
<1>3. q \in Pages /\ q.stage = p.stage /\ q.trial = p.trial /\ q.basis = p.basis /\ q.known
  BY <1>1, <1>2 DEF Pages
<1>4. PageFits(q) /\ Sends(q, "next") /\ Shows(q)'
  BY <1>1, <1>3 DEF PageFits, Sends, Shows, Newest
<1>5. Ask("next") /\ page' = q /\ token' \in BOOLEAN
  BY <1>1, <1>2 DEF Answer, ClientOK
<1> QED  BY <1>4, <1>5, AfterAsk DEF Calls

\* final_submit answers.
LEMMA FinalAnswered ==
    ASSUME WebInv, NEW p, p = page, Shows(p)', NEW h \in Handlers, Runs(h), call = "final",
           Answer(h)
    PROVE  ClientOK'
<1>1. ClientOK /\ TypeOK
  BY DEF WebInv, Inductive
<1>2. CASE pc[h] = "finalWrite"
  <2>1. row'.finalizedAt
    BY <1>1, <1>2, FinalEnds
  <2>2. ShowCompletion /\ token' \in BOOLEAN
    BY <1>2 DEF Answer
  <2> QED  BY <1>1, <2>1, <2>2, AfterCompletion
<1>3. CASE pc[h] # "finalWrite"
  BY <1>1, <1>3, AfterFail DEF Answer
<1> QED  BY <1>2, <1>3

\* A statement of a handler, and its answer.
LEMMA HandleStep ==
    ASSUME WebInv, NEW h \in Handlers, Handle(h)
    PROVE  Inductive' /\ WaitingOK' /\ FetchOK' /\ ClientOK'
<1>1. Runs(h) /\ Step(h) /\ pc[h] # "idle"
  BY DEF Handle, Runs, Step
<1>2. Inductive' /\ WaitingOK' /\ FetchOK'
  BY <1>1, Working
<1>3. CASE ~(via = h /\ pc'[h] = "idle")
  <2>1. UNCHANGED <<page, token, call, via>>
    BY <1>3 DEF Handle
  <2> QED  BY <1>1, <1>2, <1>3, <2>1, WaitOn
<1>4. CASE via = h /\ pc'[h] = "idle"
  <2>1. PICK p : p = page
    OBVIOUS
  <2>2. p \in Pages /\ Shows(p) /\ Serves(h, call)
    BY <1>4, <2>1, WebAssumption DEF WebInv, ClientOK, PageFits
  <2>3. Shows(p)' /\ Answer(h)
    BY <1>1, <1>4, <2>2, Working DEF Handle
  <2>4. call \in {"start", "next", "submit", "questionnaire", "final"}
    BY <2>2 DEF Serves
  <2> QED
    BY <1>1, <1>2, <1>4, <2>1, <2>3, <2>4, StartAnswered, NextAnswered, SubmitAnswered,
       QuestionnaireAnswered, FinalAnswered
<1> QED  BY <1>3, <1>4

\* A handler dies, and its page shows an error.
LEMMA DieStep ==
    ASSUME WebInv, NEW h \in Handlers, Die(h)
    PROVE  Inductive' /\ WaitingOK' /\ FetchOK' /\ ClientOK'
<1>1. Step(h) /\ pc[h] # "idle"
  BY DEF Die, Crash, Step
<1>2. Inductive' /\ WaitingOK' /\ FetchOK'
  BY <1>1, Working
<1>3. CASE via # h
  <2>1. UNCHANGED <<page, token, call, via>>
    BY <1>3 DEF Die
  <2> QED  BY <1>1, <1>2, <1>3, <2>1, WaitOn
<1>4. CASE via = h
  <2>1. PICK p : p = page
    OBVIOUS
  <2>2. ClientOK /\ p \in Pages /\ Shows(p)
    BY <2>1 DEF WebInv, ClientOK, PageFits
  <2>3. Shows(p)' /\ Fail
    BY <1>1, <1>4, <2>2, Working DEF Die
  <2> QED  BY <1>2, <2>1, <2>2, <2>3, AfterFail
<1> QED  BY <1>3, <1>4

-----------------------------------------------------------------------------
(* The page and the session together.                                      *)

\* A request that reaches a handler: the page has what the request carries,
\* and asks only for what its session is ready for.
LEMMA SendStep ==
    ASSUME WebInv, NEW h \in Handlers, Request(h), via' = h,
           UNCHANGED <<page, token, call>>
    PROVE  /\ Step(h) /\ Inductive' /\ WaitingOK' /\ FetchOK' /\ ClientOK'
<1>1. PICK p : p = page
  OBVIOUS
<1>2. /\ ClientOK /\ Inductive /\ WaitingOK /\ FetchOK
      /\ p \in Pages /\ PageFits(p) /\ Shows(p) /\ Sends(p, call)
  BY <1>1 DEF WebInv, ClientOK, PageFits
<1>3. pc[h] = "idle"
  BY DEF Request, StartRead, NextRead, SubmitRead, QuestRead, FinalRead
<1>4. /\ Step(h) /\ Patient(h) /\ pc'[h] # "idle" /\ pc'[h] \notin DecideLabels
      /\ Serves(h, call)'
      /\ pc'[h] = "submitFetch" => p.trial \in Trials /\ frame'[h].trial = p.trial
  <2>1. CASE call = "start" /\ StartRead(h)
    <3>1. pc'[h] = "startFind"
      BY <1>2, <2>1, GotoMoves DEF StartRead, Inductive
    <3>2. ~FinalRead(h) /\ \A b \in MainBlocks : ~QuestRead(h, b)
      BY <1>2, <3>1, GotoMoves DEF FinalRead, QuestRead, Inductive
    <3> QED
      BY <2>1, <3>1, <3>2 DEF Step, Start, Patient, DecideLabels, Serves, StartLabels
  <2>2. CASE call = "next" /\ NextRead(h)
    <3>1. pc'[h] = "nextBlocks"
      BY <1>2, <2>2, GotoMoves DEF NextRead, Inductive
    <3>2. ~FinalRead(h) /\ \A b \in MainBlocks : ~QuestRead(h, b)
      BY <1>2, <3>1, GotoMoves DEF FinalRead, QuestRead, Inductive
    <3> QED
      BY <2>2, <3>1, <3>2 DEF Step, NextTrial, Patient, DecideLabels, Serves, PickLabels
  <2>3. ASSUME call = "submit", NEW r \in Responses, SubmitRead(h, page.trial, r)
        PROVE  /\ Step(h) /\ Patient(h) /\ pc'[h] # "idle" /\ pc'[h] \notin DecideLabels
               /\ Serves(h, call)'
               /\ pc'[h] = "submitFetch" => p.trial \in Trials /\ frame'[h].trial = p.trial
    <3>1. PICK t : t = p.trial
      OBVIOUS
    <3>2. t \in Trials
      BY <1>2, <2>3, <3>1 DEF Sends, PageFits, Pages
    <3>3. SubmitRead(h, t, r)
      BY <1>1, <2>3, <3>1
    <3>4. pc'[h] = "submitFetch" /\ frame'[h].trial = t
      BY <1>2, <3>3, GotoMoves DEF SubmitRead, Inductive, TypeOK, Frames
    <3>5. ~FinalRead(h) /\ \A b \in MainBlocks : ~QuestRead(h, b)
      BY <1>2, <3>4, GotoMoves DEF FinalRead, QuestRead, Inductive
    <3>6. Step(h)
      BY <3>2, <3>3 DEF Step, SubmitTrial
    <3> QED
      BY <2>3, <3>1, <3>2, <3>4, <3>5, <3>6 DEF Patient, DecideLabels, Serves, Submitting
  <2>4. CASE call = "questionnaire" /\ QuestRead(h, page.block)
    <3>1. PICK b : b = p.block
      OBVIOUS
    <3>2. b \in MainBlocks /\ snapshot
      BY <1>2, <2>4, <3>1 DEF Sends, Shows, Pages
    <3>3. QuestRead(h, b)
      BY <1>1, <2>4, <3>1
    <3>4. pc'[h] = "questStore"
      BY <1>2, <3>3, GotoMoves DEF QuestRead, Inductive
    <3>5. Step(h)
      BY <3>2, <3>3 DEF Step, SubmitQuestionnaire
    <3> QED  BY <2>4, <3>2, <3>4, <3>5 DEF Patient, DecideLabels, Serves
  <2>5. CASE call = "final" /\ FinalRead(h)
    <3>1. snapshot
      BY <1>2, <2>5 DEF Sends, Shows
    <3>2. pc'[h] = "finalPending"
      BY <1>2, <2>5, GotoMoves DEF FinalRead, Inductive
    <3> QED
      BY <2>5, <3>1, <3>2 DEF Step, FinalSubmit, Patient, DecideLabels, Serves, FinalLabels
  <2> QED  BY <2>1, <2>2, <2>3, <2>4, <2>5 DEF Request
<1>5. TypeOK' /\ Sound(h) /\ Inductive'
  BY <1>2, <1>4, StepSound, StepInductive
<1>6. WaitingOK'
  BY <1>2, <1>4, <1>5, WaitingStep
<1>7. FetchOK'
  <2>1. pc'[h] = "submitFetch" => 1..(frame'[h].trial - 1) \subseteq completed
    <3> SUFFICES ASSUME pc'[h] = "submitFetch"
                 PROVE  1..(frame'[h].trial - 1) \subseteq completed
      OBVIOUS
    <3>1. PICK t \in Trials : t = p.trial /\ frame'[h].trial = t
      BY <1>4
    <3>2. decision[t] # NoDecision
      BY <1>2, <3>1 DEF Shows, Trials, NoTrial
    <3> QED  BY <1>2, <3>1, <3>2 DEF Inductive, StoredOK, ServedInOrder
  <2> QED  BY <1>2, <1>4, <1>5, <2>1, FetchKept
<1>8. Shows(p)'
  <2>1. pc'[h] = "submitFetch" => frame'[h].trial <= p.trial
    BY <1>4, PlanAssumption DEF Trials
  <2> QED  BY <1>2, <1>4, <1>5, <2>1, ShowsKept
<1>9. ClientOK'
  BY <1>1, <1>2, <1>4, <1>8 DEF ClientOK, PageFits, Shows, Sends, Serves, Newest
<1> QED  BY <1>4, <1>5, <1>6, <1>7, <1>9

\* The page starts where create_session has answered.
LEMMA WebInitInv == WebInit => WebInv
<1> SUFFICES ASSUME WebInit PROVE WebInv
  OBVIOUS
<1>1. Inductive /\ WaitingOK
  BY InitInductive, InitWaiting DEF WebInit
<1>2. FetchOK
  BY DEF WebInit, Init, FetchOK
<1>3. PICK q : q = [Blank("entry", TRUE) EXCEPT !.known = TRUE]
  OBVIOUS
<1>4. q \in Pages /\ q.stage = "entry" /\ q.trial = NoTrial /\ q.known
  BY <1>3 DEF Pages, PageStages, Blank, Decisions
<1>5. PageFits(q) /\ Sends(q, "start") /\ Shows(q)
  BY <1>4 DEF PageFits, Sends, Shows
<1>6. page = q /\ token \in BOOLEAN /\ call = "start" /\ via = NoHandler
  BY <1>3 DEF WebInit
<1>7. ClientOK
  BY <1>5, <1>6 DEF ClientOK, Calls
<1> QED  BY <1>1, <1>2, <1>7 DEF WebInv

\* Every step keeps the invariant, and is a step of the session or none.
LEMMA WebNextInv == WebInv /\ [WebNext]_webVars => WebInv' /\ [Next]_vars
<1> SUFFICES ASSUME WebInv, [WebNext]_webVars PROVE WebInv' /\ [Next]_vars
  OBVIOUS
<1>1. ASSUME NEW h \in Handlers, Request(h), via' = h, UNCHANGED <<page, token, call, failures>>
      PROVE  WebInv' /\ [Next]_vars
  BY <1>1, SendStep DEF WebInv, Step, Next
<1>2. ASSUME NEW h \in Handlers, Handle(h) PROVE WebInv' /\ [Next]_vars
  <2>1. Runs(h)
    BY <1>2 DEF Handle, Runs
  <2> QED  BY <1>2, <2>1, HandleStep DEF WebInv, Runs, Next
<1>3. ASSUME NEW h \in Handlers, Die(h) PROVE WebInv' /\ [Next]_vars
  BY <1>3, DieStep DEF WebInv, Die, Next
<1>4. CASE \/ Refused \/ Enter \/ Resume \/ Progress \/ Lose \/ Reload
           \/ Advance \/ Retry \/ Restart \/ Refresh
  <2>1. UNCHANGED vars
    BY <1>4 DEF Refused, Enter, Resume, Progress, Lose, Reload, Advance, Begin, Continue,
       SubmitAnswer, SubmitRatings, SubmitSession, Retry, Restart, Refresh, Press
  <2>2. ClientOK'
    BY <1>4, RefusedStep, EnterStep, ResumeStep, ProgressStep, LostStep, ButtonStep
  <2> QED  BY <2>1, <2>2, Resting DEF WebInv
<1>5. CASE UNCHANGED webVars
  <2>1. UNCHANGED vars
    BY <1>5 DEF webVars
  <2> QED  BY <1>5, <2>1, Resting, ClientRests DEF WebInv
<1> QED  BY <1>1, <1>2, <1>3, <1>4, <1>5 DEF WebNext, Send, Leave

\* The inductive invariant of the page and the session holds in every
\* reachable state.
THEOREM WebInvariant == WebSpec => []WebInv
<1>1. WebInv /\ [WebNext]_webVars => WebInv'
  BY WebNextInv
<1> QED  BY <1>1, WebInitInv, PTL DEF WebSpec

\* The page (useParticipantFlow.ts) is a dead end only as the entry page of a
\* load that lost its request for the run: in every other state in which it is
\* not loading it shows content to go on from, or an error with a retry button
\* that works, whatever request was lost, died or overlapped another one.
THEOREM PageIsAlwaysUsable == WebSpec => []PageUsable
<1>1. WebInv => PageUsable
  BY DEF WebInv, ClientOK, PageFits, Sends, PageUsable, Stranded, Pages, PageStages
<1> QED  BY <1>1, WebInvariant, PTL

\* The completion page is shown only for a session whose final submit is
\* stored with all its work.
THEOREM CompletionAlwaysStored == WebSpec => []CompletionIsStored
<1>1. WebInv => CompletionIsStored
  BY DEF WebInv, ClientOK, Shows, WaitingOK, SubmittedMeansDone, CompletionIsStored
<1> QED  BY <1>1, WebInvariant, PTL

\* The assistance on the page and the decision that is stored for its trial
\* (next_trial) were both computed when exactly the trials before it were
\* completed, even when a request the page gave up computed it again.
THEOREM ShownAlwaysCountsEarlier == WebSpec => []ShownCountsEarlier
<1>1. WebInv => ShownCountsEarlier
  <2> SUFFICES ASSUME WebInv, page.trial # NoTrial
               PROVE  page.basis = 1..(page.trial - 1) /\ decision[page.trial] = page.basis
    BY DEF ShownCountsEarlier
  <2>1. PICK t \in Trials : t = page.trial
    BY DEF WebInv, ClientOK, PageFits, Pages
  <2>2. Newest(t) /\ decision[t] # NoDecision /\ page.basis = 1..(t - 1)
    BY <2>1 DEF WebInv, ClientOK, Shows
  <2>3. CountsTo(t, decision[t])
    BY <2>2 DEF WebInv, Inductive, StoredOK
  <2>4. \A basis : CountsTo(t, basis) => basis = 1..(t - 1)
    BY <2>2, NewestBasis DEF Newest
  <2> QED  BY <2>1, <2>2, <2>3, <2>4
<1> QED  BY <1>1, WebInvariant, PTL

\* The page is a client of the session: it submits only trials it was served
\* and answers only questionnaires of the plan.
THEOREM PageIsClient == WebSpec => Spec
<1>1. WebInit => Init
  BY DEF WebInit
<1>2. WebInv /\ [WebNext]_webVars => [Next]_vars
  BY WebNextInv
<1> QED  BY <1>1, <1>2, WebInvariant, PTL DEF WebSpec, Spec

\* A session driven by the page is awaiting or finalized only when all of its
\* work is stored: that a client waits for the trials of its session need not
\* be assumed of the page.
THEOREM PageSubmitsWhatIsDone == WebSpec => []SubmittedMeansDone
<1>1. WebInv => SubmittedMeansDone
  BY DEF WebInv, WaitingOK
<1> QED  BY <1>1, WebInvariant, PTL

\* So the page fills the work ledger of its session trial by trial, and
\* submits it only when it is full.
THEOREM PageFillsLedger == WebSpec => LedgerImplemented
<1>1. WebInit => Ledger!Init
  BY LedgerInit DEF WebInit
<1>2. WebInv /\ WebInv' /\ [WebNext]_webVars => [Ledger!Next]_(Ledger!vars)
  <2> SUFFICES ASSUME WebInv, WebInv', [WebNext]_webVars PROVE [Ledger!Next]_(Ledger!vars)
    OBVIOUS
  <2>1. WaitingOK /\ Inductive /\ TypeOK'
    BY DEF WebInv, Inductive
  <2> QED  BY <2>1, WebNextInv, LedgerStep
<1> QED
  BY <1>1, <1>2, WebInvariant, PTL DEF WebSpec, LedgerImplemented, Ledger!Spec
=============================================================================
