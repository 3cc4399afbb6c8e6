--------------------------- MODULE ParticipantWeb ---------------------------
(***************************************************************************)
(* The participant's page (useParticipantFlow.ts, App.tsx) as the client   *)
(* of ParticipantSession: one browser tab, from the stored resume token to *)
(* the completion page.                                                    *)
(*                                                                         *)
(* The page sends one request at a time (its buttons are disabled while it *)
(* loads, and the retry button is hidden because the error is cleared).  A *)
(* request may fail before it reaches the server, or its answer may be     *)
(* lost while the handler still runs: then the page shows an error and its *)
(* next request overlaps the old handler.  A handler may die, and the      *)
(* participant may reload the page at any time.                            *)
(*                                                                         *)
(* The module starts where create_session has answered and the token is    *)
(* saved (RunEntry has the way there) and ends when the session is         *)
(* finalized; the run stays active, so that beginning again with the saved *)
(* token answers with the same session.  The stages consent and            *)
(* instructions are one stage "entry".  The two requests of a page load,   *)
(* for the run and for the saved token, are answered or lost before the    *)
(* participant presses a button.                                           *)
(***************************************************************************)
EXTENDS ParticipantSession

CONSTANTS
    MaxFailures,  \* lost requests, lost answers, dead handlers, reloads (bound)
    NoHandler     \* the page's request has not been sent yet

ASSUME WebAssumption == MaxFailures \in Nat /\ NoHandler \notin Handlers

VARIABLES
    page,      \* what the page shows
    token,     \* localStorage has the resume token
    call,      \* the request the page waits for
    via,       \* the handler that serves it
    failures   \* failures so far

client == <<page, token, call, via, failures>>
webVars == <<vars, client>>

NoTrial == 0
NoBlock == -1

\* stage: entry, resume_prompt, trial, questionnaire, awaiting_final_submit or
\* completion; basis: the trials that the decision shown was made from; run:
\* publicRun is loaded (and launchable); known: the page has a sessionId;
\* error: an error card with a retry button.
Blank(stage, run) == [stage |-> stage, trial |-> NoTrial, basis |-> {}, block |-> NoBlock,
                      run |-> run, known |-> FALSE, error |-> ~run]

WebInit ==
    /\ Init
    /\ page = [Blank("entry", TRUE) EXCEPT !.known = TRUE]
    /\ token = TRUE
    /\ call = "start" /\ via = NoHandler
    /\ failures = 0

-----------------------------------------------------------------------------
(* What the page does with an answer.                                      *)

\* The next request of a chain of awaits.
Ask(kind) == call' = kind /\ via' = NoHandler

\* The chain is over: loading is FALSE again.
Settle(p) == call' = "none" /\ via' = NoHandler /\ page' = p

\* Mutant: the error is not shown.
FailSilently == Settle(page) /\ UNCHANGED token

Fail == Settle([page EXCEPT !.error = TRUE]) /\ UNCHANGED token

ShowTrial(t, basis) ==
    /\ Settle([page EXCEPT !.stage = "trial", !.trial = t, !.basis = basis, !.block = NoBlock])
    /\ UNCHANGED token

ShowQuestionnaire(b) ==
    /\ Settle([page EXCEPT !.stage = "questionnaire", !.trial = NoTrial, !.block = b])
    /\ UNCHANGED token

ShowAwaiting ==
    /\ Settle([page EXCEPT !.stage = "awaiting_final_submit", !.trial = NoTrial])
    /\ UNCHANGED token

\* The last page; it has no button, so that loading is sometimes never reset
\* does not matter.
ShowCompletion ==
    Settle([page EXCEPT !.stage = "completion", !.trial = NoTrial, !.block = NoBlock])

\* loadNextTrial with an answer that only carries a status.
ShowStatus(status) ==
    CASE status = "awaiting_final_submit" -> ShowAwaiting
      [] status = "finalized" -> ShowCompletion /\ UNCHANGED token
      [] OTHER -> Fail

-----------------------------------------------------------------------------
(* Requests.                                                               *)

\* The request reaches a handler that changes something, or that reads on.
Request(h) ==
    \/ call = "start" /\ StartRead(h)
    \/ call = "next" /\ NextRead(h)
    \/ call = "submit" /\ \E r \in Responses : SubmitRead(h, page.trial, r)
    \/ call = "questionnaire" /\ QuestRead(h, page.block)
    \/ call = "final" /\ FinalRead(h)

Send ==
    /\ via = NoHandler
    /\ \E h \in Handlers : Request(h) /\ via' = h
    /\ UNCHANGED <<page, token, call, failures>>

\* The request is answered from one read of the session row.
Refused ==
    /\ via = NoHandler
    /\ \/ call = "next" /\ row.status \notin {"created", "in_progress"} /\ ShowStatus(row.status)
       \/ call \in {"submit", "questionnaire"} /\ row.status = "finalized" /\ Fail
       \/ call = "final" /\ row.status = "finalized" /\ ShowCompletion /\ token' = FALSE
    /\ UNCHANGED <<vars, failures>>

\* beginSession with a saved token: a session that can be resumed is
\* answered, a finalized one is forgotten (and another one created).
Enter ==
    /\ call = "enter"
    /\ IF row.status = "finalized"
       THEN Settle(page) /\ token' = FALSE
       ELSE page' = [page EXCEPT !.known = TRUE] /\ Ask("start") /\ UNCHANGED token
    /\ UNCHANGED <<vars, failures>>

\* continueResumedSession: the resume request, then the progress request,
\* which reads the row again, then the page of the stored stage.
Resume ==
    /\ call = "resume"
    /\ IF row.status = "finalized"
       THEN Settle([page EXCEPT !.stage = "entry"])
       ELSE page' = [page EXCEPT !.known = TRUE] /\ Ask("progress")
    /\ UNCHANGED <<vars, token, failures>>

\* Mutant: a session that waits for its final submit counts as completed.
ResumedStageEarly ==
    IF row.stage = "completion" \/ row.status \in {"awaiting_final_submit", "finalized"}
    THEN "completion"
    ELSE IF row.stage \in {"awaiting_final_submit", "questionnaire"} THEN row.stage
    ELSE "trial"

\* stageFromSessionProgress
ResumedStage ==
    IF row.stage = "completion" \/ row.status = "finalized" THEN "completion"
    ELSE IF "awaiting_final_submit" \in {row.stage, row.status} THEN "awaiting_final_submit"
    ELSE IF row.stage = "questionnaire" THEN "questionnaire"
    ELSE "trial"

Progress ==
    /\ call = "progress"
    /\ CASE ResumedStage = "completion" -> ShowCompletion /\ UNCHANGED token
         [] ResumedStage = "awaiting_final_submit" -> ShowAwaiting
         [] ResumedStage = "questionnaire" -> ShowQuestionnaire(row.block)
         [] ResumedStage = "trial" -> Ask("start") /\ UNCHANGED <<page, token>>
    /\ UNCHANGED <<vars, failures>>

\* How the statement at which a handler ends is seen by the page.
Answer(h) ==
    CASE call = "start" ->
             IF pc[h] = "startInsert" THEN Fail ELSE Ask("next") /\ UNCHANGED <<page, token>>
      [] call = "next" /\ pc[h] = "nextBlocks" -> Fail
      [] call = "next" /\ pc[h] = "nextBlocked" -> ShowQuestionnaire(frame[h].block)
      [] call = "next" /\ pc[h] = "nextPick" ->
             LET t == Min(Trials \ completed) IN ShowTrial(t, decision[t])
      [] call = "next" /\ pc[h] = "nextLogAssistance" -> ShowTrial(frame[h].trial, frame[h].basis)
      [] call = "next" /\ pc[h] \in {"awaitRead", "awaitPending", "awaitAnswers", "awaitWrite"} ->
             ShowStatus(row'.status)
      [] call = "submit" ->
             IF pc[h] = "submitFetch" /\ frame[h].trial \notin completed
             THEN Fail ELSE Ask("next") /\ UNCHANGED <<page, token>>
      [] call = "questionnaire" ->
             Ask("next") /\ page' = [page EXCEPT !.block = NoBlock] /\ UNCHANGED token
      [] call = "final" ->
             IF pc[h] = "finalWrite" THEN ShowCompletion /\ token' = FALSE ELSE Fail

\* A statement of a handler; its last one answers the page if it still waits.
Handle(h) ==
    /\ pc[h] # "idle"
    /\ \/ Start(h) \/ NextTrial(h) \/ SubmitTrial(h) \/ SubmitQuestionnaire(h)
       \/ UpdateProgress(h) \/ MarkAwaiting(h) \/ FinalSubmit(h)
    /\ IF via = h /\ pc'[h] = "idle" THEN Answer(h) ELSE UNCHANGED <<page, token, call, via>>
    /\ UNCHANGED failures

-----------------------------------------------------------------------------
(* Failures.                                                               *)

MayFail == failures < MaxFailures /\ failures' = failures + 1

\* fetch rejects: the request did not arrive, or its answer did not.
Lose == call # "none" /\ MayFail /\ Fail /\ UNCHANGED vars

Die(h) ==
    /\ MayFail /\ Crash(h)
    /\ IF via = h THEN Fail ELSE UNCHANGED <<page, token, call, via>>

\* The page is loaded again.  What became of its request for the run is run;
\* its request for the saved token is answered.
Loaded(run) ==
    \/ ~token /\ Settle(Blank("entry", run)) /\ UNCHANGED token
    \/ token /\ row.status = "finalized" /\ Settle(Blank("entry", run)) /\ token' = FALSE
    \/ token /\ row.status # "finalized" /\ Settle(Blank("resume_prompt", run)) /\ UNCHANGED token

\* Each of the two requests may be lost; an error is shown for the first only.
Reload ==
    /\ MayFail
    /\ \E run \in BOOLEAN :
           Loaded(run) \/ (Settle(Blank("entry", run)) /\ UNCHANGED token)
    /\ UNCHANGED vars

-----------------------------------------------------------------------------
(* Buttons.                                                                *)

Press(kind) ==
    /\ call = "none"
    /\ page' = [page EXCEPT !.error = FALSE]
    /\ Ask(kind)
    /\ UNCHANGED <<vars, token, failures>>

\* Start is disabled without publicRun, which only a page load asks for.
Begin == page.stage = "entry" /\ page.run /\ token /\ Press("enter")
Continue == page.stage = "resume_prompt" /\ Press("resume")
SubmitAnswer == page.stage = "trial" /\ page.trial # NoTrial /\ Press("submit")
SubmitRatings == page.stage = "questionnaire" /\ page.block # NoBlock /\ Press("questionnaire")
SubmitSession == page.stage = "awaiting_final_submit" /\ Press("final")

\* The button of the page, whatever the page is.
Advance == Begin \/ Continue \/ SubmitAnswer \/ SubmitRatings \/ SubmitSession

\* retryCurrent only works once the page has a session id.
Retry == page.error /\ page.known /\ Press("next")

Restart ==
    /\ call = "none" /\ page.stage = "resume_prompt"
    /\ page' = [page EXCEPT !.stage = "entry"]
    /\ UNCHANGED <<vars, token, call, via, failures>>

\* The request for the run was lost: Start is disabled, and the retry button
\* repeats the error unless the page knows of a session that was started.
Stranded == page.stage = "entry" /\ ~page.run

\* What is left to the participant is to load the page again, and nobody says
\* so: no fairness.
Refresh == call = "none" /\ Stranded /\ Loaded(TRUE) /\ UNCHANGED <<vars, failures>>

\* The participant is through with this session.
Over == page.stage = "completion" \/ ~token
Leave == Over /\ call = "none" /\ UNCHANGED webVars

WebNext ==
    \/ Send \/ Refused \/ Enter \/ Resume \/ Progress
    \/ \E h \in Handlers : Handle(h) \/ Die(h)
    \/ Lose \/ Reload
    \/ Advance \/ Retry \/ Restart \/ Refresh \/ Leave

\* Requests are sent and served, and the participant goes on trying: every
\* button that is offered again and again is pressed.
WebFairness ==
    /\ WF_webVars(Send) /\ WF_webVars(Refused)
    /\ WF_webVars(Enter \/ Resume \/ Progress)
    /\ \A h \in Handlers : WF_webVars(Handle(h))
    /\ SF_webVars(Advance) /\ SF_webVars(Retry)

WebSpec == WebInit /\ [][WebNext]_webVars /\ WebFairness

-----------------------------------------------------------------------------
(* Properties.                                                             *)

\* The page is a dead end in one case only, the entry page of a load whose
\* request for the run was lost.  In every other state in which it is not
\* loading it shows content that the participant can go on from, or an error
\* with a retry button that works.
PageUsable ==
    call = "none" =>
        \/ page.error /\ page.known
        \/ page.stage = "entry" /\ page.run
        \/ page.stage = "trial" /\ page.trial # NoTrial
        \/ page.stage = "questionnaire" /\ page.block # NoBlock
        \/ page.stage \in {"resume_prompt", "awaiting_final_submit", "completion"}
        \/ Stranded

\* The completion page is shown only for a session whose final submit was
\* stored with all its work, whatever was lost or overlapped before.
CompletionIsStored == page.stage = "completion" => row.finalizedAt /\ AllWorkDone

\* The assistance on the page and the decision that is logged for its trial
\* were both computed when exactly the trials before it were completed, even
\* when a lost request computes and stores its own decision after the page
\* has got another one.  (They may still differ, see Decisions.)
ShownCountsEarlier ==
    page.trial # NoTrial =>
        page.basis = 1..(page.trial - 1) /\ decision[page.trial] = page.basis

\* A participant who goes on trying, and who does not leave a stranded entry
\* page as it is, gets the session finalized and is told.
Finishes == []<>~Stranded => <>(row.finalizedAt /\ Over)
=============================================================================
