# Verification of the CABDI pilot platform

CABDI (`app/`) runs human-subject experiments: a researcher uploads stimuli,
builds a *run* and activates it; participants enter through the run's public
link, work through practice and main trials with model advice shown by a policy,
answer a questionnaire after each block, and submit the session; the researcher
exports and analyses the logs.  These modules model the parts of it that keep
state, at the grain at which requests really interleave, check them with TLC on
small instances and prove the central facts with TLAPS for all instances.
Paths below are relative to the repository's root; `tests/`, `docs/` and the
like are its directories.

## 1. Inventory

| Part | State | Operations | Hard behaviour | What makes it correct | Module |
|---|---|---|---|---|---|
| **Participant session** `app/participant_api/services/session_service.py`, `trial_service.py` | `participant_sessions` row, `session_trials`, `trial_summary_logs`, `trial_event_logs`, `block_questionnaires` | create, start (freezes the plan), next trial, submit trial, submit questionnaire, update progress, mark awaiting, final submit | handlers on a thread pool, each statement its own transaction; stale reads; crash between statements; client retries | completed trials have all their log rows; plan order; questionnaire gate; frozen answers; a submitted session is complete; a resumed position is never ahead of the work | `ParticipantSession` |
| **Run, entry, resume** `app/researcher_api/services/run_service.py`, `session_service.py` 67-297, `useParticipantFlow.ts` 235-279 | `researcher_runs` row, token hash in the session row, token in `localStorage` | activate, pause, close, page load, begin, create or resume, forget | read-then-write transitions, lost answers, two tabs | allowed transitions only; a saved token resolves; an open session is not silently replaced | `RunEntry` |
| **Participant web flow** `participant_web/src/hooks/useParticipantFlow.ts` | stage, trial, questionnaire block, loading, feedback | begin, submissions, final submit, resume, retry, reload | failed requests leave a half-moved page and a running handler | the page can go on unless the request for the run was lost; the decision shown is made from the right trials; completion is stored; a persistent participant finishes | `ParticipantWeb` |
| **Trial plan** `randomization_service.py` | none (pure) | practice order, wrong-advice quotas, balance of difficulties, blocks | quotas drawn from the whole bank, items taken block by block | never out of items; every item once; wrong advice spread | `TrialPlan` |
| **Stimulus upload** `stimulus_service.py` | `researcher_stimulus_sets` (insert only) | upload: read, check, repair, store | rows repaired one by one, conflicts between rows | a stored bank can be shown and answered | `StimulusBank` |
| **Run creation and preview** `run_service.py` | `researcher_runs` | preview, create, read (repairs the slug), activate | slug chosen in one statement and written in another; preview long before activation | an invite link opens its run; the preview's promise holds; admitted sessions can be played | `RunSetup` |
| **Backup and restore** `backup_restore.py`, `scripts/pilot_backup*.py`, `pilot_restore.py` | JSON archives | backup, rotate, restore | live reads table by table; listed columns only | an archive holds no half session; a restored session goes on | `BackupRestore` |
| **Stores** `sqlite_store.py`, `postgres_store.py`, **account bootstrap** `auth_service.py` | the database, `schema_migrations` | `init_db`: inference, migrations, validation; bootstrap | several services start at once and crash; scripts that commit as they go | every service comes up with the full schema; session rows survive; a refused database untouched | `ServiceStartup` |
| **Lagged features, policies** `trial_service.py` 344-574, `policies/` | features, risk bucket, decision in `session_trials` | computed when a trial is first served | put together from summaries and the events of every attempt | they follow the stored answers | `TrialLog` |
| **Exports, diagnostics, dashboard, analysis** `run_data_service.py`, `export_service.py`, `diagnostics_service.py`, `dashboard_service.py`, `analysis/pilot/` | files of an export, manifest | reads, joins, counters, flags, exclusions | tables read at different moments while participants write; files overwritten in place | joins hold; included sessions are whole; warnings are true | `RunExtract` |
| Simulation, experiments, paper, prelaunch gate, researcher web, deployment | — | — | — | — | not modelled (section 7) |

The parts meet in the database and over HTTP: the web page calls the
participant API, which reads the run row that the researcher API writes;
exports, diagnostics and analysis read what the participant API wrote; the
trial plan is computed once, at the first start, and frozen in `session_trials`;
the policy is computed when a trial is first served.

`PROJECT.json` lists all components with their status, and under "hazards" the
places where the code is hard to test.

## 2. How the code runs, and what a step is

`SQLiteStore.fetchone`, `fetchall`, `execute` and `executemany`
(`sqlite_store.py` 29-37, 485-501) each open a connection, run one statement (for
`executemany`, one transaction of many) and commit.  Routes are synchronous
functions, which FastAPI runs on a pool of threads, and the participant and
researcher applications are separate processes on one database.  So **one SQL
statement is one atomic step**, and between any two statements of a handler any
other handler may run.  A handler is modelled by a program counter `pc[h]` and a
frame of local values `frame[h]`; what it read earlier stays in the frame and may be
stale.  A crash ends a handler between two statements: a killed process, a
database error, or an answer nobody receives.  Every guard, early return and error
path that comes before a change is kept; a request that changes nothing is a
stuttering step.

Reads of rows that can no longer change are merged with the statement that uses them
(the questionnaire loop of `required_work_status`, the integrity check of
`next_trial`, the rows of a stored bank).  Rows of `session_trials` are only
inserted once and questionnaires are only added, so a loop over them that finds all
of them present finds what a single read at its end would find.

*An observation that could not be run here:* `PostgresStore.executemany`
(`postgres_store.py` 370) and the restore (`backup_restore.py` 179) call
`executemany` on the connection.  psycopg 3 has that method on cursors; no test of the
repository runs against a Postgres server.  The modules take the call to work.

## 3. Modules

| Module | Models |
|---|---|
| `ParticipantSession` | one session: its rows and the handlers of `SessionService` and `TrialService`, statement by statement |
| `WorkLedger` | abstract: the work of a session is completed in order, only grows, and is submitted once it is all there |
| `SessionLifecycle` | abstract: the life of the status column and `completed_at` |
| `ParticipantWeb` | the participant's page as the client of `ParticipantSession`: EXTENDS it and drives its handlers |
| `RunEntry` | one run's status, sessions entering it, resume tokens, the browser's saved token |
| `RunLifecycle` | abstract: launched, paused, closed for good; admits only while active |
| `TrialPlan` | the construction of a trial plan, one step per placed item |
| `StimulusBank` | how an uploaded file becomes a bank (pure operators) |
| `RunSetup` | EXTENDS `StimulusBank`: upload, preview, creation, slug repair, activation, session creation and start, integrity check |
| `BackupRestore` | EXTENDS `RunSetup`: backups of the running service, retention, restore |
| `ServiceStartup` | starts of several services on one database: versions, migrations, validation, first account |
| `TrialLog` | what one session logs, its lagged features, risk buckets and decisions |
| `RunExtract` | EXTENDS `TrialLog`: the reports that read those tables while they are written |
| `MC*` | small instances for TLC (`ServiceStartup` needs none) |
| `*Proofs` | theorems (section 5) |

The session appears in three modules, each at the grain its questions need: with all
interleavings but without answers' content (`ParticipantSession`), as the rows that
make it playable (`RunSetup`), and with content but one request at a time (`TrialLog`).

### ParticipantSession

| State | Code |
|---|---|
| `row` | `status`, `current_stage`, `current_block_index`, `current_trial_index`, and whether `started_at`, `snapshot_frozen_at`, `completed_at`, `finalized_at` are set |
| `snapshot` | the `session_trials` rows exist (they are inserted in one transaction) |
| `completed`, `decision` | `session_trials.status`, and `risk_bucket` with `policy_decision_json` |
| `summary`, `answered`, `events` | `trial_summary_logs`, `block_questionnaires`, `trial_event_logs` |

Of a policy decision only the set of completed trials is kept that its lagged features were
computed from.  What the decision says also depends on the answers to these trials, their events and their
order (`TrialLog` has the computation), and an overlapping submission may still rewrite the summary of a
completed trial.  So two decisions with the same set may differ, and no property here says that they do not.
The handlers, with their labels: `Start` (`start*`), `NextTrial`
(`next*`), `SubmitTrial` (`submit*`), `SubmitQuestionnaire` (`questStore`), `UpdateProgress`
(`progress*`) and `MarkAwaiting` (`await*`), which the two submissions and the last
`next-trial` run through, and `FinalSubmit` (`final*`).

*An observation.* One tab is enough for a participant to see another decision than the one that is logged.
The submission of trial 1 is lost with answer A and its handler still runs; the retry
stores answer B; the next request computes from B and its answer is lost; the old handler
overwrites the summary with A (`trial_service.py` 256-268); the second next request computes from A, stores
its decision and shows it; the abandoned one stores the decision made from B.
`docs/pilot/codex_master_prompt.md` 314-315 demands "Do not recompute risk within the same trial."

*Constants.* `BlockOf` is the frozen plan: for each trial its block index, -1 for practice.
`PlanAssumption` says what `build_trial_plan` and `validate_non_empty_main_blocks`
guarantee of it.  At most nine main blocks are allowed because the questionnaire gate
orders blocks by the *text* of `block_id`; the live flow cannot start a session of
more than three (see `TrialPlan`).  `ClientWaits` says whether the client sends
questionnaires and the final submit only once the session has its trial rows: TRUE for
the participant page, which gets there only by an answer of `next-trial` or by a
stage stored in the row.  For any other order of calls the code finalizes a session that
was never started, since no row is missing; run `web` has `ClientWaits = FALSE`
and lets the page decide, and a page that jumped ahead would break
`CompletionIsStored` there.  `ParticipantWebProofs` proves of the page what `ClientWaits`
assumes of a client.

*Left out.* Statuses `paused` and `abandoned` of a session (nothing writes them), the
legacy status `completed`, time stamps beyond set / not set, the optional event trace
of a submission and its three optional click events, `last_activity_at`, language.

### ParticipantWeb

`page` is the state of the hook (stage, current trial with the trials its decision was made from,
questionnaire block, whether `publicRun` is loaded, whether a session id is known, whether an error card is
shown), `token` the resume token in `localStorage`, `call` the request the page awaits and `via` the handler
that serves it.  `Send` passes the request to a handler; `Handle(h)` is a statement of a
handler, and when it is the last one and the page still waits for it, `Answer(h)` is what the page
makes of the response: the next request of the chain of awaits or a new page.  A request that
is answered from one read of the row (`Refused`, `Enter`, `Resume`, `Progress`) is one
step.  `Lose` is a rejected `fetch`: if a handler had the request it goes on alone, and
the page's next request overlaps it.  `Die` kills a handler.  `Reload` is a page load with its two requests, for
the run and for the saved token (`Loaded`), of which each may be lost.
The buttons are `Begin`, `Continue`, `Restart`, `SubmitAnswer`, `SubmitRatings`, `SubmitSession`, `Retry`.
`Begin` is offered only with `publicRun` loaded; `Stranded` is the entry page without it, and `Refresh` loads that
page once more, answered this time.
`MaxFailures` bounds losses, deaths and reloads together; a `Refresh` is not counted.
The module begins after `create_session` was answered and ends when the session is finalized
(`Over`: completion page, or the token forgotten).  The run stays active, so a loaded `publicRun` is
launchable.  Consent and instructions are one stage, the language is left out, and the two
requests of a page load are answered or lost before the participant presses a button.

*An observation.* When the request for the run is lost on a page load, the entry page is dead: Start is disabled
without `publicRun?.launchable` (`App.tsx` 69, `InstructionsPage.tsx` 29), so that `publicRun ?? fetchPublicRun`
in `beginSession` (`useParticipantFlow.ts` 243) is never reached; nothing else asks for the run
(188-203, 281-284), and the retry button only repeats an error without a session id (427).  The participant has to
load the page again.  `PageUsable` says that this is the only dead end.

### RunEntry

`run` is the status, `sessions[id]` whether the session does not exist, can be resumed or
is finalized, `saved[c]` the token in browser `c`'s `localStorage`.  A token is the id of its
session: both are random, and the code retries on the one collision it can see.
`Transition` is `transition_run_status`; `Enter` is `beginSession` with the resume info
and create requests it sends; `Finish` is a completed final submit, whose detail is
`ParticipantSession`'s, with its answer delivered or lost.  The page's `launchable` check
changes nothing and may be stale, so a browser may try to enter at any time.

### TrialPlan

`build_trial_plan` as `_build_session_trial_snapshot` calls it: exactly as many trials as
items, so `require_unique` is TRUE and no item is reused.  `practiceLeft`, `wrongLeft` and
`correctLeft` are the pools, `plan` the trials so far.  Pools are shuffled with a seed of the
participant; a `min`/`max` over a shuffled list may return any of the best items, and
`Easiest` and `Balanced` say which those are.  `WrongTotal` is `_main_wrong_targets` before its
distribution; `int(total * (1/3))` equals `total \div 3` (compared up to 2000 trials).
`Finish` keeps what the code does when a design has more blocks than the row of the Latin
square has conditions: an `IndexError`, here phase `unassigned`.
Observations: within a block the items with wrong advice always come first; the
`conditions` of the execution configuration are not used.

### StimulusBank, RunSetup, BackupRestore

A file is a sequence of lines, a row a record of the texts the checks look at, "" standing for
missing.  `FileErrors`, `Verdict` and `Canonical` are the outcome of `upload_stimulus_set`.
`RunSetup` keeps the tables as sequences in order of creation, the trials as a set of rows that
name the place of their item in the run's banks (`Slots`); a slug is a base with a number
(`Slug`).  `BeginCreate` is everything `create_run` does up to the choice of the slug and
`FinishCreate` the INSERT; `ReadRun`, `ProbeSlug`, `UpdateSlug` the repair of `get_run`.
`runs[r].promised` remembers what the preview said, `invites` which links were answered.
`StartSession` keeps the code's odd path: the expected number of trials is compared with the session
row as it was read at the beginning, so that the first start after a restore is refused
while its rows stay, and the second succeeds.
`BackupRestore` adds the archives: `Select(table)` is what the listed columns keep of a table
and the column defaults the rest.  The properties named `...Before` speak of the time
before the first restore.

*Conditions.* `OverlappingRepairs = FALSE`: two requests do not repair the same run at once;
if they do, the earlier of two answered links is overwritten.  It concerns only rows older than the
slug column.  `SoundDesign`, under which `SessionsPlayable` is stated, is what
`_validate_launchability` does not look at: more blocks than conditions (the start fails with an
`IndexError`, `randomization_service.py` 161), and an item id both in the practice and in a main bank (the
source of the main trial is then the practice bank and `next_trial` refuses it for ever).
`Quiet` says whether the service is stopped during backups; `docs/pilot/runbook.md` 158
schedules them on the running one, so `setup` has FALSE.  `ForeignKeys` is Postgres;
without it a backup that has trials of a session it does not have is restored with orphan rows,
with it the restore is refused and rolled back.

*Observations.* The same bank given twice counts as two for `multi`; `response_options` need not
contain the labels; `list_runs` shows `/join/None` for a row that has no slug yet; the restore
does not advance Postgres sequences.

*Left out.* Messages and normalisation of texts, the merge of configurations (abstracted to
`nBlocks`), pauses and the races of transitions (`RunEntry`), the log tables in archives,
checksums of files.

### ServiceStartup

A table is the set of its column groups and a summary of its rows: absent, none, all with a
run, some without.  Postgres migrates in one transaction (`BeginPostgres`, `Lock`, `Migrate`,
`Finish`).  SQLite takes `BEGIN IMMEDIATE` (`Begin`), but migrations 1, 5 and 7 are
`executescript`, which commits first and then runs each statement alone (`ScriptStart`,
`ScriptLine`, `Record`).  `work` is the uncommitted database of the lock's holder.
`Versioned`, `Legacy`, `Fresh`, `Newer` are the databases a service may find.
`CountUsers` and `InsertUser` are `bootstrap_initial_user`.

Starts are killed at any statement, those of the scripts included.  `scripts` remembers what happened to
the scripts and decides nothing: "whole", "stopped" (a start was killed inside one), or "torn" (killed between the
`DROP` and the `RENAME` of migration 7, or another start went on beside one).

*Conditions.* `BesideScripts = FALSE` in `startup`: no start goes on beside a script of another; `startup_torn` drops
this.  `RowsKept` is claimed unless the scripts are torn, `ReadyIsServable` and `Started` while they are
whole.  The code needs each of these:
`startup_torn` shows a start that is killed or overlapped inside migration 1, which leaves base tables
without history, which the code's comment promises to let through and `CREATE TABLE` without `IF NOT EXISTS` does
not.  Migration 5, which has no `DROP ... IF EXISTS`, can never run again after a kill behind its first statement.

*An observation: lost sessions.* A SQLite start that is killed after `DROP TABLE participant_sessions` and before
`RENAME` of migration 7 (`sqlite_store.py` 442-443) leaves all sessions in the copy
alone, and the next start begins with `DROP TABLE IF EXISTS` of that copy (410): every session row is gone, and this start fails
where it fills the new copy.  This is the kill that `RowsKept` excepts; TLC violates the
property without the exception.
The development guide starts both services on one new SQLite file
(`docs/pilot/local_setup_mac.md` 103, 108); deployments use Postgres.

*Left out.* The 5 s busy timeout (a wait is unlimited), refusals by configuration (weak password, missing
URL), two concurrent `CREATE TABLE IF NOT EXISTS schema_migrations` on Postgres (a failed start, repeated),
requests served by the first service while another still starts.

### TrialLog and RunExtract

`trial[t]` is a `session_trials` row with the features, risk bucket and decision of the trial,
`summary[t]` its summary row, `log[t]` the last click, response and completion events.  One request at a
time, `call` its next statement, and `CutOff` ends it between two statements so that it may be
sent again with another answer.  `Serve(t)` is `next_trial` with `Lagged`, `RiskBucket` and
`Decision`.  A report is a list of statements (`Reports`): table reads in the order of
`load_run_scoped_data`, then the files of `_persist_run_artifacts`.  `reader.seen` is what it has read,
and the operators from `Rows` to `Diagnose` are what diagnostics, export and analysis make of it.
`Path.write_text` truncates a file and then writes it: `OpenFile` and `WriteFile`, `OpenManifest` and `WriteManifest`;
`torn` are the files that are truncated and not written.

*A premise on the client.* The final submit of a session that was never started, which
`required_work_status` accepts (`session_service.py` 617), is left out of `FinalSubmit`; such a session would be included
and have no rows.  `ParticipantWebProofs` proves that the page sends none (`PageSubmitsWhatIsDone`).

*Left out.* Events that no report reads, all but the last event of a kind (the
readers take the last one), the which of three clicks, confidence, formats, the text of reports, the
latency and dropout figures.  `WarningsAreTrue` does not cover `realized_steps`: its
reference is the maximum of extra steps while the observed value counts clicks, so the flag is
raised in normal use.

*Observations.*  The counts of summaries and of completed main trials differ for every session with
practice (`diagnostics_service.py` 132-137), which `WarningsAreTrue` allows for; `derive_metrics.py` 156 takes
block index 0 for a missing one; practice trials are in trial-level rows and summaries; `report_builder.py` 36
counts status `completed`, which `list_run_sessions` (`run_service.py` 726-728) renames to
`finalized`; a death between two files leaves new files under the old manifest, one inside a
file leaves it short of what the old manifest counts until the next export, and overlapping
exports (a GET of the dashboard makes one, too) may leave the manifest ahead of a file, so
`ManifestNotAhead` is about exports that do not overlap and files that were written to their end; a click of an attempt that was cut off hides a blind
acceptance of the repeated one, which `FeaturesFollowAnswers` allows for.

## 4. Runs

| Run | Bounds | States | Shows |
|---|---|---|---|
| `session_sequential` | 1 handler, practice + 2 blocks, 2 answers | 1.3 million | without overlap, with crashes and retries: status follows `SessionLifecycle`, no dashboard anomaly, gate respected, answers of completed trials frozen |
| `session_race` | 2 handlers, 2 blocks of one trial | 2.4 million | with overlap and crashes: log rows complete, plan order, submitted means done, position not ahead; `WorkLedger` is implemented |
| `run_sequential` | 1 handler, 2 browsers, 3 sessions | 1.8 thousand | without overlap, with lost answers: `RunLifecycle` is implemented; an open session is kept |
| `run_race` | 2 handlers, 2 browsers, 3 sessions | 153 thousand | with overlap: sessions need a launch, tokens resolve |
| `web` | 2 handlers, practice + 2 blocks, 2 failures | 657 thousand | one tab, overlap only through lost answers: the page is a dead end only where the request for the run was lost, the decision shown and the one stored count the trials before, completion is stored, a persistent participant finishes |
| `trial_plan` | up to 4 blocks, 5 main items, 1 practice item, 3 conditions | 103 thousand | any bank: never out of items, every item once, wrong advice spread |
| `startup` | 3 services, 2 of them with accounts, 2 kills anywhere | 517 thousand | any database found: session rows kept but for a kill before the `RENAME` of migration 7, refused databases untouched, and unless a script was killed all come up complete |
| `setup` | 2 researchers, 3 banks (1 legacy), 2 runs, 1 session, 1 backup | 632 thousand | links unambiguous, promises kept, sessions playable, banks usable, archives whole |
| `data` | 4 trials (practice, 2 blocks), 1 fault, windows 2 and 3 | 1.4 million | features follow answers, reports join, included sessions whole, warnings true, manifest not ahead |
| `session_race_reopened` | 2 handlers, practice + 1 block | stops at the violation | *violation*: a late start reopens a finalized session |
| `startup_torn` | 2 services, 1 kill, starts beside scripts | stops at the violation | *violation*: a half bootstrapped SQLite database never starts |
| `restore` | 1 researcher, 2 banks, 1 run, 1 session, stopped service | stops at the violation | *violation*: a session under way is not served after a restore |

*Why the bounds are enough.*  A race of this code is between one handler that holds a stale
read and another that moved on, so two handlers show each of them; a third tab adds
only more of the same, and the theorems hold for any number.  Two blocks are needed for
the gate to have an earlier and a later block, practice for the two initial stages;
two answers let a retry carry another one.  Three sessions let two browsers each create one and one of them
lose an answer and create again.  Five items over four blocks give shares with and without
remainder, empty quotas, and banks with too few of either kind.  Two researchers and two runs are
what a race for a slug takes; the third bank makes runs of two banks, of a bank and
practice, and of mixed families (`LateUploads = FALSE`: banks are uploaded before the first form, a bank row
never changes).  Three starts are one more than the two
services that are deployed; two kills meet every pair of statements, and a failed start is repeated without bound.  In `data` the windows of the
code, 3 and 5, are 2 and 3 so that four trials are more than both.  After a restore no new rows are followed
(`NothingNew`), so that a position in a table names one row throughout.

Deadlock is checked except in `setup`, `restore` and `data`, where the bounds end the requests
and nobody is obliged to go on.  Handlers, browsers, sessions and items are symmetric where the
configuration says so.

Each property of a passing run has a mutant in `PROJECT.json`: a variant of one
definition, defined above it in the module, that plays a plausible slip in the code and
makes TLC report the property violated.

*Properties that hold only without overlap.*  `SessionLifecycle`, `NoLifecycleAnomaly`,
`QuestionnaireGate`, `CompletedAnswersFrozen`, `RunLifecycle` and `OpenSessionKept` are
checked with one handler: overlapping requests break each of them, because the code has no
row lock, no conditional UPDATE and no transaction around a handler.  `session_race_reopened`
shows the mechanism; a closed run that is reopened by a late pause, a session created in a run that was paused in
between, and a decision that is recomputed by a second tab are the same.  Which state survives overlap is
what `session_race` and `run_race` are about, and `web` says what overlap means in practice: a
single tab overlaps only with its own lost requests, and then the decision on the page and
the stored one are made from the same trials (`ShownCountsEarlier`), because the lost original counts the
same completed trials as the retry.  Whether they are the same decision is another matter (section 3, `ParticipantSession`).

*Fairness.*  `WebSpec`: weak fairness of `Send`, `Refused`, `Enter`, `Resume`,
`Progress` and `Handle(h)`, a request in flight is served unless it is one of the finitely many failures;
strong fairness of `Advance` and `Retry`, the participant goes on and presses a button that is offered again
and again (strong, because the buttons are disabled while the page loads).  Nothing obliges a
participant to reload or restart, so `Finishes` has the premise that the participant does not stay on a stranded entry page.
`Started` has the premise that no SQLite script was killed.  `ServiceStartup!Spec`: weak fairness of each service's `Step`, a
process runs on, and one that failed is started again by `restart: unless-stopped`
(`deploy/compose.staging.yml` 4, 21, 45).  The other specifications state none.

## 5. Proofs

TLAPS checks, for every value of the constants that satisfies the assumptions in the modules:

| Theorem | Says |
|---|---|
| `ParticipantSessionProofs!TypeCorrect` | `Spec => []TypeOK` |
| `InductiveInvariant` | `Spec => []Inductive` |
| `EvidenceIsComplete`, `TrialsServedInOrder`, `ProgressIsReached` | three safety properties of `session_race`, for any plan and number of handlers, any client |
| `SubmittedSessionsAreDone`, `LedgerRefinement` | submitted sessions are complete, and `WorkLedger` is implemented, for a client with `ClientWaits = TRUE` |
| `SequentialInvariant`, `LifecycleIsSound`, `GateHolds`, `AnswersAreFrozen`, `LifecycleRefinement` | all of `session_sequential`: no anomaly, the gate, frozen answers, `SessionLifecycle` implemented (this last for `ClientWaits = TRUE`), with one handler, any plan and any crashes |
| `ParticipantWebProofs!WebInvariant`, `PageIsAlwaysUsable`, `CompletionAlwaysStored`, `ShownAlwaysCountsEarlier` | the safety properties of `web`, for any plan and any number of handlers and failures |
| `PageIsClient`, `PageSubmitsWhatIsDone`, `PageFillsLedger` | `WebSpec => Spec`; driven by the page a session keeps `SubmittedMeansDone` and implements `WorkLedger`, whatever `ClientWaits` is |
| `RunEntryProofs!TypeCorrect`, `SessionsAfterLaunch`, `TokensHaveSessions` | the invariants of `RunEntry` for any number of handlers, browsers, sessions |
| `LifecycleRefinement`, `OpenSessionIsKept` | `RunLifecycle` is implemented and open sessions are kept, with one handler |
| `TrialPlanProofs!PlanInvariant`, `TypeCorrect`, `SupplySuffices`, `AllItemsOnce`, `AdviceIsSpread` | all of run `trial_plan`, for any finite banks and any number of blocks |
| `ServiceStartupProofs!TypeCorrect`, `RefusedIsUntouched` | `TypeOK` and `RefusedUntouched` for any number of services, tables and crashes, starts beside scripts or not |
| `SessionsKept`, `ReadyServes` | `RowsKept` and `ReadyIsServable`, with no assumption about scripts beyond what the properties say |
| `BackupRestoreProofs!TypeCorrect`, `BanksAreUsable` | `TypeOK` and `BanksUsable` for any files, forms, researchers and bounds, through any backups and restores |
| `PromisesAreKept`, `SessionsArePlayable`, `ArchivesAreWhole` | the properties of `setup` about runs, sessions and archives before a restore, uploads at any time (`LateUploads`), service stopped or not (`Quiet`), any number of backups |
| `InvitesAlwaysResolve` | `InvitesResolveBefore` for any number of researchers, files, forms, under `~OverlappingRepairs` |
| `RunExtractProofs!ExtractInvariant`, `TypeCorrect`, `ManifestFollowsFiles`, `IncludedSessionsAreWhole` | `TypeOK`, `ManifestNotAhead` and `IncludedIsWhole` for any plan, any answers, any number of cut-off requests and reports |
| `RunExtractJoinProofs!JoinInvariant`, `FeaturesAlwaysFollow` | `FeaturesFollowAnswers`: every trial is routed by the final answers of the trials before it, for any plan, windows and answers |
| `ExtractAlwaysJoins`, `WarningsAlwaysTrue` | `ExtractJoins` and `WarningsAreTrue`, for any plan, any answers, any moment of the reads |

*The session.*  The properties alone are not inductive: a
handler between two statements is about to write what an earlier read justified.
`HandlerOK(h)` states, for each label, what the handler may still rely on (a submission past its
first event has logged it; a handler that picked trial `t` saw all earlier ones completed; a
handler about to write `awaiting_final_submit` or `finalized` has seen all work done).
It survives other handlers because each of these facts is about rows that only grow:
`completed`, `answered`, `events` and the set of decided trials are monotone, and
`snapshot` never becomes false.  The formula `Grows` states this once, each action is then
checked against its own conjuncts, and the other handlers keep theirs by monotonicity.
What is *not* in the invariant is as telling: nothing follows from a status or a stage
read earlier, because those columns move back.
`WaitingOK` is the part that needs a client that waits for its trials: that work is done between the
two eligibility reads and the write, and what the row then says.  `WaitingStep` proves it of one step
from the hypothesis that this step is patient (`Patient(h)`), so that `ClientWaits` and the page
can both supply it.
The lemmas at the head of `ParticipantSessionProofs` supply that a non-empty set of trials has a first
and a last element, which `next_trial` (first pending) and `update_progress` (last completed) rely on.

*The session without overlap.*  Here something does follow from what was read.  `SeqInv` adds to
`Inductive`, for each label, that what the only handler read is still so: a start that found
the row `created` still finds it `created`, a submission that passed the duplicate check is still
for a pending trial, a trial that passed the gate has its earlier blocks answered.  The hypothesis is
`OneHandler` and nothing else about the requests: they may die between any two statements and be
repeated.  The two-handler counterexample of `session_race_reopened` shows that it is needed.

*The page.*  `WebInv` adds to the session's invariant what the page shows (`Shows`), which page
waits for which request (`Sends`), and that the handler which serves it is at a statement of that
request (`Serves`).  Requests that the page gave up are among the other handlers and may do anything a
handler may do.  The hard part is the trial on the page: an abandoned `next-trial` for it
may still be about to store a decision of its own.  `Newest(t)` says that no trial after `t` is completed or being
submitted; it holds for the first pending trial, because a submission has all earlier trials completed
behind it (`FetchOK`), and it lasts because the page submits no later one before it leaves `t`.
Every decision of `t`, stored or about to be, counts all trials before `t` and only completed ones
(`CountsTo`), so while `t` is the newest there is exactly one such set, and the second decision counts the
same trials as the first.
The page sends a questionnaire or the final submit only from a page that says that the session has
its rows, hence `Patient(h)`, `WaitingOK`, and the ledger without the assumption about clients.  TLC checked
`WebInv` on the instance of `web`, and on the first 8 million states with 3 handlers and 4 failures.

*The trial plan.*  `PlanInv` says that what later blocks still need of each kind of item is
exactly what is left of it, and that the items placed and the items left make up the banks.  The shares
of the blocks telescope (`EvenStep`, `UptoEnds`), and the quota of a block is never more than its size, because
shares are monotone in what is shared (`EvenMonotone`); so the cap in `BlockWrong` never bites and no pool is empty when it is asked (`StarveNever`).

*The start.*  On a database that no service can upgrade, a start gets no further than its first
transaction: it is refused when it reads, or, with sessions that have no run, it fails at
migration 5 before its first commit.  `FirstTransaction` says this of every service.
On a database that can be upgraded, `UpgradeInv` describes what is on disk between two commits: the tables and
columns of exactly one version, or those of the next one with its script committed and
its row in `schema_migrations` not yet written, in which case one start holds the lock and
is about to write it.  A start that waits, reads or validates is allowed to know no more than a version
that was once current.  `UpgradeInv` claims this while the scripts are whole, and `ReadyIsServable` follows.  The sessions need less: `RowsInv` follows them through a killed script.  They are in the
table, or, from the last but one statement of a script on, in the copy as well (`ScriptRows`); after a kill before the
`RENAME` of migration 5 they are in the copy alone (`OnlyCopy`), from which no start goes on, because migration 5 reads
the table first.  Only migration 7 has a first statement that drops the copy.  A kill before the `RENAME` of
migration 7, or a start beside a script, makes `scripts` "torn", and nothing is claimed from then on.

*The reports.*  A report is a list of statements worked off one by one, each reading another moment of
tables that are being written.  `ExtractInv` says at which statement of its plan a report stands (`At`) and what it
may rely on there: a session it has read as finalized, which is the first table it reads, gets no further
row, so what it reads later of that session is everything (`SeenWhole`); and on the way to the manifest
each file covers the summaries read before (`Exported`), which is at least what the previous manifest
counted, because the extract and the derived tables are written before it.  A file under `torn` is excused, and a manifest
under it counts nothing, so that an export may also die inside a file.
Every value that stands for "nothing" must differ from the real ones, which the model values of a configuration
do by nature: `NullAssumption` and `NoneAssumption` say so for the proof.

*The answers and the extracts.*  `JoinInv` adds to `ExtractInv` what the rows hold and how the tables of
one load fit together.  `Routed`: a trial is served after all earlier ones are completed, with the decision
of its bucket and with features that `Follow` the summaries of its window.  It lasts because a
submission is only for a served trial that is not completed, so the summaries a stored feature counts are final.
`Evidence` ties the events to the summaries of the completed trials and to the request under way, which
is what makes a repeated submission harmless after a cut-off one; `ClicksFit` says that without a cut-off
a click is of the answer that counts, the part of `FeaturesFollowAnswers` that holds for `faults = 0` only.
`SeenJoins` compares what a report has read with what is stored now: the trial rows it saw
are those of an `Earlier` moment, and of the trials it saw completed it has the final summary and events,
of those it saw decided the questionnaires of the blocks before.  It rests on the order of the reads alone (`TrialsFirst`):
TLC violates `ExtractJoins` when summaries are read before trials.
The features are taken over the latest `n` of the completed trials; `NthOfFirst` and
`RecentIsLatest` say that, with exactly the earlier trials completed, these are `t - 1`, `t - 2` and so on.
The sums of the analysis and of the budget flags are folds over finite sets, for which no induction
theorem can be used.  `SumUnfolds` names the partial sums instead and `SumIsTotal` takes a
minimal set on which they could be wrong; `CommissionsCounted` and `BudgetBounded` follow, set by disjoint set.
TLC checked `JoinInv` on the instance of `data`.

*Set-up and backups.*  Three invariants carry `BackupRestoreProofs`.  `RowsInv` types every row that is
stored, held by a handler, read by a running backup or archived, and holds for ever: a restore gives back
typed rows because `Select` loses columns and not types.  Part of it is that a bank which a run may
use is `Usable`, which is where the checks of an upload pay off (`GoodRow`, `UploadedBank`).  `ServiceInv` holds
until a restore.  Its reason is one of monotonicity again: banks are only added
(`BanksGrow`) and no request changes the design of a run (`SameDesign`), so whatever
`Launchable`, the counts and the snapshot of a run say, they go on saying (`LaunchableKept`, `CountsKept`,
`SnapshotKept`).  A session therefore has no trials or exactly those of its run (`SessionSound`), their number
is the promised one (`SnapshotCount`), and each is attributed to one bank that holds its item
(`RowsIntact`).  For the archives it says that sessions under way in a copy are under way in the service
(`UnderWay`), and have in the copy the trials they have there (`Whole`): it holds when the trials are read after the
sessions, and from then on because the trials of a session under way never change.  After a restore none of
this holds, as `restore` shows.  TLC checks `RowsInv` and `ServiceInv` on the
instance of `setup`, and with two sessions, two backups and late uploads on the first 2.4 million states.

*The links.*  `LinkInv`: slugs of two runs differ, a link has its run's slug, a handler about to write has
chosen one, and a row under repair has one repairer and no slug yet.  Uniqueness survives
the stale choice only because the INSERT and the UPDATE are refused by the unique index.

*Only model-checked.*  Every invariant and action property of the passing runs is stated by a theorem.
What is left to TLC is out of the prover's reach: liveness under fairness (`Finishes`, `Started`) and
`ENABLED`.  `LatencyBucket` is compared as a whole: that the bucket is computed from the right latencies is proved,
what the median of a list is, is not.

## 6. What could follow

`TrialLog` with overlapping requests.

## 7. Not modelled, and why

- `sim/`, `models/`, `experiments/`, `reports/`, `legacy_seed/`, the paper: offline numerics in floating
  point, generated tables; not part of the running service.
- `scripts/pilot_prelaunch_gate.py`, `pilot_restore_drill.py`: command line checks of a deployment, process
  and network I/O.  The drill compares numbers of rows, which a restore does preserve.
- The researcher web: pages over the researcher API without state that outlives a page.
- Login sessions of researchers: a cookie's row is written and deleted by one browser each; only
  the bootstrap of the first account is shared between processes.
- The merge of configuration dictionaries (`run_config_service.py`), CSV parsing of the offline analysis,
  the text of reports: pure data conversions no property here depends on.
- `pilot/stimulus_validation.py`: called by a test only.
- Containers and proxies, except for the restart policy.
