------------------------------ MODULE RunSetup ------------------------------
(***************************************************************************)
(* From uploaded banks to playable sessions: upload                        *)
(* (stimulus_service.py), preview, creation and activation of runs         *)
(* (run_service.py), creation and start of sessions (session_service.py)   *)
(* and the integrity check before every trial (trial_service.py).          *)
(*                                                                         *)
(* Requests of the researcher application overlap: a handler chooses a     *)
(* slug in one statement and writes it in another, and every read of a run *)
(* (get_run) repairs a row that has no slug yet, rows of databases older   *)
(* than migration 3.  Reads of banks are merged with the statement that    *)
(* uses them, for a bank row never changes.  The order of trials is        *)
(* TrialPlan's, the steps within a session ParticipantSession's.           *)
(***************************************************************************)
EXTENDS StimulusBank, SequencesExt

CONSTANTS
    Researchers,    \* threads of the researcher application
    Files,          \* sequences of lines that may be uploaded
    Forms,          \* run forms that may be submitted
    NConditions,    \* length of a row of latin_square_orders.yaml
    WithLegacyRun,  \* whether the database comes from before migration 3
    OverlappingRepairs, \* whether two requests may repair one such row at once
    LateUploads,    \* whether banks are uploaded after the first form, too
    MaxBanks, MaxRuns, MaxSessions

\* _slugify gives a name its base, <<>> if nothing is left of it
ASSUME FormAssumption ==
    Forms \subseteq [base : Seq(Nat), experiment : STRING, family : STRING, sets : Seq(Nat),
                     practice : Nat, multi : BOOLEAN, nBlocks : Nat]

ASSUME FileAssumption == Files \subseteq Seq(Lines)

ASSUME BoundAssumption ==
    /\ NConditions \in Nat /\ WithLegacyRun \in BOOLEAN
    /\ MaxBanks \in Nat \ {0} /\ MaxRuns \in Nat \ {0} /\ MaxSessions \in Nat

VARIABLES
    banks,      \* researcher_stimulus_sets, in order of creation
    runs,       \* researcher_runs, in order of creation
    sessions,   \* participant_sessions, in order of creation
    trials,     \* session_trials
    invites,    \* <<slug, run>>: the invite links answered to researchers
    pc, frame   \* program counter and local values of the researchers' handlers

setupVars == <<banks, runs, sessions, trials, invites, pc, frame>>

NoSlug == <<>>
NoBank == 0

\* a row of a database older than migration 3
LegacyRun(base) ==
    [base |-> base, slug |-> NoSlug, status |-> "draft", experiment |-> "legacy", family |-> "",
     sets |-> <<1>>, practice |-> NoBank, multi |-> FALSE, nBlocks |-> 0, promised |-> FALSE]

LegacyRows == IF WithLegacyRun THEN 1 ELSE 0

NoFrame == [run |-> 0, row |-> LegacyRun(NoSlug)]

\* <<base>> and its numbered variants, "pilot", "pilot-2", ...
Slug(base, n) == IF n = 1 THEN base ELSE Append(base, n)

SlugTaken(slug) == \E r \in DOMAIN runs : runs[r].slug = slug

\* the loop of _build_unique_public_slug; slugs are only added, so the last
\* of its reads decides
FreeSlug(base) ==
    Slug(base, CHOOSE n \in 1..Len(runs) + 1 :
                   /\ ~SlugTaken(Slug(base, n))
                   /\ \A k \in 1..n - 1 : SlugTaken(Slug(base, k)))

-----------------------------------------------------------------------------
(* The run summary and the checks of a selection of banks.                 *)

\* the items of the known banks of a list, by their places in it
Slots(sets) ==
    UNION {{k} \X DOMAIN banks[sets[k]].items : k \in {j \in DOMAIN sets : sets[j] \in DOMAIN banks}}

ItemAt(sets, slot) == banks[sets[slot[1]]].items[slot[2]]

PracticeSets(run) == IF run.practice = NoBank THEN <<>> ELSE <<run.practice>>

MainCount(run) == Cardinality(Slots(run.sets))
ExpectedTrials(run) == Cardinality(Slots(PracticeSets(run))) + MainCount(run)

BlocksFilled(run) == run.nBlocks > 0 /\ MainCount(run) >= run.nBlocks

ModeFits(run) ==
    /\ ~run.multi => Len(run.sets) = 1
    /\ run.multi => Len(run.sets) >= 2

NoOverlap(run) == run.practice \notin ToSet(run.sets)

Launchable(run) ==
    /\ Given(run.experiment) /\ Given(run.family)
    /\ run.sets # <<>> /\ ModeFits(run) /\ NoOverlap(run)
    /\ ExpectedTrials(run) > 0 /\ BlocksFilled(run)
    /\ \A b \in ToSet(run.sets) :
          /\ b \in DOMAIN banks
          /\ banks[b].family = run.family
          /\ banks[b].status \in RunCompatible
          /\ DOMAIN banks[b].items # {}

-----------------------------------------------------------------------------
(* Preview and creation of a run.  A form is                               *)
(* [base, experiment, family, sets, practice, multi, nBlocks]; family ""   *)
(* leaves it to the banks, nBlocks 0 stands for a configuration without    *)
(* executable fields.                                                      *)

SelectedBanks(form) == ToSet(form.sets) \cup ToSet(PracticeSets(form))

BankFamilies(form) == {banks[b].family : b \in SelectedBanks(form) \cap DOMAIN banks}

ResolvedFamily(form) ==
    IF Given(form.family) THEN form.family
    ELSE IF Cardinality(BankFamilies(form)) = 1
         THEN CHOOSE f \in BankFamilies(form) : TRUE ELSE ""

\* what the preview accepts and create_run then stores
Previewed(form) ==
    /\ form.base # <<>> /\ Given(form.experiment) /\ form.nBlocks > 0
    /\ form.sets # <<>> /\ ModeFits(form) /\ NoOverlap(form)
    /\ \A b \in SelectedBanks(form) : b \in DOMAIN banks /\ banks[b].status \in RunCompatible
    /\ BankFamilies(form) = {ResolvedFamily(form)}

\* "run can be activated once created", the launchability part of the preview
Promised(form) == Launchable([form EXCEPT !.family = ResolvedFamily(form)])

\* A mutant: the family that was asked for is stored, not the resolved one.
CreatedAsAsked(form, slug) ==
    [base |-> form.base, slug |-> slug, status |-> "draft", experiment |-> form.experiment,
     family |-> form.family, sets |-> form.sets, practice |-> form.practice,
     multi |-> form.multi, nBlocks |-> form.nBlocks, promised |-> Promised(form)]

\* the row that create_run inserts; promised keeps what the preview said
Created(form, slug) ==
    [base |-> form.base, slug |-> slug, status |-> "draft", experiment |-> form.experiment,
     family |-> ResolvedFamily(form), sets |-> form.sets, practice |-> form.practice,
     multi |-> form.multi, nBlocks |-> form.nBlocks, promised |-> Promised(form)]

\* preview_run and the choice of the slug
BeginCreate(h, form) ==
    /\ pc[h] = "idle" /\ Len(runs) < MaxRuns
    /\ Previewed(form)
    /\ frame' = [frame EXCEPT ![h] = [run |-> 0, row |-> Created(form, FreeSlug(form.base))]]
    /\ pc' = [pc EXCEPT ![h] = "insert"]
    /\ UNCHANGED <<banks, runs, sessions, trials, invites>>

\* A mutant: no unique index.
FinishCreateUnindexed(h) ==
    /\ pc[h] = "insert" /\ Len(runs) < MaxRuns
    /\ runs' = Append(runs, frame[h].row)
    /\ invites' = invites \cup {<<frame[h].row.slug, Len(runs) + 1>>}
    /\ pc' = [pc EXCEPT ![h] = "idle"]
    /\ frame' = [frame EXCEPT ![h] = NoFrame]
    /\ UNCHANGED <<banks, sessions, trials>>

\* the INSERT, which the unique index on public_slug refuses for a slug that
\* another request took in the meantime
FinishCreate(h) ==
    /\ pc[h] = "insert" /\ Len(runs) < MaxRuns
    /\ ~SlugTaken(frame[h].row.slug)
    /\ runs' = Append(runs, frame[h].row)
    /\ invites' = invites \cup {<<frame[h].row.slug, Len(runs) + 1>>}
    /\ pc' = [pc EXCEPT ![h] = "idle"]
    /\ frame' = [frame EXCEPT ![h] = NoFrame]
    /\ UNCHANGED <<banks, sessions, trials>>

\* the same statement refused, no base for a slug, or a crash: an error
\* answers the request
FailRequest(h) ==
    /\ pc[h] # "idle"
    /\ pc' = [pc EXCEPT ![h] = "idle"]
    /\ frame' = [frame EXCEPT ![h] = NoFrame]
    /\ UNCHANGED <<banks, runs, sessions, trials, invites>>

-----------------------------------------------------------------------------
(* get_run: every look at a run gives a slug to a row without one.         *)

ReadRun(h, r) ==
    /\ pc[h] = "idle" /\ runs[r].slug = NoSlug
    /\ OverlappingRepairs \/ \A g \in Researchers : pc[g] \in {"probe", "update"} => frame[g].run # r
    /\ frame' = [frame EXCEPT ![h] = [run |-> r, row |-> runs[r]]]
    /\ pc' = [pc EXCEPT ![h] = "probe"]
    /\ UNCHANGED <<banks, runs, sessions, trials, invites>>

ProbeSlug(h) ==
    /\ pc[h] = "probe" /\ frame[h].row.base # <<>>
    /\ frame' = [frame EXCEPT ![h].row.slug = FreeSlug(frame[h].row.base)]
    /\ pc' = [pc EXCEPT ![h] = "update"]
    /\ UNCHANGED <<banks, runs, sessions, trials, invites>>

UpdateSlug(h) ==
    LET r == frame[h].run
        slug == frame[h].row.slug
    IN /\ pc[h] = "update"
       /\ \A q \in DOMAIN runs \ {r} : runs[q].slug # slug
       /\ runs' = [runs EXCEPT ![r].slug = slug]
       /\ invites' = invites \cup {<<slug, r>>}
       /\ pc' = [pc EXCEPT ![h] = "idle"]
       /\ frame' = [frame EXCEPT ![h] = NoFrame]
       /\ UNCHANGED <<banks, sessions, trials>>

-----------------------------------------------------------------------------
(* Requests of one statement that changes the database.                    *)

Upload(file) ==
    /\ Len(banks) < MaxBanks
    /\ ~LateUploads => Len(runs) = LegacyRows /\ \A h \in Researchers : pc[h] = "idle"
    /\ Readable(file)
    /\ Verdict(Rows(file)) \in RunCompatible
    /\ banks' = Append(banks, Bank(Rows(file)))
    /\ UNCHANGED <<runs, sessions, trials, invites, pc, frame>>

\* transition_run_status; pausing and the races of transitions are RunEntry's
Activate(r) ==
    /\ runs[r].status = "draft"
    /\ Launchable(runs[r])
    /\ runs' = [runs EXCEPT ![r].status = "active"]
    /\ UNCHANGED <<banks, sessions, trials, invites, pc, frame>>

Close(r) ==
    /\ runs[r].status = "active"
    /\ runs' = [runs EXCEPT ![r].status = "closed"]
    /\ UNCHANGED <<banks, sessions, trials, invites, pc, frame>>

CreateSession(r) ==
    /\ runs[r].status = "active" /\ Len(sessions) < MaxSessions
    /\ sessions' = Append(sessions, [run |-> r, status |-> "created",
                                     expected |-> ExpectedTrials(runs[r])])
    /\ UNCHANGED <<banks, runs, trials, invites, pc, frame>>

-----------------------------------------------------------------------------
(* The start of a session: the snapshot of its trials.                     *)

Holds(b, id) == \E i \in DOMAIN banks[b].items : banks[b].items[i].id = id

\* the last bank that holds the item, main banks first: source_map
SourceBank(run, id) ==
    IF run.practice # NoBank /\ Holds(run.practice, id) THEN run.practice
    ELSE run.sets[Max({k \in DOMAIN run.sets : Holds(run.sets[k], id)})]

\* A mutant: every trial is attributed to all banks of the run.
TrialRowsPooled(s, run, sets, block) ==
    {[session |-> s, slot |-> slot, item |-> ItemAt(sets, slot), block |-> block,
      sources |-> ToSet(run.sets) \cup ToSet(PracticeSets(run))] : slot \in Slots(sets)}

\* the place of its item tells a row from the others of its session and block
TrialRows(s, run, sets, block) ==
    {[session |-> s, slot |-> slot, item |-> ItemAt(sets, slot), block |-> block,
      sources |-> {SourceBank(run, ItemAt(sets, slot).id)}] : slot \in Slots(sets)}

Snapshot(s, run) ==
    TrialRows(s, run, PracticeSets(run), "practice") \cup TrialRows(s, run, run.sets, "main")

TrialsOf(s) == {t \in trials : t.session = s}

\* what start_session checks before it writes; build_trial_plan indexes the
\* conditions of the assigned order by block
SnapshotPossible(run) ==
    /\ ModeFits(run) /\ BlocksFilled(run) /\ run.nBlocks <= NConditions
    /\ \A b \in SelectedBanks(run) :
          /\ b \in DOMAIN banks
          /\ banks[b].family = run.family
          /\ \A i \in DOMAIN banks[b].items : ItemValid(banks[b].items[i])

\* the number of trial rows is compared with the session row as it was read
\* at the beginning; the snapshot, if this call made it, stays either way
StartSession(s) ==
    LET run == runs[sessions[s].run]
        new == IF TrialsOf(s) = {} THEN Snapshot(s, run) ELSE {}
        agreed == Cardinality(TrialsOf(s) \cup new) = sessions[s].expected
    IN /\ sessions[s].status = "created" /\ sessions[s].run \in DOMAIN runs
       /\ SnapshotPossible(run)
       /\ agreed \/ new # {}
       /\ trials' = trials \cup new
       /\ sessions' = [sessions EXCEPT ![s].status = IF agreed THEN "in_progress" ELSE @,
                                      ![s].expected = IF new # {} THEN ExpectedTrials(run) ELSE @]
       /\ UNCHANGED <<banks, runs, invites, pc, frame>>

\* _validate_snapshot_integrity, before every trial that is served
SnapshotIntact(s) ==
    LET run == runs[sessions[s].run]
        main == ToSet(run.sets)
        all == main \cup ToSet(PracticeSets(run))
    IN /\ sessions[s].run \in DOMAIN runs
       /\ Cardinality(TrialsOf(s)) = sessions[s].expected
       /\ all \subseteq DOMAIN banks
       /\ \A t \in TrialsOf(s) :
             /\ t.sources # {} /\ t.sources \subseteq all
             /\ ItemValid(t.item)
             /\ IF t.block = "practice" THEN run.practice # NoBank /\ t.sources = {run.practice}
                ELSE t.sources \subseteq main /\ run.practice \notin t.sources
             /\ \E b \in t.sources : Holds(b, t.item.id)
-----------------------------------------------------------------------------
LegacyBank == [family |-> "", status |-> "invalid", items |-> <<>>]

SetupInit ==
    /\ banks = IF WithLegacyRun THEN <<LegacyBank>> ELSE <<>>
    /\ \E form \in Forms : runs = IF WithLegacyRun THEN <<LegacyRun(form.base)>> ELSE <<>>
    /\ sessions = <<>>
    /\ trials = {}
    /\ invites = {}
    /\ pc = [h \in Researchers |-> "idle"]
    /\ frame = [h \in Researchers |-> NoFrame]

Setup ==
    \/ \E h \in Researchers :
          \/ \E form \in Forms : BeginCreate(h, form)
          \/ FinishCreate(h) \/ FailRequest(h)
          \/ \E r \in DOMAIN runs : ReadRun(h, r)
          \/ ProbeSlug(h) \/ UpdateSlug(h)
    \/ \E file \in Files : Upload(file)
    \/ \E r \in DOMAIN runs : Activate(r) \/ Close(r) \/ CreateSession(r)
    \/ \E s \in DOMAIN sessions : StartSession(s)
-----------------------------------------------------------------------------
Slugs == (UNION {{Slug(form.base, n) : n \in 1..MaxRuns + 1} : form \in Forms}) \cup {NoSlug}

SetupTypeOK ==
    /\ Len(banks) <= MaxBanks /\ Len(runs) <= MaxRuns /\ Len(sessions) <= MaxSessions
    /\ \A b \in DOMAIN banks : banks[b].status \in RunCompatible \cup {"invalid"}
    /\ \A r \in DOMAIN runs :
          /\ runs[r].slug \in Slugs
          /\ runs[r].status \in {"draft", "active", "closed"}
          /\ runs[r].practice \in {NoBank} \cup 1..MaxBanks
    /\ \A s \in DOMAIN sessions :
          /\ sessions[s].run \in 1..MaxRuns /\ sessions[s].expected \in Nat
          /\ sessions[s].status \in {"created", "in_progress"}
    /\ \A t \in trials : t.session \in 1..MaxSessions
    /\ invites \subseteq Slugs \X (1..MaxRuns)
    /\ pc \in [Researchers -> {"idle", "insert", "probe", "update"}]
    /\ DOMAIN frame = Researchers

\* A stored bank can be shown and answered: its items have distinct ids and
\* one family, each is read back without an error and has response buttons,
\* and model_correct, from which the advice quotas are drawn, is the truth
\* about its advice (upload_stimulus_set, StimulusItem.validate).
BanksUsable ==
    \A b \in DOMAIN banks : banks[b].status \in RunCompatible =>
        LET items == banks[b].items
        IN /\ \A i, j \in DOMAIN items : items[i].id = items[j].id => i = j
           /\ \A i \in DOMAIN items :
                 /\ ItemValid(items[i])
                 /\ items[i].family = banks[b].family
                 /\ items[i].options \/ items[i].family \in BuiltinFamilies
                 /\ items[i].correct <=> items[i].prediction = items[i].label

\* Every invite link that was answered to a researcher opens the run it was
\* answered for, and no other, whatever requests chose slugs at the same
\* time (_build_unique_public_slug, create_run, get_run).
InvitesResolve ==
    \A invite \in invites : {r \in DOMAIN runs : runs[r].slug = invite[1]} = {invite[2]}

\* A run of which the preview said that it can be activated once created
\* passes the validation of the activation at any later time (preview_run,
\* _validate_launchability).
LaunchPromiseKept ==
    \A r \in DOMAIN runs : runs[r].promised => Launchable(runs[r])

\* what the validation does not look at: no more blocks than conditions, and
\* no item id both in the practice bank and in a main bank
SoundDesign(run) ==
    /\ run.nBlocks <= NConditions
    /\ \A i \in Slots(run.sets), j \in Slots(PracticeSets(run)) :
          ItemAt(run.sets, i).id # ItemAt(PracticeSets(run), j).id

\* A session that a run of sound design admitted can be played: its start
\* builds as many trials as were promised to the participant, and from then
\* on the integrity check lets every trial through (create_session,
\* _build_session_trial_snapshot, _validate_snapshot_integrity).
SessionsPlayable ==
    \A s \in DOMAIN sessions :
        LET run == runs[sessions[s].run]
        IN SoundDesign(run) =>
              CASE sessions[s].status = "created" ->
                        SnapshotPossible(run) /\ sessions[s].expected = ExpectedTrials(run)
                [] sessions[s].status = "in_progress" -> SnapshotIntact(s)
=============================================================================
