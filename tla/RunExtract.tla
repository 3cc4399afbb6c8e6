----------------------------- MODULE RunExtract -----------------------------
(***************************************************************************)
(* What the researcher reads of a session while the participant is still   *)
(* writing: RunDataService, DiagnosticsService, AdminExportService, the    *)
(* dashboard, the analysis modules that the export calls, and the          *)
(* participant API's own session export.                                   *)
(*                                                                         *)
(* Every read is an SQL statement of its own and no transaction spans two, *)
(* so one report sees each table at another moment.  The export files of a *)
(* run are overwritten one by one, each truncated first and then filled,   *)
(* and the manifest is written last.  Reports are made one at a time; one  *)
(* may die between two statements or inside a file.                        *)
(***************************************************************************)
EXTENDS TrialLog

VARIABLES
    reader,    \* the report in progress
    files,     \* artifact -> the trials it covers, None before the first export
    manifest,  \* manifest.json: the trials it counts as summarised, or None
    torn       \* the artifacts, or the manifest, that were opened and not filled

exportVars == <<files, manifest, torn>>
readerVars == <<reader, exportVars>>
vars == <<logVars, readerVars>>

Tables == {"sessions", "trials", "summaries", "events", "questionnaires"}
Loads == {"page", "panel", "run", "own"}
Artifacts == {"extract", "derived"}

\* A report: the statements to do, the load that is read and its tables, and
\* the trials its run data covers.  What an earlier load read is dropped.
Unread == [table \in Tables |-> None]
NoReader == [todo |-> <<>>, load |-> None, seen |-> Unread, covers |-> {}]

\* Mutant: summaries and events are read before the trial rows.
LoadRunReordered(load) == <<<<load, "sessions">>, <<load, "summaries">>, <<load, "events">>,
                            <<load, "trials">>, <<load, "questionnaires">>>>
\* Mutant: the session rows are read last.
LoadRunSessionsLast(load) == <<<<load, "trials">>, <<load, "summaries">>, <<load, "events">>,
                               <<load, "questionnaires">>, <<load, "sessions">>>>
\* load_run_scoped_data, statement by statement.
LoadRun(load) == <<<<load, "sessions">>, <<load, "trials">>, <<load, "summaries">>,
                   <<load, "events">>, <<load, "questionnaires">>>>

\* Mutant: the manifest is written before the files.
PersistManifestFirst ==
    <<<<"write", "manifest">>, <<"write", "extract">>, <<"write", "derived">>>>
\* _persist_run_artifacts: extracts, then derived files, and last the manifest.
Persist == <<<<"write", "extract">>, <<"write", "derived">>, <<"write", "manifest">>>>

\* The second load, which the diagnostics in pilot_summary.md are made from,
\* leaves no trace in what the files cover: LoadRun("panel") stands for it.
ExportRun == LoadRun("run") \o Persist

\* The dashboard lists the sessions, runs the diagnostics and makes an export.
Dashboard == <<<<"page", "sessions">>>> \o LoadRun("panel") \o ExportRun

\* The participant API's export of one session.
OwnExport == <<<<"own", "sessions">>, <<"own", "events">>, <<"own", "summaries">>,
               <<"own", "questionnaires">>>>

Reports == {LoadRun("panel"), ExportRun, Dashboard, OwnExport}

RunInit ==
    /\ LogInit
    /\ reader = NoReader
    /\ files = [a \in Artifacts |-> None]
    /\ manifest = None
    /\ torn = {}

\* NULL and a missing row are no table, no set of trials and no load.
ASSUME NoneAssumption ==
    /\ None \notin Loads
    /\ \A S \in SUBSET Trials : None # S
    /\ None \notin [Trials -> SummaryRows \cup {None}]

-----------------------------------------------------------------------------
(* What the reports make of what they read.                                *)

Listed(x) == x.sessions # None
Rows(x) == IF x.trials = None \/ x.trials = <<>> THEN [t \in Trials |-> Pending] ELSE x.trials
Summarised(x) == IF x.summaries = None THEN {}
                 ELSE {t \in Trials : x.summaries[t] # None}
Completed(x) == {t \in Trials : Rows(x)[t].done}

\* derive_trial_level_rows: practice trials are kept, and the index of the
\* first main block, 0, is taken for a missing one.
TrialLevel(x, t) ==
    LET s == x.summaries[t]
        wrong == ~AdviceRight[t]
        followed == s.right = AdviceRight[t]
    IN  [condition |-> Condition[t],
         correct |-> s.right,
         followedWrong |-> wrong /\ followed,
         correctOverride |-> wrong /\ ~followed /\ s.right,
         order |-> IF Block[t] = 0 \/ x.trials = <<>> THEN None ELSE Block[t],
         latency |-> s.latency]

\* compute_exclusion_flags of one session: too fast, incomplete, or without
\* any trial summary.  A payload always carries a confidence; the check for
\* one dominant response needs ten trials.
Excluded(x) ==
    LET S == Summarised(x)
        latencies == SetToSeq({<<t, x.summaries[t].latency>> : t \in S})
    IN  \/ S = {}
        \/ TwiceMedian([i \in DOMAIN latencies |-> latencies[i][2]]) < 700
        \/ x.sessions # "finalized"

\* build_participant_summary and build_mixed_effects_ready: one row per
\* condition, rates as counts.
ConditionSummary(x) ==
    [c \in {Condition[t] : t \in Summarised(x)} |->
        LET S == {t \in Summarised(x) : Condition[t] = c}
            Count(P(_)) == Cardinality({t \in S : P(TrialLevel(x, t))})
        IN  [trials |-> Cardinality(S),
             accurate |-> Count(LAMBDA r : r.correct),
             commissions |-> Count(LAMBDA r : r.followedWrong),
             overrides |-> Count(LAMBDA r : r.correctOverride),
             excluded |-> Excluded(x)]]

\* Means over the same trials: a metric is out of tolerance when the sums
\* differ by more than a fifth of the reference (of one per trial if it is 0).
Deviates(observed, reference, always) ==
    LET o == SumFunction(observed)  r == SumFunction(reference)
        apart == IF o > r THEN o - r ELSE r - o
    IN  IF r > 0 THEN 5 * apart > r ELSE always /\ 5 * apart > Cardinality(DOMAIN observed)

\* _budget_diagnostics and compare_budget_to_reference for one condition.
BudgetFlags(x, c) ==
    LET S == {t \in Completed(x) : Block[t] # -1 /\ Condition[t] = c}
        Own(k) == [t \in S |-> Rows(x)[t].decision.budget[k]]
        Expected(k) == [t \in S |-> BudgetSignature(c, Rows(x)[t].risk)[k]]
        Clicks == [t \in S |-> IF t \in Summarised(x) /\ x.summaries[t].clicked THEN 1 ELSE 0]
    IN  {k \in {"components", "display", "interaction", "provenance"} :
            Deviates(Own(k), Expected(k), FALSE)}
        \cup {k \in {"realized_steps"} : Deviates(Clicks, Expected("steps"), TRUE)}
        \cup {k \in {"hard_cap"} : \E t \in S : Own("steps")[t] > 1}

\* get_run_diagnostics.  All summaries are compared with the completed
\* trials outside practice.
Diagnose(x) ==
    (UNION {BudgetFlags(x, c) : c \in Conditions})
    \cup {w \in {"count_differs"} :
            Cardinality(Summarised(x)) # Cardinality({t \in Completed(x) : Block[t] # -1})}
    \cup {w \in {"missing_core_fields"} : \E t \in Summarised(x) : x.summaries[t].risk = None}

-----------------------------------------------------------------------------
(* The statements of a report.                                             *)

\* Of the events of a trial a report tells apart whether those of a whole
\* submission are there.
Evidenced == {t \in Trials : log[t].response # None /\ log[t].finish # None}

Current(table) ==
    CASE table = "sessions" -> status
      [] table = "trials" -> IF HasRows THEN trial ELSE <<>>
      [] table = "summaries" -> summary
      [] table = "events" -> Evidenced
      [] table = "questionnaires" -> answered

BeginReport(r) ==
    /\ reader = NoReader
    /\ reader' = [reader EXCEPT !.todo = r]
    /\ UNCHANGED <<logVars, exportVars>>

\* A run without sessions is answered without reading more, and exported as
\* empty files; a session that does not exist has no export.  What is left
\* out are the other statements of the load.
WithoutSession(load, rest) ==
    LET others == CASE load = "page" -> 0 [] load = "own" -> 3 [] load \in {"panel", "run"} -> 4
    IN  SubSeq(rest, others + 1, Len(rest))

ReadTable ==
    /\ reader.todo # <<>> /\ Head(reader.todo)[1] # "write"
    /\ LET load == Head(reader.todo)[1]  table == Head(reader.todo)[2]
           rest == Tail(reader.todo)
           before == IF reader.load = load THEN reader.seen ELSE Unread
           seen == [before EXCEPT ![table] = Current(table)]
       IN  reader' = [todo |-> IF table = "sessions" /\ status = None
                               THEN WithoutSession(load, rest) ELSE rest,
                      load |-> load,
                      seen |-> seen,
                      covers |-> IF load = "run" THEN Summarised(seen) ELSE reader.covers]
    /\ UNCHANGED <<logVars, exportVars>>

\* Path.write_text opens a file, which truncates it, and then fills it.  To
\* open what an export that died has left truncated changes nothing.
OpenFile(a) ==
    /\ reader.todo # <<>> /\ Head(reader.todo) = <<"write", a>>
    /\ a \notin torn
    /\ torn' = torn \cup {a}
    /\ files' = [files EXCEPT ![a] = {}]
    /\ UNCHANGED <<logVars, reader, manifest>>

WriteFile(a) ==
    /\ reader.todo # <<>> /\ Head(reader.todo) = <<"write", a>>
    /\ a \in torn
    /\ torn' = torn \ {a}
    /\ files' = [files EXCEPT ![a] = reader.covers]
    /\ reader' = [reader EXCEPT !.todo = Tail(@), !.seen = Unread]
    /\ UNCHANGED <<logVars, manifest>>

\* A manifest that was opened and not filled counts nothing: it is no JSON.
OpenManifest ==
    /\ reader.todo # <<>> /\ Head(reader.todo) = <<"write", "manifest">>
    /\ "manifest" \notin torn
    /\ torn' = torn \cup {"manifest"}
    /\ manifest' = None
    /\ UNCHANGED <<logVars, reader, files>>

WriteManifest ==
    /\ reader.todo # <<>> /\ Head(reader.todo) = <<"write", "manifest">>
    /\ "manifest" \in torn
    /\ torn' = torn \ {"manifest"}
    /\ manifest' = reader.covers
    /\ reader' = [reader EXCEPT !.todo = Tail(@), !.seen = Unread]
    /\ UNCHANGED <<logVars, files>>

EndReport ==
    /\ reader # NoReader /\ reader.todo = <<>>
    /\ reader' = NoReader
    /\ UNCHANGED <<logVars, exportVars>>

CutOffReport ==
    /\ reader.todo # <<>> /\ faults < MaxFaults
    /\ reader' = NoReader
    /\ faults' = faults + 1
    /\ UNCHANGED <<tables, call, exportVars>>

Next ==
    \/ LogNext /\ UNCHANGED readerVars
    \/ \E r \in Reports : BeginReport(r)
    \/ ReadTable
    \/ \E a \in Artifacts : OpenFile(a) \/ WriteFile(a)
    \/ OpenManifest \/ WriteManifest
    \/ EndReport \/ CutOffReport

Spec == RunInit /\ [][Next]_vars

-----------------------------------------------------------------------------
(* Properties.                                                             *)

TypeOK ==
    /\ LogTypeOK
    /\ reader.load \in Loads \cup {None}
    /\ reader.seen.sessions \in Statuses \cup {None}
    /\ reader.covers \subseteq Trials
    /\ files \in [Artifacts -> (SUBSET Trials) \cup {None}]
    /\ manifest \in (SUBSET Trials) \cup {None}
    /\ torn \subseteq Artifacts \cup {"manifest"}

Fully(x) == Listed(x) /\ \A table \in Tables : x[table] # None

\* Although every table is read at another moment, each trial that a run
\* extract holds as completed comes with its summary and its response and
\* completion events, and each served trial of a later block with the
\* questionnaires of the earlier blocks; and the analysis counts a commission
\* error for every blind acceptance that a trial was routed by.
ExtractJoins ==
    LET x == reader.seen IN
    Fully(x) =>
        /\ \A t \in Completed(x) :
               /\ x.summaries[t] # None
               /\ t \in x.events
        /\ \A t \in Trials : Rows(x)[t].decision # None =>
               /\ {b \in MainBlocks : b < Block[t]} \subseteq x.questionnaires
               /\ Rows(x)[t].features.blind
                     <= SumFunction([c \in DOMAIN ConditionSummary(x) |->
                                        ConditionSummary(x)[c].commissions])

\* A session that the analysis does not exclude, or that the participant's
\* own export shows as finalized, is exported whole: the extract holds the
\* summary of every trial and the questionnaire of every main block.
IncludedIsWhole ==
    LET x == reader.seen IN
    /\ Listed(x) /\ x.summaries # None /\ x.questionnaires # None
    /\ IF reader.load = "own" THEN x.sessions = "finalized" ELSE ~Excluded(x)
    => Summarised(x) = Trials /\ x.questionnaires = MainBlocks

\* What the diagnostics warn of is there.  Every budget metric that is fixed
\* by the decision equals its reference, so only what the participant clicked
\* can be out of tolerance; no summary lacks its risk bucket; and the counts
\* differ only for a practice trial or a summary whose trial was still pending.
WarningsAreTrue ==
    LET x == reader.seen IN
    Fully(x) =>
        /\ Diagnose(x) \subseteq {"realized_steps", "count_differs"}
        /\ "count_differs" \in Diagnose(x) =>
               \E t \in Summarised(x) : Block[t] = -1 \/ t \notin Completed(x)

\* A manifest that can be read never counts a trial that a file lacks which
\* was written to its end, although each export overwrites the files of the
\* last one in place and may die between two of them, when exports do not
\* overlap.  A file that an export died in is short of what the manifest of
\* the export before it counts, until the next export.
ManifestNotAhead ==
    manifest # None =>
        \A a \in Artifacts \ torn : files[a] # None /\ manifest \subseteq files[a]

=============================================================================
