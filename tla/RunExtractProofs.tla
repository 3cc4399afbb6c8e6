-------------------------- MODULE RunExtractProofs --------------------------
(***************************************************************************)
(* Proofs about RunExtract, and the writing of TrialLog below it, for any  *)
(* plan, any answers and any number of cut-off requests and reports.       *)
(*                                                                         *)
(* A report reads each table at another moment; what saves it is the order *)
(* of its statements.  The invariant therefore says where a report is in   *)
(* its plan of statements, and what it may rely on there.                  *)
(***************************************************************************)
EXTENDS RunExtract, TLAPS

-----------------------------------------------------------------------------
(* What the requests of the session have stored.                           *)

\* The trials that have a summary row.
Recorded == {t \in Trials : summary[t] # None}

\* The statements of submit_trial.
Submitting == {"logClick", "logResponse", "logFinish", "summary", "complete"}

\* The shape of the rows and of the request under way.
Shapes ==
    /\ summary \in [Trials -> SummaryRows \cup {None}]
    /\ log = [t \in Trials |-> log[t]]
    /\ \A t \in Trials :
           log[t] = [click |-> log[t].click, response |-> log[t].response, finish |-> log[t].finish]
    /\ HasRows =>
           /\ trial = [t \in Trials |-> trial[t]]
           /\ \A t \in Trials : trial[t] = [done |-> trial[t].done, features |-> trial[t].features,
                                            risk |-> trial[t].risk, decision |-> trial[t].decision]
    /\ call = [at |-> call.at, trial |-> call.trial, payload |-> call.payload]
    /\ call.at \in {"idle", "start", "await"} \cup Submitting

\* A trial is completed after its summary is written, and a session that is
\* finalized has everything and no request under way.
Stored ==
    /\ HasRows => status # None /\ \A t \in Trials : trial[t].done => t \in Recorded
    /\ status = None => Recorded = {}
    /\ call.at # "idle" => status \notin {None, "finalized"}
    /\ call.at \in Submitting =>
           /\ HasRows
           /\ call.trial \in Trials /\ call.payload \in Payloads[call.trial]
    /\ call.at = "complete" => call.trial \in Recorded
    /\ status = "finalized" => AllDone

LogInv == LogTypeOK /\ Shapes /\ Stored

-----------------------------------------------------------------------------
(* Where a report is, and what it has read.                                *)

Statements == (Loads \cup {"write"}) \X (Tables \cup Artifacts \cup {"manifest"})

\* What is left to do is the plan from its k-th statement on.
Left(todo, plan, k) ==
    /\ todo \in Seq(Statements)
    /\ Len(todo) = Len(plan) - k + 1
    /\ \A i \in 1..Len(todo) : todo[i] = plan[k + i - 1]

\* The load that is being read is of an earlier statement.
At(plan, k) ==
    /\ Left(reader.todo, plan, k)
    /\ reader.load = None \/ \E j \in 1..k - 1 : reader.load = plan[j][1]

\* What an export that has got to the k-th statement of a dashboard page has
\* done: the run data is read by the statements 7 to 11, the summaries by the
\* ninth, and the files are written from the twelfth on.
Exported(k) ==
    /\ k \in 8..11 => reader.load = "run"
    /\ k \in 10..11 /\ manifest # None => manifest \subseteq Summarised(reader.seen)
    /\ k \in 10..11 => reader.covers = Summarised(reader.seen)
    /\ k >= 12 /\ manifest # None => manifest \subseteq reader.covers
    /\ k >= 13 => files["extract"] = reader.covers
    /\ k >= 14 => files["derived"] = reader.covers

Position ==
    \/ \E k \in 1..15 : At(Dashboard, k) /\ Exported(k)
    \/ \E k \in 1..6 : At(LoadRun("panel"), k)
    \/ \E k \in 1..5 : At(OwnExport, k)

\* A session that was read as finalized is so for good, and what was read of
\* it later is all there is.
SeenWhole ==
    reader.seen.sessions = "finalized" =>
        /\ status = "finalized"
        /\ reader.seen.summaries # None => Summarised(reader.seen) = Trials
        /\ reader.seen.questionnaires # None => reader.seen.questionnaires = MainBlocks

ReaderShape ==
    /\ reader = [todo |-> reader.todo, load |-> reader.load, seen |-> reader.seen,
                 covers |-> reader.covers]
    /\ reader.seen = [table \in Tables |-> reader.seen[table]]
    /\ reader.load \in Loads \cup {None}
    /\ reader.seen.sessions \in Statuses \cup {None}
    /\ reader.seen.summaries = None \/ reader.seen.summaries \in [Trials -> SummaryRows \cup {None}]

ReaderInv ==
    /\ ReaderShape /\ Position /\ SeenWhole
    /\ Summarised(reader.seen) \subseteq Recorded /\ reader.covers \subseteq Recorded
    /\ files \in [Artifacts -> (SUBSET Trials) \cup {None}]
    /\ manifest = None \/ manifest \subseteq Recorded
    /\ torn \subseteq Artifacts \cup {"manifest"}
    /\ ManifestNotAhead

\* The inductive invariant.
ExtractInv == LogInv /\ ReaderInv

-----------------------------------------------------------------------------
(* The plans of the reports.                                               *)

\* The statements of two plans, one after the other.
Joined(u, s, t) ==
    /\ u \in Seq(Statements) /\ Len(u) = Len(s) + Len(t)
    /\ \A i \in 1..Len(s) : u[i] = s[i]
    /\ \A i \in 1..Len(t) : u[Len(s) + i] = t[i]

\* That is what the concatenation is.
LEMMA ConcatJoins ==
    ASSUME NEW s \in Seq(Statements), NEW t \in Seq(Statements)
    PROVE  Joined(s \o t, s, t)
<1>1. s \o t \in Seq(Statements)
  OBVIOUS
<1>2. Len(s \o t) = Len(s) + Len(t)
  OBVIOUS
<1>3. ASSUME NEW i \in 1..Len(s) PROVE (s \o t)[i] = s[i]
  OBVIOUS
<1>4. ASSUME NEW i \in 1..Len(t) PROVE (s \o t)[Len(s) + i] = t[i]
  OBVIOUS
<1> QED  BY <1>1, <1>2, <1>3, <1>4 DEF Joined

\* The dashboard page, statement by statement.
LEMMA DashboardPlan ==
    /\ Dashboard \in Seq(Statements) /\ Len(Dashboard) = 14
    /\ Left(ExportRun, Dashboard, 7)
    /\ Dashboard[1] = <<"page", "sessions">>
    /\ Dashboard[2] = <<"panel", "sessions">>
    /\ Dashboard[3] = <<"panel", "trials">>
    /\ Dashboard[4] = <<"panel", "summaries">>
    /\ Dashboard[5] = <<"panel", "events">>
    /\ Dashboard[6] = <<"panel", "questionnaires">>
    /\ Dashboard[7] = <<"run", "sessions">>
    /\ Dashboard[8] = <<"run", "trials">>
    /\ Dashboard[9] = <<"run", "summaries">>
    /\ Dashboard[10] = <<"run", "events">>
    /\ Dashboard[11] = <<"run", "questionnaires">>
    /\ Dashboard[12] = <<"write", "extract">>
    /\ Dashboard[13] = <<"write", "derived">>
    /\ Dashboard[14] = <<"write", "manifest">>
<1> DEFINE page == <<<<"page", "sessions">>>>  panel == LoadRun("panel")  run == LoadRun("run")
           first == page \o panel
<1>1. /\ panel \in Seq(Statements) /\ run \in Seq(Statements)
      /\ Persist \in Seq(Statements) /\ page \in Seq(Statements)
  BY DEF LoadRun, Persist, Statements, Loads, Tables, Artifacts
<1>2. Len(panel) = 5 /\ Len(run) = 5 /\ Len(Persist) = 3 /\ Len(page) = 1
  BY DEF LoadRun, Persist
<1>3. page[1] = <<"page", "sessions">>
  OBVIOUS
<1>4. ExportRun = run \o Persist /\ Dashboard = first \o ExportRun
  BY DEF ExportRun, Dashboard
<1> HIDE DEF panel, run, page
<1>5. Joined(run \o Persist, run, Persist) /\ Joined(first, page, panel)
  BY <1>1, ConcatJoins
<1> HIDE DEF first
<1>6. ExportRun \in Seq(Statements) /\ first \in Seq(Statements)
  BY <1>4, <1>5 DEF Joined
<1>7. Joined(first \o ExportRun, first, ExportRun)
  BY <1>6, ConcatJoins
<1>8. /\ Len(ExportRun) = 8
      /\ \A i \in 1..5 : ExportRun[i] = run[i]
      /\ \A i \in 1..3 : ExportRun[5 + i] = Persist[i]
  <2>1. /\ Len(ExportRun) = Len(run) + Len(Persist)
        /\ \A i \in 1..Len(run) : ExportRun[i] = run[i]
        /\ \A i \in 1..Len(Persist) : ExportRun[Len(run) + i] = Persist[i]
    BY <1>4, <1>5 DEF Joined
  <2> QED  BY <1>2, <2>1
<1>9. /\ Len(first) = 6 /\ \A i \in 1..1 : first[i] = page[i]
      /\ \A i \in 1..5 : first[1 + i] = panel[i]
  <2>1. /\ Len(first) = Len(page) + Len(panel)
        /\ \A i \in 1..Len(page) : first[i] = page[i]
        /\ \A i \in 1..Len(panel) : first[Len(page) + i] = panel[i]
    BY <1>5 DEF Joined
  <2> QED  BY <1>2, <2>1
<1>10. /\ Dashboard \in Seq(Statements) /\ Len(Dashboard) = 14
       /\ \A i \in 1..6 : Dashboard[i] = first[i]
       /\ \A i \in 1..8 : Dashboard[6 + i] = ExportRun[i]
  <2>1. /\ Dashboard \in Seq(Statements)
        /\ Len(Dashboard) = Len(first) + Len(ExportRun)
        /\ \A i \in 1..Len(first) : Dashboard[i] = first[i]
        /\ \A i \in 1..Len(ExportRun) : Dashboard[Len(first) + i] = ExportRun[i]
    BY <1>4, <1>7 DEF Joined
  <2> QED  BY <1>8, <1>9, <2>1
<1>11. Dashboard[1] = <<"page", "sessions">>
  BY <1>3, <1>9, <1>10
<1>12. \A i \in 2..6 : Dashboard[i] = panel[i - 1]
  BY <1>9, <1>10
<1>13. \A i \in 7..11 : Dashboard[i] = run[i - 6]
  BY <1>8, <1>10
<1>14. \A i \in 12..14 : Dashboard[i] = Persist[i - 11]
  BY <1>8, <1>10
<1>15. Left(ExportRun, Dashboard, 7)
  <2>1. \A i \in 1..8 : ExportRun[i] = Dashboard[7 + i - 1]
    BY <1>10
  <2> QED  BY <1>6, <1>8, <1>10, <2>1 DEF Left
<1> QED  BY <1>10, <1>11, <1>12, <1>13, <1>14, <1>15 DEF panel, run, LoadRun, Persist

\* The diagnostics and the participant's own export, statement by statement.
LEMMA ShortPlans ==
    /\ LoadRun("panel") \in Seq(Statements) /\ Len(LoadRun("panel")) = 5
    /\ \A k \in 1..5 : LoadRun("panel")[k][1] = "panel" /\ LoadRun("panel")[k][2] \in Tables
    /\ \A k \in 1..5 : LoadRun("panel")[k][2] = "sessions" => k = 1
    /\ OwnExport \in Seq(Statements) /\ Len(OwnExport) = 4
    /\ \A k \in 1..4 : OwnExport[k][1] = "own" /\ OwnExport[k][2] \in Tables
    /\ \A k \in 1..4 : OwnExport[k][2] = "sessions" => k = 1
BY DEF LoadRun, OwnExport, Statements, Loads, Tables

\* A statement that is done leaves the rest of the plan.
LEMMA Advance ==
    ASSUME NEW plan, NEW k \in 1..15, Len(plan) \in 1..14, NEW todo, Left(todo, plan, k), todo # <<>>
    PROVE  k <= Len(plan) /\ Head(todo) = plan[k] /\ Left(Tail(todo), plan, k + 1)
<1>1. todo \in Seq(Statements) /\ Len(todo) = Len(plan) - k + 1 /\ Len(todo) \in Nat /\ Len(todo) > 0
  BY DEF Left
<1>2. k <= Len(plan) /\ Head(todo) = todo[1] /\ todo[1] = plan[k]
  BY <1>1 DEF Left
<1>3. /\ Tail(todo) \in Seq(Statements) /\ Len(Tail(todo)) = Len(todo) - 1
      /\ \A i \in 1..Len(Tail(todo)) : Tail(todo)[i] = todo[i + 1]
  BY <1>1
<1>4. \A i \in 1..Len(Tail(todo)) : i + 1 \in 1..Len(todo) /\ k + (i + 1) - 1 = (k + 1) + i - 1
  BY <1>1, <1>3
<1>5. \A i \in 1..Len(Tail(todo)) : Tail(todo)[i] = plan[(k + 1) + i - 1]
  BY <1>1, <1>3, <1>4 DEF Left
<1> QED  BY <1>1, <1>2, <1>3, <1>5 DEF Left

\* So do statements that are left out.
LEMMA Skip ==
    ASSUME NEW plan, NEW k \in 1..15, Len(plan) \in 1..14, NEW todo, Left(todo, plan, k),
           NEW n \in 0..Len(todo)
    PROVE  Left(SubSeq(todo, n + 1, Len(todo)), plan, k + n)
<1>1. todo \in Seq(Statements) /\ Len(todo) = Len(plan) - k + 1 /\ Len(todo) \in Nat
  BY DEF Left
<1> DEFINE rest == SubSeq(todo, n + 1, Len(todo))
<1>2. /\ rest \in Seq(Statements) /\ Len(rest) = Len(todo) - n
      /\ \A i \in 1..Len(rest) : rest[i] = todo[i + n]
  BY <1>1
<1>3. \A i \in 1..Len(rest) : i + n \in 1..Len(todo) /\ k + (i + n) - 1 = (k + n) + i - 1
  BY <1>1, <1>2
<1> HIDE DEF rest
<1>4. \A i \in 1..Len(rest) : rest[i] = plan[(k + n) + i - 1]
  BY <1>1, <1>2, <1>3 DEF Left
<1>5. Len(rest) = Len(plan) - (k + n) + 1
  BY <1>1, <1>2
<1> QED  BY <1>2, <1>4, <1>5 DEF Left, rest

-----------------------------------------------------------------------------
(* The requests of the session.                                            *)

\* Nothing is withdrawn and a finalized session stays finalized.
Kept == Recorded \subseteq Recorded' /\ (status = "finalized" => status' = "finalized")

\* The invariant of the requests holds at first.
LEMMA LogStart == LogInit => LogInv
<1> SUFFICES ASSUME LogInit PROVE LogInv
  OBVIOUS
<1>1. MaxFaults \in Nat
  BY TrialLogAssumption
<1>2. LogTypeOK
  BY <1>1 DEF LogInit, LogTypeOK, Statuses, HasRows, Idle
<1>3. Shapes
  BY DEF LogInit, Shapes, HasRows, Idle, Submitting
<1>4. Stored
  BY NullAssumption DEF LogInit, Stored, HasRows, Recorded, Idle, Submitting, Statuses
<1> QED  BY <1>2, <1>3, <1>4 DEF LogInv

\* start_session inserts rows that are pending.
LEMMA StartInsertKeeps == ASSUME LogInv, StartInsert PROVE LogInv' /\ Kept
<1> USE DEF LogInv, StartInsert, Goto, HasRows
<1>1. call'.at = "start" /\ call'.trial = call.trial /\ call'.payload = call.payload
  BY DEF Shapes
<1>2. LogTypeOK'
  BY <1>1 DEF LogTypeOK, Pending
<1>3. Shapes'
  BY <1>1 DEF Shapes, Pending
<1>4. Stored' /\ Kept
  BY <1>1, NullAssumption DEF Stored, Kept, Recorded, Pending, Submitting, Statuses
<1> QED  BY <1>2, <1>3, <1>4

\* next_trial stores what it decided in the row of a pending trial.
LEMMA ServeStores ==
    ASSUME LogInv, NEW t \in Trials, Serve(t), NEW f, f = Lagged(t),
           NEW bucket, bucket = RiskBucket(t, f)
    PROVE  /\ HasRows /\ UNCHANGED <<status, summary, log, answered, call, faults>>
           /\ call.at = "idle" /\ status \in {"created", "in_progress"}
           /\ bucket \in Buckets
           /\ trial' = [u \in Trials |-> trial'[u]]
           /\ trial'[t] = [done |-> trial[t].done, features |-> f, risk |-> bucket,
                           decision |-> Decision(Condition[t], bucket)]
           /\ \A u \in Trials \ {t} : trial'[u] = trial[u]
<1> USE DEF LogInv, HasRows
<1> DEFINE help == Decision(Condition[t], bucket)
<1>1. bucket \in Buckets
  BY DEF RiskBucket, Buckets
<1>2. trial' = [trial EXCEPT ![t].features = f, ![t].risk = bucket, ![t].decision = help]
  BY DEF Serve
<1> HIDE DEF help
<1>3. HasRows /\ UNCHANGED <<status, summary, log, answered, call, faults>> /\ call.at = "idle"
      /\ status \in {"created", "in_progress"}
  BY DEF Serve
<1>4. trial = [u \in Trials |-> trial[u]]
  BY <1>3 DEF Shapes
<1> DEFINE row == trial[t]
           a == [trial EXCEPT ![t] = [row EXCEPT !.features = f]]
           b == [a EXCEPT ![t] = [a[t] EXCEPT !.risk = bucket]]
<1>5. row = [done |-> row.done, features |-> row.features, risk |-> row.risk,
             decision |-> row.decision]
  BY <1>3 DEF Shapes
<1>6. /\ a = [u \in Trials |-> a[u]] /\ \A u \in Trials \ {t} : a[u] = trial[u]
      /\ a[t] = [done |-> row.done, features |-> f, risk |-> row.risk, decision |-> row.decision]
  BY <1>4, <1>5
<1>7. trial' = [b EXCEPT ![t] = [b[t] EXCEPT !.decision = help]]
  BY <1>2
<1> HIDE DEF a
<1>8. /\ b = [u \in Trials |-> b[u]] /\ \A u \in Trials \ {t} : b[u] = trial[u]
      /\ b[t] = [done |-> row.done, features |-> f, risk |-> bucket, decision |-> row.decision]
  BY <1>6
<1> HIDE DEF b
<1>9. /\ trial' = [u \in Trials |-> trial'[u]] /\ \A u \in Trials \ {t} : trial'[u] = trial[u]
      /\ trial'[t] = [done |-> row.done, features |-> f, risk |-> bucket, decision |-> help]
  BY <1>7, <1>8
<1> QED  BY <1>1, <1>3, <1>9 DEF help

\* It keeps the invariant.
LEMMA ServeKeeps == ASSUME LogInv, NEW t \in Trials, Serve(t) PROVE LogInv' /\ Kept
<1> USE DEF LogInv, HasRows
<1>1. PICK f : f = Lagged(t)
  OBVIOUS
<1>2. PICK bucket : bucket = RiskBucket(t, f)
  OBVIOUS
<1>3. PICK help : help = Decision(Condition[t], bucket)
  OBVIOUS
<1>4. /\ HasRows /\ UNCHANGED <<status, summary, log, answered, call, faults>>
      /\ call.at = "idle" /\ status \in {"created", "in_progress"} /\ bucket \in Buckets
      /\ trial' = [u \in Trials |-> trial'[u]]
      /\ trial'[t] = [done |-> trial[t].done, features |-> f, risk |-> bucket, decision |-> help]
      /\ \A u \in Trials \ {t} : trial'[u] = trial[u]
  BY <1>1, <1>2, <1>3, ServeStores
<1>5. LogTypeOK'
  BY <1>4 DEF LogTypeOK, Buckets
<1>6. Shapes'
  BY <1>4 DEF Shapes
<1>7. Stored' /\ Kept
  BY <1>4 DEF Stored, Kept, Recorded, Submitting
<1> QED  BY <1>5, <1>6, <1>7

\* submit_trial remembers a payload that was submitted.
LEMMA SubmitTrialKeeps ==
    ASSUME LogInv, NEW t \in Trials, NEW p \in Payloads[t], SubmitTrial(t, p)
    PROVE  LogInv' /\ Kept
<1> USE DEF LogInv
<1>1. /\ call'.at \in {"logClick", "logResponse"} /\ call'.trial = t /\ call'.payload = p
      /\ call' = [at |-> call'.at, trial |-> call'.trial, payload |-> call'.payload]
      /\ status \notin {None, "finalized"} /\ HasRows /\ t # None
      /\ UNCHANGED <<status, trial, summary, log, answered, faults>>
  BY NullAssumption DEF SubmitTrial, tables, Stored
<1>2. LogTypeOK'
  BY <1>1 DEF LogTypeOK, HasRows
<1>3. Shapes'
  BY <1>1 DEF Shapes, HasRows, Submitting
<1>4. Stored' /\ Kept
  BY <1>1 DEF Stored, Kept, Recorded, HasRows, Submitting
<1> QED  BY <1>2, <1>3, <1>4

\* _log_event writes the row of the trial that is submitted.
LEMMA LogEventStores ==
    ASSUME LogInv, NEW from \in Submitting, NEW to \in {"logResponse", "logFinish", "summary"},
           NEW type \in {"click", "response", "finish"}, NEW value,
           LogEvent(from, type, value, to)
    PROVE  /\ call.at = from /\ UNCHANGED <<status, trial, summary, answered, faults>>
           /\ call' = [at |-> to, trial |-> call.trial, payload |-> call.payload]
           /\ HasRows /\ call.trial \in Trials /\ call.payload \in Payloads[call.trial]
           /\ log' = [t \in Trials |-> log'[t]]
           /\ \A t \in Trials \ {call.trial} : log'[t] = log[t]
           /\ log'[call.trial] =
                  [click |-> IF type = "click" THEN value ELSE log[call.trial].click,
                   response |-> IF type = "response" THEN value ELSE log[call.trial].response,
                   finish |-> IF type = "finish" THEN value ELSE log[call.trial].finish]
<1> USE DEF LogInv
<1>1. /\ call' = [at |-> to, trial |-> call.trial, payload |-> call.payload]
      /\ call.at = from /\ UNCHANGED <<status, trial, summary, answered, faults>>
  BY DEF LogEvent, Goto, Shapes
<1>2. HasRows /\ call.trial \in Trials /\ call.payload \in Payloads[call.trial]
  BY <1>1 DEF Stored, Submitting
<1>3. log' = [log EXCEPT ![call.trial] = [log[call.trial] EXCEPT ![type] = value]]
  BY DEF LogEvent
<1>4. /\ log' = [t \in Trials |-> log'[t]]
      /\ \A t \in Trials \ {call.trial} : log'[t] = log[t]
      /\ log'[call.trial] = [log[call.trial] EXCEPT ![type] = value]
  BY <1>2, <1>3 DEF Shapes
<1> DEFINE old == log[call.trial]
<1>5. old = [click |-> old.click, response |-> old.response, finish |-> old.finish]
  BY <1>2 DEF Shapes
<1>6. log'[call.trial] = [old EXCEPT ![type] = value]
  BY <1>4
<1> HIDE DEF old
<1> DEFINE new == log'[call.trial]
<1>7. new = [click |-> IF type = "click" THEN value ELSE old.click,
             response |-> IF type = "response" THEN value ELSE old.response,
             finish |-> IF type = "finish" THEN value ELSE old.finish]
  <2>1. CASE type = "click"
    <3>1. new = [click |-> value, response |-> old.response, finish |-> old.finish]
      BY <1>5, <1>6, <2>1
    <3> HIDE DEF new
    <3> QED  BY <2>1, <3>1
  <2>2. CASE type = "response"
    <3>1. new = [click |-> old.click, response |-> value, finish |-> old.finish]
      BY <1>5, <1>6, <2>2
    <3> HIDE DEF new
    <3> QED  BY <2>2, <3>1
  <2>3. CASE type = "finish"
    <3>1. new = [click |-> old.click, response |-> old.response, finish |-> value]
      BY <1>5, <1>6, <2>3
    <3> HIDE DEF new
    <3> QED  BY <2>3, <3>1
  <2> QED  BY <2>1, <2>2, <2>3
<1> QED  BY <1>1, <1>2, <1>4, <1>7 DEF old

\* It keeps the invariant.
LEMMA LogEventKeeps ==
    ASSUME LogInv, NEW from \in Submitting, NEW to \in {"logResponse", "logFinish", "summary"},
           NEW type \in {"click", "response", "finish"}, NEW value,
           type = "response" => value \in BOOLEAN, LogEvent(from, type, value, to)
    PROVE  LogInv' /\ Kept
<1> USE DEF LogInv
<1>1. /\ call.at = from /\ UNCHANGED <<status, trial, summary, answered, faults>>
      /\ call' = [at |-> to, trial |-> call.trial, payload |-> call.payload]
      /\ HasRows /\ call.trial \in Trials /\ call.payload \in Payloads[call.trial]
  BY LogEventStores
<1>2. /\ log' = [t \in Trials |-> log'[t]]
      /\ \A t \in Trials \ {call.trial} : log'[t] = log[t]
      /\ log'[call.trial] =
             [click |-> IF type = "click" THEN value ELSE log[call.trial].click,
              response |-> IF type = "response" THEN value ELSE log[call.trial].response,
              finish |-> IF type = "finish" THEN value ELSE log[call.trial].finish]
  BY LogEventStores
<1>3. \A t \in Trials :
          /\ log'[t] = [click |-> log'[t].click, response |-> log'[t].response,
                        finish |-> log'[t].finish]
          /\ log'[t].response \in {log[t].response} \cup BOOLEAN
  BY <1>1, <1>2 DEF Shapes
<1>4. LogTypeOK'
  BY <1>1, <1>3 DEF LogTypeOK, HasRows
<1>5. Shapes'
  BY <1>1, <1>2, <1>3 DEF Shapes, HasRows, Submitting
<1>6. Stored' /\ Kept
  <2>1. call.at # "idle"
    BY <1>1 DEF Submitting
  <2> QED  BY <1>1, <2>1 DEF Stored, Kept, Recorded, HasRows, Submitting
<1> QED  BY <1>4, <1>5, <1>6

\* The summary of the trial that is submitted is written.
LEMMA WriteSummaryStores ==
    ASSUME LogInv, WriteSummary
    PROVE  /\ call' = [at |-> "complete", trial |-> call.trial, payload |-> call.payload]
           /\ call.at = "summary" /\ UNCHANGED <<status, trial, log, answered, faults>>
           /\ HasRows /\ call.trial \in Trials /\ call.payload \in Payloads[call.trial]
           /\ summary' \in [Trials -> SummaryRows \cup {None}] /\ summary'[call.trial] # None
           /\ \A u \in Trials \ {call.trial} : summary'[u] = summary[u]
           /\ summary'[call.trial] =
                  [right |-> call.payload.right, clicked |-> call.payload.clicked,
                   latency |-> call.payload.latency, risk |-> trial[call.trial].risk]
<1> USE DEF LogInv
<1> DEFINE t == call.trial  p == call.payload
           new == [right |-> p.right, clicked |-> p.clicked, latency |-> p.latency,
                   risk |-> trial[t].risk]
<1>1. /\ call' = [at |-> "complete", trial |-> t, payload |-> p]
      /\ call.at = "summary" /\ UNCHANGED <<status, trial, log, answered, faults>>
      /\ summary' = [summary EXCEPT ![t] = new]
  BY DEF WriteSummary, Goto, Shapes
<1>2. HasRows /\ t \in Trials /\ p \in Payloads[t]
  BY <1>1 DEF Stored, Submitting
<1>3. new \in SummaryRows /\ new # None
  <2>1. trial[t].risk \in {"low", "moderate", "extreme"} \cup {None}
    BY <1>2 DEF LogTypeOK
  <2>2. p \in [right : BOOLEAN, clicked : BOOLEAN, latency : Nat]
    BY <1>2, TrialLogAssumption
  <2>3. new \in SummaryRows
    BY <2>1, <2>2 DEF SummaryRows
  <2> QED  BY <2>3, NullAssumption
<1> HIDE DEF new
<1>4. /\ summary' \in [Trials -> SummaryRows \cup {None}] /\ summary'[t] # None
      /\ \A u \in Trials \ {t} : summary'[u] = summary[u]
      /\ summary'[t] = new
  BY <1>1, <1>2, <1>3 DEF Shapes
<1> QED  BY <1>1, <1>2, <1>4 DEF new

\* It keeps the invariant: the summary is written before the trial is completed.
LEMMA WriteSummaryKeeps == ASSUME LogInv, WriteSummary PROVE LogInv' /\ Kept
<1> USE DEF LogInv
<1> DEFINE t == call.trial
<1>1. /\ call' = [at |-> "complete", trial |-> t, payload |-> call.payload]
      /\ call.at = "summary" /\ UNCHANGED <<status, trial, log, answered, faults>>
      /\ HasRows /\ t \in Trials /\ call.payload \in Payloads[t]
      /\ summary' \in [Trials -> SummaryRows \cup {None}] /\ summary'[t] # None
      /\ \A u \in Trials \ {t} : summary'[u] = summary[u]
  BY WriteSummaryStores
<1>2. LogTypeOK'
  BY <1>1 DEF LogTypeOK, HasRows
<1>3. Shapes'
  BY <1>1 DEF Shapes, HasRows, Submitting
<1>4. t \in Recorded' /\ Recorded \subseteq Recorded'
  BY <1>1 DEF Recorded
<1>5. Stored' /\ Kept
  BY <1>1, <1>4 DEF Stored, Kept, HasRows, Submitting, AllDone, Done
<1> QED  BY <1>2, <1>3, <1>5

\* The trial that is submitted is completed.
LEMMA WriteCompletedStores ==
    ASSUME LogInv, WriteCompleted
    PROVE  /\ call' = [at |-> "await", trial |-> None, payload |-> None]
           /\ call.at = "complete" /\ UNCHANGED <<status, summary, log, answered, faults>>
           /\ HasRows /\ call.trial \in Trials
           /\ trial' = [u \in Trials |-> trial'[u]]
           /\ trial'[call.trial] =
                  [done |-> TRUE, features |-> trial[call.trial].features,
                   risk |-> trial[call.trial].risk, decision |-> trial[call.trial].decision]
           /\ \A u \in Trials \ {call.trial} : trial'[u] = trial[u]
<1> USE DEF LogInv
<1> DEFINE t == call.trial  row == trial[t]
<1>1. /\ call' = [at |-> "await", trial |-> None, payload |-> None]
      /\ call.at = "complete" /\ UNCHANGED <<status, summary, log, answered, faults>>
      /\ trial' = [trial EXCEPT ![t] = [row EXCEPT !.done = TRUE]]
  BY DEF WriteCompleted, Idle
<1>2. HasRows /\ t \in Trials
  BY <1>1 DEF Stored, Submitting
<1>3. trial = [u \in Trials |-> trial[u]]
  BY <1>2 DEF Shapes
<1>4. row = [done |-> row.done, features |-> row.features, risk |-> row.risk,
             decision |-> row.decision]
  BY <1>2 DEF Shapes
<1> QED  BY <1>1, <1>2, <1>3, <1>4

\* It keeps the invariant: a completed trial has its summary.
LEMMA WriteCompletedKeeps == ASSUME LogInv, WriteCompleted PROVE LogInv' /\ Kept
<1> USE DEF LogInv
<1> DEFINE t == call.trial
<1>1. /\ call' = [at |-> "await", trial |-> None, payload |-> None]
      /\ call.at = "complete" /\ UNCHANGED <<status, summary, log, answered, faults>>
      /\ HasRows /\ t \in Trials
      /\ trial' = [u \in Trials |-> trial'[u]]
      /\ trial'[t] = [done |-> TRUE, features |-> trial[t].features, risk |-> trial[t].risk,
                      decision |-> trial[t].decision]
      /\ \A u \in Trials \ {t} : trial'[u] = trial[u]
  BY WriteCompletedStores
<1>2. t \in Recorded /\ status \notin {None, "finalized"}
  BY <1>1 DEF Stored, Submitting
<1>3. LogTypeOK'
  BY <1>1 DEF LogTypeOK, HasRows
<1>4. Shapes'
  BY <1>1 DEF Shapes, HasRows
<1>5. Stored' /\ Kept
  BY <1>1, <1>2 DEF Stored, Kept, Recorded, HasRows, Submitting
<1> QED  BY <1>3, <1>4, <1>5

\* The requests that write the session row or the questionnaires, or end.
LEMMA OtherRequestsKeep ==
    ASSUME LogInv,
           \/ CreateSession \/ StartWrite \/ (\E b \in MainBlocks : SubmitQuestionnaire(b))
           \/ MarkAwaiting \/ FinalSubmit \/ CutOff
    PROVE  LogInv' /\ Kept
<1> USE DEF LogInv
<1>1. /\ UNCHANGED <<trial, summary, log>> /\ call'.at \in {"idle", "start", "await"} \cup Submitting
      /\ call' = [at |-> call'.at, trial |-> call'.trial, payload |-> call'.payload]
      /\ call' = call \/ (call'.trial = None /\ call'.payload = None /\ call'.at \in {"idle", "await"})
      /\ faults' = faults \/ (faults' = faults + 1 /\ faults < MaxFaults)
  <2>1. CASE CreateSession \/ FinalSubmit
    <3>1. call' = call /\ faults' = faults /\ UNCHANGED <<trial, summary, log>>
      BY <2>1 DEF CreateSession, FinalSubmit
    <3>2. /\ call = [at |-> call.at, trial |-> call.trial, payload |-> call.payload]
          /\ call.at \in {"idle", "start", "await"} \cup Submitting
      BY DEF Shapes
    <3> QED  BY <3>1, <3>2
  <2>2. CASE StartWrite \/ MarkAwaiting
    BY <2>2 DEF StartWrite, MarkAwaiting, Idle
  <2>3. CASE \E b \in MainBlocks : SubmitQuestionnaire(b)
    BY <2>3 DEF SubmitQuestionnaire, Idle
  <2>4. CASE CutOff
    BY <2>4 DEF CutOff, tables, Idle
  <2> QED  BY <2>1, <2>2, <2>3, <2>4
<1>2. faults' \in 0..MaxFaults
  BY <1>1, TrialLogAssumption DEF LogTypeOK
<1>3. status' \in Statuses \cup {None} /\ answered' \subseteq MainBlocks
  BY DEF CreateSession, StartWrite, SubmitQuestionnaire, MarkAwaiting, FinalSubmit, CutOff,
     tables, LogTypeOK, Statuses
<1>4. LogTypeOK'
  BY <1>1, <1>2, <1>3 DEF LogTypeOK, HasRows
<1>5. Shapes'
  BY <1>1 DEF Shapes, HasRows
<1>6. /\ status # None => status' # None
      /\ status = "finalized" => UNCHANGED <<status, answered, call>>
      /\ status' = "finalized" => AllDone /\ call.at = "idle" /\ UNCHANGED <<answered, call>>
      /\ call'.at # "idle" => status' \notin {None, "finalized"}
      /\ call'.at \in Submitting => call' = call
  <2> USE NullAssumption DEF Stored, Statuses
  <2>1. CASE CreateSession
    BY <2>1 DEF CreateSession, HasRows
  <2>2. CASE FinalSubmit
    BY <2>2 DEF FinalSubmit
  <2>3. CASE StartWrite
    BY <2>3 DEF StartWrite, Idle, Submitting
  <2>4. CASE MarkAwaiting
    BY <2>4 DEF MarkAwaiting, Idle, Submitting
  <2>5. CASE \E b \in MainBlocks : SubmitQuestionnaire(b)
    <3>1. PICK b \in MainBlocks : SubmitQuestionnaire(b)
      BY <2>5
    <3>2. PICK t \in Trials : Block[t] = b
      BY DEF MainBlocks
    <3>3. HasRows
      BY <3>1, <3>2 DEF SubmitQuestionnaire, Full, Done
    <3>4. call'.at = "await" /\ status' = status /\ status # "finalized"
      BY <3>1 DEF SubmitQuestionnaire, Idle
    <3> QED  BY <3>3, <3>4 DEF Submitting
  <2>6. CASE CutOff
    BY <2>6 DEF CutOff, tables, Idle, Submitting
  <2> QED  BY <2>1, <2>2, <2>3, <2>4, <2>5, <2>6
<1>7. Stored' /\ Kept
  BY <1>1, <1>6 DEF Stored, Kept, Recorded, HasRows, Submitting, AllDone, Done
<1> QED  BY <1>4, <1>5, <1>7

\* Every request keeps the invariant.
LEMMA LogStep == ASSUME LogInv, LogNext PROVE LogInv' /\ Kept
<1>1. call.at = "logResponse" => call.payload.right \in BOOLEAN
  <2> SUFFICES ASSUME call.at = "logResponse" PROVE call.payload.right \in BOOLEAN
    OBVIOUS
  <2>1. call.trial \in Trials /\ call.payload \in Payloads[call.trial]
    BY DEF LogInv, Stored, Submitting
  <2>2. Payloads[call.trial] \subseteq [right : BOOLEAN, clicked : BOOLEAN, latency : Nat]
    BY <2>1, TrialLogAssumption
  <2> QED  BY <2>1, <2>2
<1>2. CASE LogEvent("logClick", "click", TRUE, "logResponse")
  BY <1>2, LogEventKeeps DEF Submitting
<1>3. CASE LogEvent("logResponse", "response", call.payload.right, "logFinish")
  <2>1. call.payload.right \in BOOLEAN
    BY <1>1, <1>3 DEF LogEvent
  <2> QED  BY <1>3, <2>1, LogEventKeeps DEF Submitting
<1>4. CASE LogEvent("logFinish", "finish", call.payload.latency, "summary")
  BY <1>4, LogEventKeeps DEF Submitting
<1> QED
  BY <1>2, <1>3, <1>4, StartInsertKeeps, ServeKeeps, SubmitTrialKeeps, WriteSummaryKeeps,
     WriteCompletedKeeps, OtherRequestsKeep DEF LogNext

-----------------------------------------------------------------------------
(* A report.                                                               *)

\* What the files hold.
FilesInv ==
    /\ files \in [Artifacts -> (SUBSET Trials) \cup {None}]
    /\ manifest = None \/ manifest \subseteq Recorded
    /\ torn \subseteq Artifacts \cup {"manifest"}
    /\ ManifestNotAhead

\* There is no report.
LEMMA Rested ==
    ASSUME reader = NoReader, FilesInv
    PROVE  ReaderInv
<1>1. /\ reader.todo = <<>> /\ reader.load = None /\ reader.seen = Unread /\ reader.covers = {}
      /\ reader = [todo |-> <<>>, load |-> None, seen |-> Unread, covers |-> {}]
  BY DEF NoReader
<1>2. reader.seen.sessions = None /\ reader.seen.summaries = None
  BY <1>1 DEF Unread, Tables
<1>3. ReaderShape
  BY <1>1, <1>2 DEF ReaderShape, Unread
<1>4. Left(<<>>, OwnExport, 5)
  BY ShortPlans DEF Left
<1>5. Position
  BY <1>1, <1>4 DEF Position, At
<1>6. SeenWhole /\ Summarised(reader.seen) = {}
  BY <1>2, NullAssumption DEF SeenWhole, Summarised, Statuses
<1> QED  BY <1>1, <1>3, <1>5, <1>6 DEF ReaderInv, FilesInv

\* The requests leave the report alone, and what it has read stays true.
LEMMA RequestsKeepReader ==
    ASSUME ExtractInv, LogInv', Kept, UNCHANGED readerVars
    PROVE  ReaderInv'
<1>1. UNCHANGED <<reader, files, manifest, torn>>
  BY DEF readerVars, exportVars
<1>2. ReaderShape' /\ ManifestNotAhead'
  BY <1>1 DEF ExtractInv, ReaderInv, ReaderShape, ManifestNotAhead
<1>3. Position'
  BY <1>1 DEF ExtractInv, ReaderInv, Position, At, Exported, Summarised
<1>4. SeenWhole' /\ Summarised(reader.seen)' = Summarised(reader.seen)
  BY <1>1 DEF ExtractInv, ReaderInv, SeenWhole, Summarised, Kept
<1>5. Recorded \subseteq Recorded'
  BY DEF Kept
<1> QED  BY <1>1, <1>2, <1>3, <1>4, <1>5 DEF ExtractInv, ReaderInv

\* A report begins at the first statement of its plan, an export at the
\* seventh of the dashboard's.
LEMMA BeginKeeps ==
    ASSUME ExtractInv, NEW r \in Reports, BeginReport(r)
    PROVE  ReaderInv'
<1>1. /\ reader'.todo = r /\ reader'.load = None /\ reader'.seen = Unread /\ reader'.covers = {}
      /\ reader' = [todo |-> r, load |-> None, seen |-> Unread, covers |-> {}]
      /\ UNCHANGED <<logVars, files, manifest, torn>>
  BY DEF BeginReport, NoReader, exportVars
<1>2. Unread.sessions = None /\ Unread.summaries = None
  BY DEF Unread, Tables
<1>3. ReaderShape'
  BY <1>1, <1>2 DEF ReaderShape, Unread
<1>4. SeenWhole' /\ Summarised(reader'.seen) = {}
  BY <1>1, <1>2, NullAssumption DEF SeenWhole, Summarised, Statuses
<1>5. Position'
  <2>1. CASE r = Dashboard
    <3>1. Left(Dashboard, Dashboard, 1)
      BY DashboardPlan DEF Left
    <3> QED  BY <1>1, <2>1, <3>1 DEF Position, At, Exported
  <2>2. CASE r = ExportRun
    BY <1>1, <2>2, DashboardPlan DEF Position, At, Exported
  <2>3. CASE r = LoadRun("panel")
    <3>1. Left(LoadRun("panel"), LoadRun("panel"), 1)
      BY ShortPlans DEF Left
    <3> QED  BY <1>1, <2>3, <3>1 DEF Position, At
  <2>4. CASE r = OwnExport
    <3>1. Left(OwnExport, OwnExport, 1)
      BY ShortPlans DEF Left
    <3> QED  BY <1>1, <2>4, <3>1 DEF Position, At
  <2> QED  BY <2>1, <2>2, <2>3, <2>4 DEF Reports
<1> QED
  BY <1>1, <1>3, <1>4, <1>5
  DEF ExtractInv, ReaderInv, ManifestNotAhead, Recorded, logVars

\* A report dies or is done.
LEMMA EndKeeps ==
    ASSUME ExtractInv, EndReport \/ CutOffReport
    PROVE  LogInv' /\ ReaderInv'
<1>1. reader' = NoReader /\ UNCHANGED <<tables, call, files, manifest, torn>>
      /\ (faults' = faults \/ (faults' = faults + 1 /\ faults < MaxFaults))
  BY DEF EndReport, CutOffReport, logVars, tables, exportVars
<1>2. UNCHANGED <<status, trial, summary, log, answered, call, files, manifest, torn>>
  BY <1>1 DEF tables
<1>3. FilesInv'
  BY <1>2 DEF FilesInv, ExtractInv, ReaderInv, ManifestNotAhead, Recorded
<1>4. ReaderInv'
  <2>1. (reader = NoReader)'
    BY <1>1 DEF NoReader, Unread
  <2> QED  BY <1>3, <2>1, Rested, PTL
<1>5. faults' \in 0..MaxFaults
  BY <1>1, TrialLogAssumption DEF ExtractInv, LogInv, LogTypeOK
<1>6. LogInv'
  BY <1>2, <1>5 DEF ExtractInv, LogInv, LogTypeOK, Shapes, Stored, HasRows, AllDone, Done, Recorded
<1> QED  BY <1>4, <1>6

\* The statement that comes next, in one of the three plans.
LEMMA NextStatement ==
    ASSUME ExtractInv, reader.todo # <<>>
    PROVE  \/ \E k \in 1..14 : /\ At(Dashboard, k) /\ Exported(k)
                               /\ Head(reader.todo) = Dashboard[k]
                               /\ Left(Tail(reader.todo), Dashboard, k + 1)
           \/ \E k \in 1..5 : /\ At(LoadRun("panel"), k)
                              /\ Head(reader.todo) = LoadRun("panel")[k]
                              /\ Left(Tail(reader.todo), LoadRun("panel"), k + 1)
           \/ \E k \in 1..4 : /\ At(OwnExport, k)
                              /\ Head(reader.todo) = OwnExport[k]
                              /\ Left(Tail(reader.todo), OwnExport, k + 1)
<1>1. CASE \E k \in 1..15 : At(Dashboard, k) /\ Exported(k)
  <2>1. PICK k \in 1..15 : At(Dashboard, k) /\ Exported(k)
    BY <1>1
  <2>2. Left(reader.todo, Dashboard, k) /\ Len(Dashboard) = 14
    BY <2>1, DashboardPlan DEF At
  <2>3. Len(Dashboard) \in 1..14
    BY <2>2
  <2>4. /\ k <= Len(Dashboard) /\ Head(reader.todo) = Dashboard[k]
        /\ Left(Tail(reader.todo), Dashboard, k + 1)
    BY <2>2, <2>3, Advance
  <2> QED  BY <2>1, <2>2, <2>4
<1>2. CASE \E k \in 1..6 : At(LoadRun("panel"), k)
  <2> DEFINE plan == LoadRun("panel")
  <2>1. PICK k \in 1..6 : At(plan, k)
    BY <1>2
  <2>2. Left(reader.todo, plan, k) /\ Len(plan) = 5
    BY <2>1, ShortPlans DEF At
  <2> HIDE DEF plan
  <2>3. Len(plan) \in 1..14 /\ k \in 1..15
    BY <2>2
  <2>4. /\ k <= Len(plan) /\ Head(reader.todo) = plan[k]
        /\ Left(Tail(reader.todo), plan, k + 1)
    BY <2>2, <2>3, Advance
  <2>5. k \in 1..5
    BY <2>2, <2>4
  <2> QED  BY <2>1, <2>4, <2>5 DEF plan
<1>3. CASE \E k \in 1..5 : At(OwnExport, k)
  <2>1. PICK k \in 1..5 : At(OwnExport, k)
    BY <1>3
  <2>2. Left(reader.todo, OwnExport, k) /\ Len(OwnExport) = 4
    BY <2>1, ShortPlans DEF At
  <2>3. k <= 4 /\ Head(reader.todo) = OwnExport[k] /\ Left(Tail(reader.todo), OwnExport, k + 1)
    BY <2>2, Advance
  <2> QED  BY <2>1, <2>3
<1> QED  BY <1>1, <1>2, <1>3 DEF ExtractInv, ReaderInv, Position

\* The statement that is read, and the tables the load has then.
Load == Head(reader.todo)[1]
Table == Head(reader.todo)[2]
Before == IF reader.load = Load THEN reader.seen ELSE Unread
Seen == [Before EXCEPT ![Table] = Current(Table)]

\* What reading a table does to the report.
ReadsTable ==
    /\ reader.todo # <<>> /\ Load # "write"
    /\ reader'.load = Load /\ reader'.seen = Seen
    /\ reader'.todo = (IF Table = "sessions" /\ status = None
                       THEN WithoutSession(Load, Tail(reader.todo)) ELSE Tail(reader.todo))
    /\ reader'.covers = (IF Load = "run" THEN Summarised(Seen) ELSE reader.covers)
    /\ reader' = [todo |-> reader'.todo, load |-> reader'.load, seen |-> reader'.seen,
                  covers |-> reader'.covers]
    /\ UNCHANGED <<status, trial, summary, log, answered, call, faults, files, manifest, torn>>

\* That is ReadTable.
LEMMA ReadTableReads == ReadTable => ReadsTable
BY DEF ReadTable, ReadsTable, Load, Table, Before, Seen, logVars, exportVars

\* The statement reads a table; the session rows are the first of their load.
LEMMA SessionsFirst ==
    ASSUME ExtractInv, ReadsTable
    PROVE  /\ Table \in Tables /\ Load \in Loads
           /\ Table = "sessions" => reader.load # Load
<1> USE NoneAssumption DEF ReadsTable, Load, Table, Loads, Tables
<1>1. CASE \E k \in 1..14 : At(Dashboard, k) /\ Head(reader.todo) = Dashboard[k]
  <2>1. PICK k \in 1..14 : At(Dashboard, k) /\ Head(reader.todo) = Dashboard[k]
    BY <1>1
  <2>2. k \in 1..11
    BY <2>1, DashboardPlan
  <2>3. reader.load = None \/ \E j \in 1..k - 1 : reader.load = Dashboard[j][1]
    BY <2>1 DEF At
  <2>4. CASE k \in {1, 2, 7}
    <3>1. CASE k = 1
      BY <2>1, <2>3, <3>1, DashboardPlan
    <3>2. CASE k = 2
      BY <2>1, <2>3, <3>2, DashboardPlan
    <3>3. CASE k = 7
      <4>1. reader.load = None \/ \E j \in 1..6 : reader.load = Dashboard[j][1]
        BY <2>3, <3>3
      <4>2. \A j \in 1..6 : Dashboard[j][1] \in {"page", "panel"}
        BY DashboardPlan
      <4> QED  BY <2>1, <3>3, <4>1, <4>2, DashboardPlan
    <3> QED  BY <2>4, <3>1, <3>2, <3>3
  <2>5. CASE k \in 3..6 \cup 8..11
    BY <2>1, <2>5, DashboardPlan
  <2> QED  BY <2>2, <2>4, <2>5
<1>2. CASE \E k \in 1..5 : At(LoadRun("panel"), k) /\ Head(reader.todo) = LoadRun("panel")[k]
  <2> DEFINE plan == LoadRun("panel")
  <2>1. PICK k \in 1..5 : At(plan, k) /\ Head(reader.todo) = plan[k]
    BY <1>2
  <2>2. plan[k][1] = "panel" /\ plan[k][2] \in Tables /\ (plan[k][2] = "sessions" => k = 1)
    BY ShortPlans
  <2>3. reader.load = None \/ \E j \in 1..k - 1 : reader.load = plan[j][1]
    BY <2>1 DEF At
  <2> HIDE DEF plan
  <2>4. k = 1 => reader.load = None
    BY <2>3
  <2> QED  BY <2>1, <2>2, <2>4
<1>3. CASE \E k \in 1..4 : At(OwnExport, k) /\ Head(reader.todo) = OwnExport[k]
  <2>1. PICK k \in 1..4 : At(OwnExport, k) /\ Head(reader.todo) = OwnExport[k]
    BY <1>3
  <2>2. OwnExport[k][1] = "own" /\ OwnExport[k][2] \in Tables
        /\ (OwnExport[k][2] = "sessions" => k = 1)
    BY ShortPlans
  <2>3. reader.load = None \/ \E j \in 1..k - 1 : reader.load = OwnExport[j][1]
    BY <2>1 DEF At
  <2>4. k = 1 => reader.load = None
    BY <2>3
  <2> QED  BY <2>1, <2>2, <2>4
<1> QED  BY <1>1, <1>2, <1>3, NextStatement

\* What a read finds is what the session has stored, and a session that is
\* found finalized has everything.
LEMMA SeenIsStored ==
    ASSUME ExtractInv, ReadsTable
    PROVE  /\ ReaderShape' /\ SeenWhole' /\ Summarised(Seen) \subseteq Recorded
           /\ Table = "summaries" => Summarised(Seen) = Recorded
           /\ Table = "sessions" => Summarised(Seen) = {}
           /\ Table # "summaries" /\ reader.load = Load => Summarised(Seen) = Summarised(reader.seen)
<1>1. /\ Before = [table \in Tables |-> Before[table]]
      /\ Before.sessions \in Statuses \cup {None}
      /\ Before.summaries = None \/ Before.summaries \in [Trials -> SummaryRows \cup {None}]
      /\ Summarised(Before) \subseteq Recorded
  <2>1. CASE reader.load = Load
    BY <2>1 DEF Before, ExtractInv, ReaderInv, ReaderShape
  <2>2. CASE reader.load # Load
    BY <2>2 DEF Before, Unread, Tables, Summarised
  <2> QED  BY <2>1, <2>2
<1>2. /\ Table \in Tables
      /\ Table = "sessions" => Before.summaries = None /\ Before.questionnaires = None
  BY SessionsFirst DEF Before, Unread, Tables
<1>3. Seen = [Before EXCEPT ![Table] = Current(Table)]
  BY DEF Seen
<1>4. /\ Seen = [table \in Tables |-> Seen[table]] /\ Seen[Table] = Current(Table)
      /\ \A table \in Tables \ {Table} : Seen[table] = Before[table]
  BY <1>1, <1>2, <1>3
<1>5. /\ "sessions" \in Tables /\ "summaries" \in Tables /\ "questionnaires" \in Tables
      /\ Current("sessions") = status /\ Current("summaries") = summary
      /\ Current("questionnaires") = answered
  BY DEF Tables, Current
<1>6. status \in Statuses \cup {None} /\ summary \in [Trials -> SummaryRows \cup {None}]
      /\ summary # None
  <2>1. summary \in [Trials -> SummaryRows \cup {None}] /\ status \in Statuses \cup {None}
    BY DEF ExtractInv, LogInv, LogTypeOK, Shapes
  <2> QED  BY <2>1, NoneAssumption
<1>7. /\ Seen.sessions \in Statuses \cup {None}
      /\ Seen.summaries = None \/ Seen.summaries \in [Trials -> SummaryRows \cup {None}]
  BY <1>1, <1>4, <1>5, <1>6
<1>8. reader'.seen = Seen /\ status' = status
  BY DEF ReadsTable
<1>9. ReaderShape'
  BY <1>4, <1>7, <1>8, SessionsFirst DEF ReaderShape, ReadsTable
<1>10. Table = "summaries" => Summarised(Seen) = Recorded
  BY <1>4, <1>5, <1>6 DEF Summarised, Recorded
<1>11. Table # "summaries" => Summarised(Seen) = Summarised(Before)
  BY <1>4, <1>5 DEF Summarised
<1>12. SeenWhole'
  <2>1. SUFFICES ASSUME Seen.sessions = "finalized"
                 PROVE  /\ status = "finalized"
                        /\ Seen.summaries # None => Summarised(Seen) = Trials
                        /\ Seen.questionnaires # None => Seen.questionnaires = MainBlocks
    BY <1>8 DEF SeenWhole, Summarised
  <2>2. status = "finalized" => Recorded = Trials /\ answered = MainBlocks
    BY DEF ExtractInv, LogInv, Stored, AllDone, Done, Recorded
  <2>3. /\ Before.sessions = "finalized" => status = "finalized"
        /\ Before.sessions = "finalized" /\ Before.summaries # None => Summarised(Before) = Trials
        /\ Before.sessions = "finalized" /\ Before.questionnaires # None =>
               Before.questionnaires = MainBlocks
    <3>1. CASE reader.load = Load
      BY <3>1 DEF Before, ExtractInv, ReaderInv, SeenWhole
    <3>2. CASE reader.load # Load
      BY <3>2, NullAssumption DEF Before, Unread, Tables, Statuses
    <3> QED  BY <3>1, <3>2
  <2>4. CASE Table = "sessions"
    BY <1>2, <1>4, <1>5, <2>1, <2>4
  <2>5. CASE Table = "summaries"
    BY <1>4, <1>5, <1>10, <2>1, <2>2, <2>3, <2>5
  <2>6. CASE Table = "questionnaires"
    BY <1>4, <1>5, <1>11, <2>1, <2>2, <2>3, <2>6
  <2>7. CASE Table \notin {"sessions", "summaries", "questionnaires"}
    BY <1>4, <1>5, <1>11, <2>1, <2>3, <2>7
  <2> QED  BY <2>4, <2>5, <2>6, <2>7
<1>13. Table = "sessions" => Summarised(Seen) = {}
  BY <1>2, <1>11 DEF Summarised
<1>14. reader.load = Load => Before = reader.seen
  BY DEF Before
<1> QED  BY <1>1, <1>9, <1>10, <1>11, <1>12, <1>13, <1>14

\* The statements that a load without sessions leaves out.
LEMMA LeftOutOf ==
    ASSUME NEW plan, NEW k \in 1..14, Len(plan) \in 1..14, NEW rest, Left(rest, plan, k + 1),
           NEW n \in 0..4, k + n <= Len(plan)
    PROVE  Left(SubSeq(rest, n + 1, Len(rest)), plan, k + 1 + n)
<1>1. Len(rest) = Len(plan) - (k + 1) + 1
  BY DEF Left
<1>2. n \in 0..Len(rest) /\ k + 1 \in 1..15
  BY <1>1
<1> QED  BY <1>2, Skip

\* A load without sessions moves on to the statement after it.
LEMMA LeftOut ==
    ASSUME NEW plan, NEW k \in 1..14, Len(plan) \in 1..14, NEW rest, Left(rest, plan, k + 1),
           NEW load, NEW n \in 0..4,
           n = (CASE load = "page" -> 0 [] load = "own" -> 3 [] load \in {"panel", "run"} -> 4),
           k + n <= Len(plan)
    PROVE  Left(WithoutSession(load, rest), plan, k + 1 + n)
<1>1. WithoutSession(load, rest) = SubSeq(rest, n + 1, Len(rest))
  BY DEF WithoutSession
<1> QED  BY <1>1, LeftOutOf

\* Reading moves a report on in its plan.
LEMMA ReadKeepsPosition == ASSUME ExtractInv, ReadsTable PROVE Position'
<1>1. /\ reader'.load = Load /\ reader'.seen = Seen /\ manifest' = manifest /\ files' = files
      /\ reader'.covers = (IF Load = "run" THEN Summarised(Seen) ELSE reader.covers)
      /\ Load # "write" /\ reader.todo # <<>>
  BY DEF ReadsTable
<1>2. reader'.todo = (IF Table = "sessions" /\ status = None
                      THEN WithoutSession(Load, Tail(reader.todo)) ELSE Tail(reader.todo))
  BY DEF ReadsTable
<1>3. CASE \E k \in 1..14 : /\ At(Dashboard, k) /\ Exported(k)
                            /\ Head(reader.todo) = Dashboard[k]
                            /\ Left(Tail(reader.todo), Dashboard, k + 1)
  <2>1. PICK k \in 1..14 : /\ At(Dashboard, k) /\ Exported(k)
                           /\ Head(reader.todo) = Dashboard[k]
                           /\ Left(Tail(reader.todo), Dashboard, k + 1)
    BY <1>3
  <2>2. k \in 1..11 /\ Load = Dashboard[k][1] /\ Table = Dashboard[k][2] /\ Len(Dashboard) \in 1..14
    BY <1>1, <2>1, DashboardPlan DEF Load, Table
  <2>3. ASSUME NEW l \in (k + 1)..15, Left(reader'.todo, Dashboard, l), Exported(l)'
        PROVE  Position'
    <3>1. \E j \in 1..l - 1 : reader'.load = Dashboard[j][1]
      BY <1>1, <2>2
    <3>2. l \in 1..15
      BY <2>1
    <3> QED  BY <2>3, <3>1, <3>2 DEF Position, At
  <2>4. CASE Table = "sessions" /\ status = None
    <3>1. k \in {1, 2, 7}
      <4>1. \A i \in 3..6 \cup 8..11 : Dashboard[i][2] # "sessions"
        BY DashboardPlan
      <4>2. k \notin 3..6 \cup 8..11
        BY <2>2, <2>4, <4>1
      <4> QED  BY <2>2, <4>2
    <3>2. CASE k = 1
      <4>1. Left(reader'.todo, Dashboard, k + 1 + 0)
        <5>1. Load = "page" /\ k + 0 <= Len(Dashboard)
          BY <2>2, <3>2, DashboardPlan
        <5> QED  BY <1>2, <2>1, <2>2, <2>4, <5>1, LeftOut
      <4>2. Exported(2)'
        BY DEF Exported
      <4> QED  BY <2>3, <3>2, <4>1, <4>2
    <3>3. CASE k = 2
      <4>1. Left(reader'.todo, Dashboard, k + 1 + 4)
        <5>1. Load = "panel" /\ k + 4 <= Len(Dashboard)
          BY <2>2, <3>3, DashboardPlan
        <5> QED  BY <1>2, <2>1, <2>2, <2>4, <5>1, LeftOut
      <4>2. Exported(7)'
        BY DEF Exported
      <4> QED  BY <2>3, <3>3, <4>1, <4>2
    <3>4. CASE k = 7
      <4>1. Load = "run"
        BY <2>2, <3>4, DashboardPlan
      <4>2. Left(reader'.todo, Dashboard, k + 1 + 4)
        <5>1. k + 4 <= Len(Dashboard)
          BY <3>4, DashboardPlan
        <5> QED  BY <1>2, <2>1, <2>2, <2>4, <4>1, <5>1, LeftOut
      <4>3. manifest # None => manifest \subseteq {}
        BY <2>4 DEF ExtractInv, ReaderInv, LogInv, Stored
      <4>4. Exported(12)'
        BY <1>1, <4>1, <4>3 DEF Exported
      <4> QED  BY <2>3, <3>4, <4>2, <4>4
    <3> QED  BY <3>1, <3>2, <3>3, <3>4
  <2>5. CASE ~(Table = "sessions" /\ status = None)
    <3>1. Left(reader'.todo, Dashboard, k + 1)
      BY <1>2, <2>1, <2>5
    <3>2. Exported(k + 1)'
      <4>1. CASE k \in 1..6
        BY <4>1 DEF Exported
      <4>2. CASE k \in 7..8
        <5>1. Load = "run"
          BY <2>2, <4>2, DashboardPlan
        <5> QED  BY <1>1, <4>2, <5>1 DEF Exported
      <4>3. CASE k = 9
        <5>1. Load = "run" /\ Table = "summaries"
          BY <2>2, <4>3, DashboardPlan
        <5>2. Summarised(Seen) = Recorded
          BY <5>1, SeenIsStored
        <5>3. manifest # None => manifest \subseteq Recorded
          BY DEF ExtractInv, ReaderInv
        <5> QED  BY <1>1, <4>3, <5>1, <5>2, <5>3 DEF Exported
      <4>4. CASE k \in 10..11
        <5>1. Load = "run" /\ Table \notin {"summaries", "sessions"}
          BY <2>2, <4>4, DashboardPlan
        <5>2. reader.load = "run"
          BY <2>1, <4>4 DEF Exported
        <5>3. Summarised(Seen) = Summarised(reader.seen)
          BY <5>1, <5>2, SeenIsStored
        <5>4. manifest # None => manifest \subseteq Summarised(Seen)
          BY <2>1, <4>4, <5>3 DEF Exported
        <5> QED  BY <1>1, <4>4, <5>1, <5>4 DEF Exported
      <4> QED  BY <2>2, <4>1, <4>2, <4>3, <4>4
    <3>3. k + 1 \in (k + 1)..15
      BY <2>1
    <3> QED  BY <2>3, <3>1, <3>2, <3>3
  <2> QED  BY <2>4, <2>5
<1>4. CASE \E k \in 1..5 : /\ At(LoadRun("panel"), k)
                           /\ Head(reader.todo) = LoadRun("panel")[k]
                           /\ Left(Tail(reader.todo), LoadRun("panel"), k + 1)
  <2> DEFINE plan == LoadRun("panel")
  <2>1. PICK k \in 1..5 : /\ At(plan, k) /\ Head(reader.todo) = plan[k]
                          /\ Left(Tail(reader.todo), plan, k + 1)
    BY <1>4
  <2>2. /\ Load = plan[k][1] /\ Load = "panel" /\ (Table = "sessions" => k = 1)
        /\ Len(plan) = 5
    BY <2>1, ShortPlans DEF Load, Table
  <2>3. ASSUME NEW l \in (k + 1)..6, Left(reader'.todo, plan, l)
        PROVE  Position'
    <3>1. (\E j \in 1..l - 1 : reader'.load = plan[j][1]) /\ l \in 1..6
      BY <1>1, <2>1, <2>2
    <3>2. At(plan, l)'
      BY <2>3, <3>1 DEF At
    <3> QED  BY <3>1, <3>2 DEF Position
  <2> HIDE DEF plan
  <2>4. CASE Table = "sessions" /\ status = None
    <3>1. Left(reader'.todo, plan, k + 1 + 4)
      <4>1. /\ Load = "panel" /\ k + 4 <= Len(plan) /\ k \in 1..14
            /\ Len(plan) \in 1..14
        BY <2>2, <2>4
      <4> QED  BY <1>2, <2>1, <2>4, <4>1, LeftOut
    <3> QED  BY <2>2, <2>3, <2>4, <3>1
  <2>5. CASE ~(Table = "sessions" /\ status = None)
    <3>1. Left(reader'.todo, plan, k + 1) /\ k + 1 \in (k + 1)..6
      BY <1>2, <2>1, <2>5
    <3> QED  BY <2>3, <3>1
  <2> QED  BY <2>4, <2>5
<1>5. CASE \E k \in 1..4 : /\ At(OwnExport, k)
                           /\ Head(reader.todo) = OwnExport[k]
                           /\ Left(Tail(reader.todo), OwnExport, k + 1)
  <2>1. PICK k \in 1..4 : /\ At(OwnExport, k) /\ Head(reader.todo) = OwnExport[k]
                          /\ Left(Tail(reader.todo), OwnExport, k + 1)
    BY <1>5
  <2>2. /\ Load = OwnExport[k][1] /\ Load = "own" /\ (Table = "sessions" => k = 1)
        /\ Len(OwnExport) = 4
    BY <2>1, ShortPlans DEF Load, Table
  <2>3. ASSUME NEW l \in (k + 1)..5, Left(reader'.todo, OwnExport, l)
        PROVE  Position'
    <3>1. (\E j \in 1..l - 1 : reader'.load = OwnExport[j][1]) /\ l \in 1..5
      <4>1. k \in 1..l - 1 /\ l \in 1..5 /\ reader'.load = OwnExport[k][1]
        BY <1>1, <2>2
      <4> QED  BY <4>1
    <3>2. At(OwnExport, l)'
      BY <2>3, <3>1 DEF At
    <3> QED  BY <3>1, <3>2 DEF Position
  <2>4. CASE Table = "sessions" /\ status = None
    <3>1. Left(reader'.todo, OwnExport, k + 1 + 3)
      <4>1. /\ Load = "own" /\ k + 3 <= Len(OwnExport) /\ k \in 1..14
            /\ Len(OwnExport) \in 1..14
        BY <2>2, <2>4
      <4> QED  BY <1>2, <2>1, <2>4, <4>1, LeftOut
    <3> QED  BY <2>2, <2>3, <2>4, <3>1
  <2>5. CASE ~(Table = "sessions" /\ status = None)
    <3>1. Left(reader'.todo, OwnExport, k + 1) /\ k + 1 \in (k + 1)..5
      BY <1>2, <2>1, <2>5
    <3> QED  BY <2>3, <3>1
  <2> QED  BY <2>4, <2>5
<1> QED  BY <1>1, <1>3, <1>4, <1>5, NextStatement

\* Reading keeps the invariant.
LEMMA ReadKeeps == ASSUME ExtractInv, ReadTable PROVE LogInv' /\ ReaderInv'
<1>1. ReadsTable
  BY ReadTableReads
<1>2. UNCHANGED <<status, trial, summary, log, answered, call, faults, files, manifest, torn>>
  BY <1>1 DEF ReadsTable
<1>3. LogInv'
  BY <1>2 DEF ExtractInv, LogInv, LogTypeOK, Shapes, Stored, HasRows, AllDone, Done, Recorded
<1>4. ReaderShape' /\ SeenWhole' /\ Summarised(Seen) \subseteq Recorded /\ Position'
  BY <1>1, SeenIsStored, ReadKeepsPosition
<1>5. Summarised(reader'.seen) \subseteq Recorded /\ reader'.covers \subseteq Recorded
  BY <1>1, <1>4 DEF ReadsTable, ExtractInv, ReaderInv
<1>6. Recorded' = Recorded /\ Summarised(reader.seen)' = Summarised(reader'.seen)
  BY <1>2 DEF Recorded, Summarised
<1> QED
  BY <1>2, <1>3, <1>4, <1>5, <1>6 DEF ExtractInv, ReaderInv, ManifestNotAhead

\* The files are written at the end of the plan of an export.
LEMMA WritesLast ==
    ASSUME ExtractInv, reader.todo # <<>>, Head(reader.todo)[1] = "write"
    PROVE  \E k \in 12..14 : /\ At(Dashboard, k) /\ Exported(k)
                             /\ Head(reader.todo) = Dashboard[k]
                             /\ Left(Tail(reader.todo), Dashboard, k + 1)
<1>1. PICK k \in 1..14 : /\ At(Dashboard, k) /\ Exported(k)
                         /\ Head(reader.todo) = Dashboard[k]
                         /\ Left(Tail(reader.todo), Dashboard, k + 1)
  BY NextStatement, ShortPlans
<1>2. Dashboard[k][1] = "write"
  BY <1>1
<1>3. k \in 12..14
  BY <1>2, DashboardPlan
<1> QED  BY <1>1, <1>3

\* What writing leaves of the report.
LEMMA WritesReport ==
    ASSUME ExtractInv,
           reader' = [reader EXCEPT !.todo = Tail(@), !.seen = Unread]
    PROVE  /\ reader'.todo = Tail(reader.todo) /\ reader'.load = reader.load
           /\ reader'.seen = Unread /\ reader'.covers = reader.covers
           /\ ReaderShape' /\ SeenWhole' /\ Summarised(reader'.seen) = {}
<1>1. /\ reader'.todo = Tail(reader.todo) /\ reader'.load = reader.load
      /\ reader'.seen = Unread /\ reader'.covers = reader.covers
      /\ reader' = [todo |-> reader'.todo, load |-> reader'.load, seen |-> reader'.seen,
                    covers |-> reader'.covers]
  BY DEF ExtractInv, ReaderInv, ReaderShape
<1>2. Unread.sessions = None /\ Unread.summaries = None
  BY DEF Unread, Tables
<1>3. reader.load \in Loads \cup {None}
  BY DEF ExtractInv, ReaderInv, ReaderShape
<1>4. ReaderShape'
  BY <1>1, <1>2, <1>3 DEF ReaderShape, Unread
<1>5. SeenWhole' /\ Summarised(reader'.seen) = {}
  BY <1>1, <1>2, NullAssumption DEF SeenWhole, Summarised, Statuses
<1> QED  BY <1>1, <1>4, <1>5

\* Nothing of the session is written by a report.
LEMMA LogUntouched == ASSUME LogInv, UNCHANGED logVars PROVE LogInv' /\ Recorded' = Recorded
BY DEF logVars, LogInv, LogTypeOK, Shapes, Stored, HasRows, AllDone, Done, Recorded

\* A file that is opened is short from then on, and nothing else changes.
LEMMA OpenFileKeeps ==
    ASSUME ExtractInv, NEW a \in Artifacts, OpenFile(a)
    PROVE  LogInv' /\ ReaderInv'
<1>1. /\ reader.todo # <<>> /\ Head(reader.todo) = <<"write", a>> /\ Head(reader.todo)[1] = "write"
      /\ files' = [files EXCEPT ![a] = {}] /\ manifest' = manifest /\ reader' = reader
      /\ torn' = torn \cup {a} /\ UNCHANGED logVars
  BY DEF OpenFile
<1>2. PICK k \in 12..14 : /\ At(Dashboard, k) /\ Exported(k)
                          /\ Head(reader.todo) = Dashboard[k]
                          /\ Left(Tail(reader.todo), Dashboard, k + 1)
  BY <1>1, WritesLast
<1>3. (k = 12 /\ a = "extract") \/ (k = 13 /\ a = "derived")
  <2>1. Head(reader.todo)[2] = a /\ Dashboard[k][2] = a
    BY <1>1, <1>2
  <2> QED  BY <2>1, DashboardPlan DEF Artifacts
<1>4. /\ files' \in [Artifacts -> (SUBSET Trials) \cup {None}]
      /\ \A b \in Artifacts \ {a} : files'[b] = files[b]
  BY <1>1 DEF ExtractInv, ReaderInv
<1>5. ManifestNotAhead'
  BY <1>1, <1>4 DEF ManifestNotAhead, ExtractInv, ReaderInv
<1>6. Position'
  <2>1. Exported(k)'
    BY <1>1, <1>2, <1>3, <1>4 DEF Exported, Artifacts
  <2>2. At(Dashboard, k)'
    BY <1>1, <1>2 DEF At
  <2> QED  BY <2>1, <2>2 DEF Position
<1>7. LogInv' /\ Recorded' = Recorded /\ status' = status
  BY <1>1, LogUntouched DEF ExtractInv, logVars, tables
<1>8. ReaderShape' /\ SeenWhole' /\ Summarised(reader.seen)' = Summarised(reader.seen)
  BY <1>1, <1>7 DEF ExtractInv, ReaderInv, ReaderShape, SeenWhole, Summarised
<1> QED  BY <1>1, <1>4, <1>5, <1>6, <1>7, <1>8 DEF ExtractInv, ReaderInv

\* A manifest that is opened counts nothing.
LEMMA OpenManifestKeeps == ASSUME ExtractInv, OpenManifest PROVE LogInv' /\ ReaderInv'
<1>1. /\ reader.todo # <<>> /\ Head(reader.todo)[1] = "write"
      /\ files' = files /\ manifest' = None /\ reader' = reader
      /\ torn' = torn \cup {"manifest"} /\ UNCHANGED logVars
  BY DEF OpenManifest
<1>2. PICK k \in 12..14 : At(Dashboard, k) /\ Exported(k)
  BY <1>1, WritesLast
<1>3. Position'
  <2>1. Exported(k)'
    BY <1>1, <1>2 DEF Exported
  <2>2. At(Dashboard, k)'
    BY <1>1, <1>2 DEF At
  <2> QED  BY <2>1, <2>2 DEF Position
<1>4. LogInv' /\ Recorded' = Recorded /\ status' = status
  BY <1>1, LogUntouched DEF ExtractInv, logVars, tables
<1>5. ReaderShape' /\ SeenWhole' /\ Summarised(reader.seen)' = Summarised(reader.seen)
  BY <1>1, <1>4 DEF ExtractInv, ReaderInv, ReaderShape, SeenWhole, Summarised
<1>6. ManifestNotAhead'
  BY <1>1 DEF ManifestNotAhead
<1> QED  BY <1>1, <1>3, <1>4, <1>5, <1>6 DEF ExtractInv, ReaderInv

\* A file covers what the manifest counts before the manifest does.
LEMMA WriteFileKeeps ==
    ASSUME ExtractInv, NEW a \in Artifacts, WriteFile(a)
    PROVE  LogInv' /\ ReaderInv'
<1>1. /\ reader.todo # <<>> /\ Head(reader.todo) = <<"write", a>> /\ Head(reader.todo)[1] = "write"
      /\ files' = [files EXCEPT ![a] = reader.covers] /\ manifest' = manifest
      /\ a \in torn /\ torn' = torn \ {a}
      /\ reader' = [reader EXCEPT !.todo = Tail(@), !.seen = Unread] /\ UNCHANGED logVars
  BY DEF WriteFile
<1>2. PICK k \in 12..14 : /\ At(Dashboard, k) /\ Exported(k)
                          /\ Head(reader.todo) = Dashboard[k]
                          /\ Left(Tail(reader.todo), Dashboard, k + 1)
  BY <1>1, WritesLast
<1>3. (k = 12 /\ a = "extract") \/ (k = 13 /\ a = "derived")
  <2>1. Head(reader.todo)[2] = a /\ Dashboard[k][2] = a
    BY <1>1, <1>2
  <2> QED  BY <2>1, DashboardPlan DEF Artifacts
<1>4. /\ reader'.todo = Tail(reader.todo) /\ reader'.load = reader.load
      /\ reader'.covers = reader.covers
      /\ ReaderShape' /\ SeenWhole' /\ Summarised(reader'.seen) = {}
  BY <1>1, WritesReport
<1>5. reader.covers \in SUBSET Trials /\ reader.covers # None
  <2>1. reader.covers \in SUBSET Trials
    BY DEF ExtractInv, ReaderInv, Recorded
  <2> QED  BY <2>1, NoneAssumption
<1>6. /\ files' \in [Artifacts -> (SUBSET Trials) \cup {None}] /\ files'[a] = reader.covers
      /\ \A b \in Artifacts \ {a} : files'[b] = files[b]
  BY <1>1, <1>5 DEF ExtractInv, ReaderInv
<1>7. manifest # None => manifest \subseteq reader.covers
  BY <1>2 DEF Exported
<1>8. ManifestNotAhead'
  BY <1>1, <1>5, <1>6, <1>7 DEF ManifestNotAhead, ExtractInv, ReaderInv
<1>9. Position'
  <2>1. Exported(k + 1)'
    BY <1>1, <1>2, <1>3, <1>4, <1>6, <1>7 DEF Exported, Artifacts
  <2>2. At(Dashboard, k + 1)'
    BY <1>2, <1>4 DEF At
  <2> QED  BY <2>1, <2>2 DEF Position
<1>10. LogInv' /\ Recorded' = Recorded
  BY <1>1, LogUntouched DEF ExtractInv
<1>11. Summarised(reader.seen)' = {}
  BY <1>4 DEF Summarised
<1> QED  BY <1>1, <1>4, <1>6, <1>8, <1>9, <1>10, <1>11 DEF ExtractInv, ReaderInv

\* The manifest is written when both files cover what it counts.
LEMMA WriteManifestKeeps == ASSUME ExtractInv, WriteManifest PROVE LogInv' /\ ReaderInv'
<1>1. /\ reader.todo # <<>> /\ Head(reader.todo) = <<"write", "manifest">>
      /\ Head(reader.todo)[1] = "write" /\ manifest' = reader.covers /\ files' = files
      /\ torn' = torn \ {"manifest"}
      /\ reader' = [reader EXCEPT !.todo = Tail(@), !.seen = Unread] /\ UNCHANGED logVars
  BY DEF WriteManifest
<1>2. PICK k \in 12..14 : /\ At(Dashboard, k) /\ Exported(k)
                          /\ Head(reader.todo) = Dashboard[k]
                          /\ Left(Tail(reader.todo), Dashboard, k + 1)
  BY <1>1, WritesLast
<1>3. k = 14
  <2>1. Head(reader.todo)[2] = "manifest" /\ Dashboard[k][2] = "manifest"
    BY <1>1, <1>2
  <2> QED  BY <2>1, DashboardPlan
<1>4. /\ reader'.todo = Tail(reader.todo) /\ reader'.load = reader.load
      /\ reader'.covers = reader.covers
      /\ ReaderShape' /\ SeenWhole' /\ Summarised(reader'.seen) = {}
  BY <1>1, WritesReport
<1>5. reader.covers \in SUBSET Trials /\ reader.covers # None /\ reader.covers \subseteq Recorded
  <2>1. reader.covers \in SUBSET Trials /\ reader.covers \subseteq Recorded
    BY DEF ExtractInv, ReaderInv, Recorded
  <2> QED  BY <2>1, NoneAssumption
<1>6. files["extract"] = reader.covers /\ files["derived"] = reader.covers
  BY <1>2, <1>3 DEF Exported
<1>7. ManifestNotAhead'
  BY <1>1, <1>5, <1>6 DEF ManifestNotAhead, Artifacts
<1>8. Position'
  <2>1. Exported(15)'
    BY <1>1, <1>4, <1>6 DEF Exported
  <2>2. At(Dashboard, 15)'
    BY <1>2, <1>3, <1>4 DEF At
  <2> QED  BY <2>1, <2>2 DEF Position
<1>9. LogInv' /\ Recorded' = Recorded
  BY <1>1, LogUntouched DEF ExtractInv
<1>10. Summarised(reader.seen)' = {}
  BY <1>4 DEF Summarised
<1> QED  BY <1>1, <1>4, <1>5, <1>7, <1>8, <1>9, <1>10 DEF ExtractInv, ReaderInv

-----------------------------------------------------------------------------
(* The theorems.                                                           *)

\* Whatever the participant and the researcher do, and wherever a request or a
\* report dies, what is stored, what a report has read and what the files
\* cover agree as the invariant says.
THEOREM ExtractInvariant == Spec => []ExtractInv
<1>1. RunInit => ExtractInv
  <2> SUFFICES ASSUME RunInit PROVE ExtractInv
    OBVIOUS
  <2>1. LogInv
    BY LogStart DEF RunInit
  <2>2. files = [a \in Artifacts |-> None] /\ manifest = None /\ torn = {}
    BY DEF RunInit
  <2>3. files \in [Artifacts -> (SUBSET Trials) \cup {None}]
    BY <2>2
  <2>4. FilesInv
    BY <2>2, <2>3 DEF FilesInv, ManifestNotAhead
  <2> QED  BY <2>1, <2>4, Rested DEF RunInit, ExtractInv
<1>2. ExtractInv /\ [Next]_vars => ExtractInv'
  <2> SUFFICES ASSUME ExtractInv, [Next]_vars PROVE LogInv' /\ ReaderInv'
    BY DEF ExtractInv
  <2>1. CASE LogNext /\ UNCHANGED readerVars
    <3>1. LogInv' /\ Kept
      BY <2>1, LogStep DEF ExtractInv
    <3> QED  BY <2>1, <3>1, RequestsKeepReader
  <2>2. CASE \E r \in Reports : BeginReport(r)
    <3>1. UNCHANGED logVars
      BY <2>2 DEF BeginReport
    <3> QED  BY <2>2, <3>1, BeginKeeps, LogUntouched DEF ExtractInv
  <2>3. CASE ReadTable
    BY <2>3, ReadKeeps
  <2>4. CASE \E a \in Artifacts : OpenFile(a) \/ WriteFile(a)
    BY <2>4, OpenFileKeeps, WriteFileKeeps
  <2>5. CASE OpenManifest \/ WriteManifest
    BY <2>5, OpenManifestKeeps, WriteManifestKeeps
  <2>6. CASE EndReport \/ CutOffReport
    BY <2>6, EndKeeps
  <2>7. CASE UNCHANGED vars
    <3>1. UNCHANGED logVars /\ UNCHANGED readerVars
      BY <2>7 DEF vars
    <3>2. LogInv' /\ Kept
      BY <3>1, LogUntouched DEF ExtractInv, Kept, logVars
    <3> QED  BY <3>1, <3>2, RequestsKeepReader
  <2> QED  BY <2>1, <2>2, <2>3, <2>4, <2>5, <2>6, <2>7 DEF Next
<1> QED  BY <1>1, <1>2, PTL DEF Spec

\* The tables, the report and the files keep their types, for any plan.
THEOREM TypeCorrect == Spec => []TypeOK
<1>1. ExtractInv => TypeOK
  <2> SUFFICES ASSUME ExtractInv PROVE TypeOK
    OBVIOUS
  <2>1. /\ LogTypeOK /\ files \in [Artifacts -> (SUBSET Trials) \cup {None}]
        /\ torn \subseteq Artifacts \cup {"manifest"}
    BY DEF ExtractInv, LogInv, ReaderInv
  <2>2. reader.load \in Loads \cup {None} /\ reader.seen.sessions \in Statuses \cup {None}
    BY DEF ExtractInv, ReaderInv, ReaderShape
  <2>3. reader.covers \subseteq Trials /\ manifest \in (SUBSET Trials) \cup {None}
    <3>1. Recorded \subseteq Trials
      BY DEF Recorded
    <3>2. reader.covers \subseteq Recorded /\ (manifest = None \/ manifest \subseteq Recorded)
      BY DEF ExtractInv, ReaderInv
    <3>3. manifest = None \/ manifest \subseteq Trials
      BY <3>1, <3>2
    <3>4. reader.covers \subseteq Trials
      BY <3>1, <3>2
    <3> QED  BY <3>3, <3>4
  <2> QED  BY <2>1, <2>2, <2>3 DEF TypeOK
<1> QED  BY <1>1, ExtractInvariant, PTL

\* A readable manifest never counts a trial that a file lacks which was written
\* to its end, wherever an export dies: between two files or inside one.
THEOREM ManifestFollowsFiles == Spec => []ManifestNotAhead
<1>1. ExtractInv => ManifestNotAhead
  BY DEF ExtractInv, ReaderInv
<1> QED  BY <1>1, ExtractInvariant, PTL

\* A session that the analysis counts, or that its own export shows as
\* finalized, is exported whole, whatever was written between two reads.
THEOREM IncludedSessionsAreWhole == Spec => []IncludedIsWhole
<1>1. ExtractInv => IncludedIsWhole
  <2> SUFFICES ASSUME ExtractInv,
                      reader.seen.summaries # None, reader.seen.questionnaires # None,
                      IF reader.load = "own" THEN reader.seen.sessions = "finalized"
                      ELSE ~Excluded(reader.seen)
               PROVE  Summarised(reader.seen) = Trials /\ reader.seen.questionnaires = MainBlocks
    BY DEF IncludedIsWhole
  <2>1. reader.seen.sessions = "finalized"
    BY DEF Excluded
  <2> QED  BY <2>1 DEF ExtractInv, ReaderInv, SeenWhole
<1> QED  BY <1>1, ExtractInvariant, PTL
=============================================================================
