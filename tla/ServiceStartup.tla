--------------------------- MODULE ServiceStartup ---------------------------
(***************************************************************************)
(* How a service starts: init_db of the store brings the database to the   *)
(* current schema version, then the researcher API creates the first       *)
(* account.  Several services start on one database, crash and are started *)
(* again.                                                                  *)
(*                                                                         *)
(* Postgres runs all migrations in one transaction.  SQLite opens one too  *)
(* (BEGIN IMMEDIATE), but executescript commits it first and then runs     *)
(* each statement of the script on its own; migrations 1, 5 and 7 are such *)
(* scripts, and a process may be killed between any two statements.  A     *)
(* transaction is a private copy of the database (work) and the lock that  *)
(* keeps others from writing.                                              *)
(*                                                                         *)
(* A table is the groups of columns it has and a summary of its rows.      *)
(***************************************************************************)
EXTENDS Integers, FiniteSets

CONSTANTS
    Starters,       \* service processes
    Researchers,    \* those that run the researcher API
    OtherTables,    \* base tables besides participant_sessions (bound)
    MaxCrashes,     \* bound
    BesideScripts,  \* bound: whether a start may go on beside a SQLite script
    Nobody

ASSUME StarterAssumption ==
    /\ Researchers \subseteq Starters /\ Nobody \notin Starters
    /\ OtherTables \in Nat \ {0} /\ MaxCrashes \in Nat /\ BesideScripts \in BOOLEAN

VARIABLES
    backend,   \* "sqlite" or "postgres"
    origin,    \* the database before the first start
    db,        \* the committed database
    lock,      \* who holds the write lock
    work,      \* the holder's uncommitted database
    pc,
    version,   \* current_version of each starter
    line,      \* next statement of its script
    crashes,
    scripts    \* history, read by no action: what has befallen the SQLite scripts

vars == <<backend, origin, db, lock, work, pc, version, line, crashes, scripts>>

CURRENT_SCHEMA_VERSION == 9
Migrations == 1..CURRENT_SCHEMA_VERSION
Scripts == {1, 5, 7}

NoTable == [cols |-> {}, rows |-> "absent"]
SessionGroups == {"run", "runPart", "notNull", "created", "snapshot", "stage"}
Tables == [cols : SUBSET SessionGroups, rows : {"absent", "none", "bound", "unbound"}]

-----------------------------------------------------------------------------
(* Statements: the set of databases a statement can leave, {} if it fails. *)

\* ALTER TABLE participant_sessions ADD COLUMN ...
AddToSessions(d, group, rows) ==
    {e \in {[d EXCEPT !.sessions.cols = @ \cup {group}, !.sessions.rows = rows]} :
        d.sessions # NoTable /\ group \notin d.sessions.cols}

\* ALTER of researcher_runs, researcher_stimulus_sets or session_trials
AddGroup(d, group) == {e \in {[d EXCEPT !.cols = @ \cup {group}]} : group \notin d.cols}

\* The sessions that exist before migration 2 have no run.
RowsWithoutRun(d) == IF d.sessions.rows = "none" THEN "none" ELSE "unbound"

\* The migrations that run inside the transaction.
Upgrade(v, d) ==
    CASE v = 2 -> AddToSessions(d, "run", RowsWithoutRun(d))
      [] v = 3 -> AddGroup(d, "slug")
      [] v = 4 -> AddGroup(d, "validation")
      [] v = 6 -> {[d EXCEPT !.users = IF @ = -1 THEN 0 ELSE @]}
      [] v = 8 -> UNION {AddGroup(e, "snapshot") : e \in AddToSessions(d, "snapshot", d.sessions.rows)}
      [] v = 9 -> AddToSessions(d, "stage", d.sessions.rows)

\* Migrations 1, 5 and 7 of the Postgres store.
UpgradePostgres(v, d) ==
    CASE v = 1 -> {e \in {[d EXCEPT !.sessions = [cols |-> {}, rows |-> "none"], !.others = OtherTables]} :
                       d.sessions = NoTable}
      [] v = 5 -> {e \in {[d EXCEPT !.sessions.cols = @ \cup {"notNull"}]} : d.sessions.rows # "unbound"}
      [] v = 7 -> AddToSessions(d, "created", d.sessions.rows)

CreateCopy(d, cols) ==
    {e \in {[d EXCEPT !.copy = [cols |-> cols, rows |-> "none"]]} : d.copy = NoTable}
FillCopy(d) ==
    {e \in {[d EXCEPT !.copy.rows = d.sessions.rows]} :
        d.copy.rows = "none" /\ d.sessions # NoTable /\ "run" \in d.sessions.cols}
DropSessions(d) == {e \in {[d EXCEPT !.sessions = NoTable]} : d.sessions # NoTable}
RenameCopy(d) ==
    {e \in {[d EXCEPT !.sessions = d.copy, !.copy = NoTable]} :
        d.copy # NoTable /\ d.sessions = NoTable}

ScriptLength(v) == CASE v = 1 -> 1 + OtherTables [] v = 5 -> 4 [] v = 7 -> 5

\* Mutant: the old table is dropped before its rows are copied.
StatementDropFirst(v, l, d) ==
    CASE v = 1 /\ l = 1 -> {e \in {[d EXCEPT !.sessions = [cols |-> {}, rows |-> "none"]]} :
                                d.sessions = NoTable}
      [] v = 1 /\ l > 1 -> {e \in {[d EXCEPT !.others = l - 1]} : d.others < l - 1}
      [] v = 5 /\ l = 1 -> CreateCopy(d, {"run", "notNull"})
      [] v = 7 /\ l = 1 -> {[d EXCEPT !.copy = NoTable]}
      [] v = 7 /\ l = 2 -> CreateCopy(d, {"run", "notNull", "created"})
      [] v # 1 /\ ScriptLength(v) - l = 2 -> DropSessions(d)
      [] v # 1 /\ ScriptLength(v) - l = 1 -> {d}
      [] v # 1 /\ ScriptLength(v) - l = 0 -> RenameCopy(d)

\* Statement l of the script of migration v.
Statement(v, l, d) ==
    CASE v = 1 /\ l = 1 -> {e \in {[d EXCEPT !.sessions = [cols |-> {}, rows |-> "none"]]} :
                                d.sessions = NoTable}
      [] v = 1 /\ l > 1 -> {e \in {[d EXCEPT !.others = l - 1]} : d.others < l - 1}
      [] v = 5 /\ l = 1 -> CreateCopy(d, {"run", "notNull"})
      [] v = 7 /\ l = 1 -> {[d EXCEPT !.copy = NoTable]}
      [] v = 7 /\ l = 2 -> CreateCopy(d, {"run", "notNull", "created"})
      [] v # 1 /\ ScriptLength(v) - l = 2 -> FillCopy(d)
      [] v # 1 /\ ScriptLength(v) - l = 1 -> DropSessions(d)
      [] v # 1 /\ ScriptLength(v) - l = 0 -> RenameCopy(d)

\* The insert into schema_migrations; version is its primary key.
Recorded(v, d) == {e \in {[d EXCEPT !.history = @ \cup {v}]} : v \notin d.history}

-----------------------------------------------------------------------------
(* What a starter concludes from the database it finds.                    *)

Highest(history) == CHOOSE v \in history : \A w \in history : w <= v
Contiguous(history) == history = 1..Highest(history)
Unversioned(d) == d.history = {}
HasBase(d) == d.sessions # NoTable /\ d.others = OtherTables
HasTables(d) == d.sessions # NoTable \/ d.others > 0

\* Mutant: a table with a mandatory run is taken for the next version.
InferSix(d) ==
    IF ~HasBase(d) THEN 0
    ELSE IF "stage" \in d.sessions.cols THEN 9
    ELSE IF "created" \in d.sessions.cols THEN 7
    ELSE IF "notNull" \in d.sessions.cols THEN 6
    ELSE IF "validation" \in d.cols THEN 4
    ELSE IF "slug" \in d.cols THEN 3
    ELSE IF "run" \in d.sessions.cols THEN 2
    ELSE 1

\* The version of an unversioned SQLite database, by its columns; one that
\* lacks base tables counts as fresh.
Infer(d) ==
    IF ~HasBase(d) THEN 0
    ELSE IF "stage" \in d.sessions.cols THEN 9
    ELSE IF "created" \in d.sessions.cols THEN 7
    ELSE IF "notNull" \in d.sessions.cols THEN 5
    ELSE IF "validation" \in d.cols THEN 4
    ELSE IF "slug" \in d.cols THEN 3
    ELSE IF "run" \in d.sessions.cols THEN 2
    ELSE 1

\* "Refusing startup": the database is newer, its history has gaps, its tables
\* are no base tables, a column group is there in part, or (Postgres) it has
\* tables and no history.
Refused(d) ==
    \/ ~Unversioned(d) /\ ~Contiguous(d.history)
    \/ ~Unversioned(d) /\ Highest(d.history) > CURRENT_SCHEMA_VERSION
    \/ Unversioned(d) /\ backend = "sqlite" /\ ~HasBase(d) /\ (d.copy # NoTable \/ d.users # -1)
    \/ Unversioned(d) /\ backend = "sqlite" /\ HasBase(d) /\ "runPart" \in d.sessions.cols
    \/ Unversioned(d) /\ backend = "postgres" /\ HasTables(d)

\* current_version, with the inferred history recorded.
Found(d) == IF ~Unversioned(d) THEN Highest(d.history)
            ELSE IF backend = "sqlite" THEN Infer(d) ELSE 0

\* _validate_current_schema
Validated(d) ==
    /\ d.history = Migrations
    /\ {"notNull", "created"} \subseteq d.sessions.cols
    /\ backend = "sqlite" => "snapshot" \in d.sessions.cols /\ "snapshot" \in d.cols

-----------------------------------------------------------------------------
(* The databases a service may find.                                       *)

\* Schema version k with the given sessions.
AtVersion(k, rows) ==
    [history |-> 1..k,
     sessions |-> [cols |-> (IF k >= 2 THEN {"run"} ELSE {}) \cup (IF k >= 5 THEN {"notNull"} ELSE {})
                            \cup (IF k >= 7 THEN {"created"} ELSE {})
                            \cup (IF k >= 8 THEN {"snapshot"} ELSE {})
                            \cup (IF k >= 9 THEN {"stage"} ELSE {}),
                   rows |-> rows],
     others |-> OtherTables,
     cols |-> (IF k >= 3 THEN {"slug"} ELSE {}) \cup (IF k >= 4 THEN {"validation"} ELSE {})
              \cup (IF k >= 8 THEN {"snapshot"} ELSE {}),
     copy |-> NoTable,
     users |-> IF k >= 6 THEN 1 ELSE -1]

Fresh == [history |-> {}, sessions |-> NoTable, others |-> 0, cols |-> {},
          copy |-> NoTable, users |-> -1]
Versioned ==
    {AtVersion(1, rows) : rows \in {"none", "unbound"}}
      \cup {AtVersion(k, rows) : k \in 2..4, rows \in {"none", "bound", "unbound"}}
      \cup {AtVersion(k, rows) : k \in 5..CURRENT_SCHEMA_VERSION, rows \in {"none", "bound"}}
\* Databases older than schema_migrations, one of them half altered.
Legacy ==
    {[d EXCEPT !.history = {}] : d \in {AtVersion(1, "unbound"), AtVersion(4, "bound"), AtVersion(5, "bound")}}
      \cup {[AtVersion(1, "none") EXCEPT !.history = {}, !.sessions.cols = {"runPart"}]}
\* A database that a later release has migrated.
Newer == [AtVersion(9, "bound") EXCEPT !.history = 1..(CURRENT_SCHEMA_VERSION + 1)]

Init ==
    /\ backend \in {"sqlite", "postgres"}
    /\ origin \in {Fresh, Newer} \cup Versioned \cup Legacy
    /\ db = origin
    /\ lock = Nobody
    /\ work = origin
    /\ pc = [p \in Starters |-> "idle"]
    /\ version = [p \in Starters |-> 0]
    /\ line = [p \in Starters |-> 1]
    /\ crashes = 0
    /\ scripts = "whole"

Goto(p, label) == pc' = [pc EXCEPT ![p] = label]
Free(p) == lock' = IF lock = p THEN Nobody ELSE lock

\* Mutant: leaving the connection commits what the failed start did.
FailCommitted(p) ==
    /\ Goto(p, "failed")
    /\ Free(p)
    /\ db' = IF lock = p THEN work ELSE db
    /\ work' = db'
    /\ UNCHANGED <<backend, origin, version, line, crashes, scripts>>

\* An exception leaves init_db and the process: the transaction is rolled back.
Fail(p) ==
    /\ Goto(p, "failed")
    /\ Free(p)
    /\ work' = IF lock = p THEN db ELSE work
    /\ UNCHANGED <<backend, origin, db, version, line, crashes, scripts>>

(* "whole" until a start is killed inside a script or goes on beside one.   *)
(* "stopped": the former.  "torn": the latter, or killed by the last script *)
(* after it dropped the old table and before it renamed the copy.           *)

InScript(p) == backend = "sqlite" /\ pc[p] \in {"script", "record"}

\* Without its table and with a copy that its own first statement drops.
BeforeRename(p) == version[p] + 1 = 7 /\ line[p] = ScriptLength(7)

BesideScript == scripts' = IF \E q \in Starters : InScript(q) THEN "torn" ELSE scripts
StoppedScript(p) ==
    scripts' = IF pc[p] # "script" THEN scripts
               ELSE IF scripts = "torn" \/ BeforeRename(p) THEN "torn" ELSE "stopped"

-----------------------------------------------------------------------------
(* init_db                                                                 *)

\* Mutant: the inferred versions are not recorded.
BeginUnrecorded(p) ==
    /\ backend = "sqlite"
    /\ pc[p] = "idle"
    /\ lock = Nobody
    /\ BesideScripts \/ \A q \in Starters : ~InScript(q)
    /\ IF Refused(db) THEN Fail(p)
       ELSE /\ version' = [version EXCEPT ![p] = Found(db)]
            /\ work' = db
            /\ lock' = p
            /\ Goto(p, "migrate")
            /\ BesideScript
            /\ UNCHANGED <<backend, origin, db, line, crashes>>

\* BEGIN IMMEDIATE and the reads under it.
Begin(p) ==
    /\ backend = "sqlite"
    /\ pc[p] = "idle"
    /\ lock = Nobody
    /\ BesideScripts \/ \A q \in Starters : ~InScript(q)
    /\ IF Refused(db) THEN Fail(p)
       ELSE /\ version' = [version EXCEPT ![p] = Found(db)]
            /\ work' = [db EXCEPT !.history = IF Unversioned(db) THEN 1..Infer(db) ELSE @]
            /\ lock' = p
            /\ Goto(p, "migrate")
            /\ BesideScript
            /\ UNCHANGED <<backend, origin, db, line, crashes>>

\* Postgres reads the version without a lock; another start may commit next.
BeginPostgres(p) ==
    /\ backend = "postgres"
    /\ pc[p] = "idle"
    /\ IF Refused(db) THEN Fail(p)
       ELSE /\ version' = [version EXCEPT ![p] = Found(db)]
            /\ Goto(p, "waiting")
            /\ UNCHANGED <<backend, origin, db, lock, work, line, crashes, scripts>>

\* The first migration waits for the locks of the other start.
Lock(p) ==
    /\ pc[p] = "waiting"
    /\ lock = Nobody
    /\ lock' = p
    /\ work' = db
    /\ Goto(p, "migrate")
    /\ UNCHANGED <<backend, origin, db, version, line, crashes, scripts>>

Outcome(v, d) == IF v \in Scripts THEN UpgradePostgres(v, d) ELSE Upgrade(v, d)

Migrate(p) ==
    /\ pc[p] = "migrate"
    /\ version[p] < CURRENT_SCHEMA_VERSION
    /\ backend = "postgres" \/ version[p] + 1 \notin Scripts
    /\ LET v == version[p] + 1
           after == UNION {Recorded(v, d) : d \in Outcome(v, work)}
       IN  IF after = {} THEN Fail(p)
           ELSE /\ work' \in after
                /\ version' = [version EXCEPT ![p] = v]
                /\ UNCHANGED <<backend, origin, db, lock, pc, line, crashes, scripts>>

\* Mutant: the transaction stays open beside the script.
ScriptStartOpen(p) ==
    /\ backend = "sqlite"
    /\ pc[p] = "migrate"
    /\ version[p] + 1 \in Scripts
    /\ lock' = Nobody
    /\ line' = [line EXCEPT ![p] = 1]
    /\ Goto(p, "script")
    /\ UNCHANGED <<backend, origin, db, work, version, crashes, scripts>>

\* executescript commits the open transaction; migration 5 first looks for
\* sessions without a run.
ScriptStart(p) ==
    /\ backend = "sqlite"
    /\ pc[p] = "migrate"
    /\ version[p] + 1 \in Scripts
    /\ IF version[p] + 1 = 5 /\ (work.sessions = NoTable \/ work.sessions.rows = "unbound")
       THEN Fail(p)
       ELSE /\ db' = work
            /\ lock' = Nobody
            /\ line' = [line EXCEPT ![p] = 1]
            /\ Goto(p, "script")
            /\ UNCHANGED <<backend, origin, work, version, crashes, scripts>>

ScriptLine(p) ==
    /\ pc[p] = "script"
    /\ lock = Nobody
    /\ LET v == version[p] + 1
           after == Statement(v, line[p], db)
       IN  IF after = {} THEN Fail(p)
           ELSE /\ db' \in after
                /\ work' = db'
                /\ line' = [line EXCEPT ![p] = @ + 1]
                /\ Goto(p, IF line[p] = ScriptLength(v) THEN "record" ELSE "script")
                /\ UNCHANGED <<backend, origin, lock, version, crashes, scripts>>

\* The insert after a script opens the next transaction.
Record(p) ==
    /\ pc[p] = "record"
    /\ lock = Nobody
    /\ LET v == version[p] + 1
       IN  IF Recorded(v, db) = {} THEN Fail(p)
           ELSE /\ work' \in Recorded(v, db)
                /\ lock' = p
                /\ version' = [version EXCEPT ![p] = v]
                /\ Goto(p, "migrate")
                /\ UNCHANGED <<backend, origin, db, line, crashes, scripts>>

Finish(p) ==
    /\ pc[p] = "migrate"
    /\ version[p] = CURRENT_SCHEMA_VERSION
    /\ IF ~Validated(work) THEN Fail(p)
       ELSE /\ db' = work
            /\ lock' = Nobody
            /\ Goto(p, IF p \in Researchers THEN "countUsers" ELSE "ready")
            /\ UNCHANGED <<backend, origin, work, version, line, crashes, scripts>>

-----------------------------------------------------------------------------
(* bootstrap_initial_user                                                  *)

CountUsers(p) ==
    /\ pc[p] = "countUsers"
    /\ IF db.users = -1 THEN Fail(p)
       ELSE /\ Goto(p, IF db.users > 0 THEN "ready" ELSE "insertUser")
            /\ UNCHANGED <<backend, origin, db, lock, work, version, line, crashes, scripts>>

\* All services have the same PILOT_RESEARCHER_USERNAME, which is UNIQUE.
InsertUser(p) ==
    /\ pc[p] = "insertUser"
    /\ lock = Nobody
    /\ IF db.users # 0 THEN Fail(p)
       ELSE /\ db' = [db EXCEPT !.users = 1]
            /\ work' = db'
            /\ Goto(p, "ready")
            /\ UNCHANGED <<backend, origin, lock, version, line, crashes, scripts>>

-----------------------------------------------------------------------------

\* The process dies; its transaction is rolled back.
Crash(p) ==
    /\ pc[p] \notin {"idle", "failed"}
    /\ crashes < MaxCrashes
    /\ crashes' = crashes + 1
    /\ StoppedScript(p)
    /\ Goto(p, "idle")
    /\ Free(p)
    /\ work' = IF lock = p THEN db ELSE work
    /\ UNCHANGED <<backend, origin, db, version, line>>

\* restart: unless-stopped
Restart(p) ==
    /\ pc[p] = "failed"
    /\ Goto(p, "idle")
    /\ UNCHANGED <<backend, origin, db, lock, work, version, line, crashes, scripts>>

Step(p) ==
    \/ Begin(p) \/ BeginPostgres(p) \/ Lock(p)
    \/ Migrate(p) \/ ScriptStart(p) \/ ScriptLine(p) \/ Record(p) \/ Finish(p)
    \/ CountUsers(p) \/ InsertUser(p) \/ Restart(p)

AllReady == \A p \in Starters : pc[p] = "ready"
Serving == AllReady /\ UNCHANGED vars

Next == (\E p \in Starters : Step(p) \/ Crash(p)) \/ Serving

\* A started process runs on, and a failed one is started again.
Spec == Init /\ [][Next]_vars /\ \A p \in Starters : WF_vars(Step(p))

-----------------------------------------------------------------------------
(* Properties.                                                             *)

Databases ==
    [history : SUBSET (1..CURRENT_SCHEMA_VERSION + 1), sessions : Tables, copy : Tables,
     others : 0..OtherTables, cols : SUBSET {"slug", "validation", "snapshot"}, users : -1..1]

\* The type invariant of the stores' init_db; a free lock has no uncommitted
\* work.
TypeOK ==
    /\ backend \in {"sqlite", "postgres"}
    /\ origin \in Databases /\ db \in Databases /\ work \in Databases
    /\ lock \in Starters \cup {Nobody}
    /\ lock = Nobody => work = db
    /\ pc \in [Starters -> {"idle", "waiting", "migrate", "script", "record", "countUsers",
                            "insertUser", "ready", "failed"}]
    /\ version \in [Starters -> 0..CURRENT_SCHEMA_VERSION]
    /\ line \in [Starters -> Nat]
    /\ crashes \in 0..MaxCrashes
    /\ scripts \in {"whole", "stopped", "torn"}

\* A service that accepts requests has every table and column its queries
\* name, and the researcher API an account to log in with, whatever database
\* it found and wherever other starts overlapped it or died, short of a SQLite
\* script: what init_db validates at the end is only part of that.
ReadyIsServable ==
    \A p \in Starters : pc[p] = "ready" /\ scripts = "whole" =>
        /\ db.sessions.cols = {"run", "notNull", "created", "snapshot", "stage"}
        /\ db.others = OtherTables
        /\ db.cols = {"slug", "validation", "snapshot"}
        /\ IF p \in Researchers THEN db.users = 1 ELSE db.users \in {0, 1}

\* An upgrade keeps the participants' sessions wherever it is killed, inside a
\* SQLite script too, and however often it is started again: they are in the
\* table or in the copy that replaces it.  Two cases are excepted because the
\* code does lose them there: a kill between the DROP and the RENAME of
\* migration 7, whose next start drops the copy, and a start beside a script.
RowsKept ==
    scripts # "torn" /\ origin.sessions.rows \in {"bound", "unbound"} =>
        \/ db.sessions.rows \in {"bound", "unbound"}
        \/ db.copy.rows \in {"bound", "unbound"}

\* A database that no service can upgrade is left exactly as it was found, so
\* that the previous release still runs on it.
Refusable(d) == Refused(d) \/ (d.sessions.rows = "unbound" /\ d.history \subseteq 1..4)
RefusedUntouched == Refusable(origin) => db = origin

\* Any other database is upgraded: all services come up, however their starts
\* overlap and whenever one of them is killed, if that never befalls a SQLite
\* script.
Started == ~Refusable(origin) /\ [](scripts = "whole") => <>[]AllReady

\* A start that finds a half bootstrapped database lets the migrations run.
BootstrapRuns ==
    [][\A p \in Starters : pc[p] = "script" /\ version[p] = 0 => pc'[p] # "failed"]_vars
=============================================================================
