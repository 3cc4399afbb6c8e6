------------------------ MODULE ServiceStartupProofs ------------------------
(***************************************************************************)
(* Proofs about ServiceStartup for any number of services and tables and   *)
(* any crashes, in three parts.                                            *)
(*                                                                         *)
(* A database that cannot be upgraded stays as it was found: no start gets *)
(* as far as a commit on it, for it is refused when it is read, or its     *)
(* sessions without a run stop migration 5 in the first transaction, whose *)
(* changes exist only in the private copy.                                 *)
(*                                                                         *)
(* A database that can be upgraded keeps its sessions and ends at the      *)
(* current version: between two commits it is at an exact version, or a    *)
(* migration script has been committed whose version is not yet recorded,  *)
(* and then one start alone holds the lock and will record it.             *)
(*                                                                         *)
(* The session rows of such a database outlast a kill inside a SQLite      *)
(* script as well: they are in the table or in the copy that replaces it,  *)
(* except before the RENAME of migration 7 or when a start goes on beside  *)
(* a script, which is what the history variable scripts remembers.         *)
(***************************************************************************)
EXTENDS ServiceStartup, TLAPS

\* Sessions without a run, in a database of version 1 to 4.
Orphaned(d) == d.sessions.rows = "unbound" /\ d.history \subseteq 1..4

\* What a start on the given database knows before it decides.
Understood == Orphaned(origin) /\ ~Refused(origin) => Found(origin) \in 1..4

\* A start on such a database is not beyond its first transaction, which holds
\* the lock, is not past migration 4 and has not bound the sessions.
FirstTransaction ==
    \A p \in Starters :
        /\ pc[p] \in {"idle", "failed", "waiting", "migrate"}
        /\ pc[p] \in {"waiting", "migrate"} => Orphaned(origin) /\ version[p] \in 1..4
        /\ pc[p] = "migrate" => /\ lock = p
                                /\ work \in Databases /\ work.sessions.rows = "unbound"

\* A database that cannot be upgraded is as it was found.
Untouched == Refusable(origin) => db = origin /\ FirstTransaction

\* The inductive invariant of the first part.
StartInv ==
    /\ DOMAIN pc = Starters /\ pc = [p \in Starters |-> pc[p]]
    /\ DOMAIN version = Starters /\ version = [p \in Starters |-> version[p]]
    /\ origin \in Databases /\ Understood /\ Untouched

-----------------------------------------------------------------------------
(* The first start.                                                        *)

\* A history without gaps has its last version as current version.
LEMMA HighestOfInterval == ASSUME NEW k \in 1..10 PROVE Highest(1..k) = k
<1>1. \A v \in 1..k : (\A w \in 1..k : w <= v) => v = k
  OBVIOUS
<1>2. k \in 1..k /\ \A w \in 1..k : w <= k
  OBVIOUS
<1>3. \A v : (v \in 1..k /\ \A w \in 1..k : w <= v) <=> v = k
  BY <1>1, <1>2
<1> QED  BY <1>2, <1>3, Zenon DEF Highest


\* The database of a schema version is well formed.
LEMMA VersionWellFormed ==
    ASSUME NEW k \in 1..9, NEW rows \in {"none", "bound", "unbound"}
    PROVE  AtVersion(k, rows) \in Databases /\ AtVersion(k, rows).sessions.rows = rows
<1>1. /\ 1..k \in SUBSET (1..CURRENT_SCHEMA_VERSION + 1) /\ OtherTables \in 0..OtherTables
      /\ (IF k >= 6 THEN 1 ELSE -1) \in -1..1
  BY StarterAssumption DEF CURRENT_SCHEMA_VERSION
<1>2. NoTable \in Tables
  BY DEF NoTable, Tables
<1>3. AtVersion(k, rows).sessions \in Tables /\ AtVersion(k, rows).sessions.rows = rows
  BY DEF AtVersion, Tables, SessionGroups
<1>4. AtVersion(k, rows).cols \in SUBSET {"slug", "validation", "snapshot"}
  BY DEF AtVersion
<1> QED  BY <1>1, <1>2, <1>3, <1>4 DEF AtVersion, Databases

\* What a service may find is well formed, and a database of sessions without
\* a run has a recorded version of at most 4, or is an unversioned base.
LEMMA Origins ==
    ASSUME Init
    PROVE  /\ origin \in Databases
           /\ Orphaned(origin) =>
                  \/ \E k \in 1..4 : origin.history = 1..k
                  \/ origin = [AtVersion(1, "unbound") EXCEPT !.history = {}]
<1>1. CASE origin \in Versioned
  <2>1. PICK k \in 1..9, rows \in {"none", "bound", "unbound"} : origin = AtVersion(k, rows)
    BY <1>1 DEF Versioned, CURRENT_SCHEMA_VERSION
  <2>2. origin.history = 1..k /\ k \in 1..k
    BY <2>1 DEF AtVersion
  <2>3. Orphaned(origin) => k \in 1..4
    BY <2>2 DEF Orphaned
  <2> QED  BY <2>1, <2>2, <2>3, VersionWellFormed
<1>2. CASE origin \in Legacy
  <2>1. ASSUME NEW k \in 1..9, NEW rows \in {"none", "bound", "unbound"},
               origin = [AtVersion(k, rows) EXCEPT !.history = {}]
        PROVE  origin \in Databases /\ origin.sessions.rows = rows
    <3>1. AtVersion(k, rows) \in Databases /\ AtVersion(k, rows).sessions.rows = rows
      BY VersionWellFormed
    <3> QED  BY <2>1, <3>1 DEF Databases
  <2>2. CASE origin = [AtVersion(1, "unbound") EXCEPT !.history = {}]
    BY <2>1, <2>2
  <2>3. CASE origin = [AtVersion(4, "bound") EXCEPT !.history = {}]
    BY <2>1, <2>3 DEF Orphaned
  <2>4. CASE origin = [AtVersion(5, "bound") EXCEPT !.history = {}]
    BY <2>1, <2>4 DEF Orphaned
  <2>5. CASE origin = [AtVersion(1, "none") EXCEPT !.history = {}, !.sessions.cols = {"runPart"}]
    <3>1. AtVersion(1, "none") \in Databases /\ AtVersion(1, "none").sessions.rows = "none"
      BY VersionWellFormed
    <3>2. origin.sessions = [AtVersion(1, "none").sessions EXCEPT !.cols = {"runPart"}]
      BY <2>5, <3>1 DEF Databases
    <3>3. origin.sessions \in [cols : {{"runPart"}} , rows : {"none"}]
      BY <3>1, <3>2 DEF Databases, Tables
    <3> QED  BY <2>5, <3>1, <3>3 DEF Databases, Tables, SessionGroups, Orphaned
  <2> QED  BY <1>2, <2>2, <2>3, <2>4, <2>5 DEF Legacy
<1>3. CASE origin = Fresh
  BY <1>3, StarterAssumption DEF Orphaned, Fresh, NoTable, Databases, Tables
<1>4. CASE origin = Newer
  <2>1. AtVersion(9, "bound") \in Databases /\ AtVersion(9, "bound").sessions.rows = "bound"
    BY VersionWellFormed
  <2>2. 1..(CURRENT_SCHEMA_VERSION + 1) \in SUBSET (1..CURRENT_SCHEMA_VERSION + 1)
    BY DEF CURRENT_SCHEMA_VERSION
  <2> QED  BY <1>4, <2>1, <2>2 DEF Newer, Orphaned, Databases
<1> QED  BY <1>1, <1>2, <1>3, <1>4 DEF Init

\* A database with sessions without a run is refused or taken for version 1 to 4.
LEMMA UnderstoodAtFirst == Init => Understood
<1> SUFFICES ASSUME Init, Orphaned(origin), ~Refused(origin) PROVE Found(origin) \in 1..4
  BY DEF Understood
<1>1. CASE \E k \in 1..4 : origin.history = 1..k
  <2>1. PICK k \in 1..4 : origin.history = 1..k
    BY <1>1
  <2>2. Highest(origin.history) = k
    <3>1. Highest(1..k) = k
      <4>1. k \in 1..10
        OBVIOUS
      <4> QED  BY <4>1, HighestOfInterval
    <3> QED  BY <2>1, <3>1, Zenon
  <2>3. ~Unversioned(origin)
    <3>1. 1 \in origin.history
      BY <2>1
    <3> QED  BY <3>1 DEF Unversioned
  <2> QED  BY <2>2, <2>3 DEF Found
<1>2. CASE origin = [AtVersion(1, "unbound") EXCEPT !.history = {}]
  <2>1. /\ Unversioned(origin) /\ HasBase(origin) /\ HasTables(origin)
        /\ origin.sessions.cols = {} /\ origin.cols = {}
    BY <1>2 DEF Unversioned, HasBase, HasTables, AtVersion, NoTable
  <2>2. backend = "sqlite"
    BY <2>1 DEF Init, Refused
  <2>3. Infer(origin) = 1
    BY <2>1 DEF Infer
  <2> QED  BY <2>1, <2>2, <2>3 DEF Found
<1> QED  BY <1>1, <1>2, Origins

\* The invariant holds before the first start.
LEMMA StartInit == Init => StartInv
<1> SUFFICES ASSUME Init PROVE StartInv
  OBVIOUS
<1>1. Understood /\ origin \in Databases
  BY UnderstoodAtFirst, Origins
<1>2. /\ DOMAIN pc = Starters /\ pc = [p \in Starters |-> pc[p]]
      /\ DOMAIN version = Starters /\ version = [p \in Starters |-> version[p]]
  BY DEF Init
<1>3. Untouched
  BY DEF Init, Untouched, FirstTransaction
<1> QED  BY <1>1, <1>2, <1>3 DEF StartInv

-----------------------------------------------------------------------------
(* The steps.                                                              *)

\* Understood and the shape of the control variables are kept by every step.
LEMMA Shape ==
    ASSUME StartInv, Next
    PROVE  /\ DOMAIN pc' = Starters /\ pc' = [p \in Starters |-> pc'[p]]
           /\ DOMAIN version' = Starters /\ version' = [p \in Starters |-> version'[p]]
           /\ origin' \in Databases /\ Understood' /\ UNCHANGED <<backend, origin>>
<1>1. UNCHANGED <<backend, origin>>
  BY DEF Next, Step, Begin, BeginPostgres, Lock, Migrate, ScriptStart, ScriptLine, Record, Finish,
         CountUsers, InsertUser, Crash, Restart, Fail, Serving, vars
<1>2. pc' = pc \/ \E p \in Starters : \E l : pc' = [pc EXCEPT ![p] = l]
  BY DEF Next, Step, Begin, BeginPostgres, Lock, Migrate, ScriptStart, ScriptLine, Record, Finish,
         CountUsers, InsertUser, Crash, Restart, Fail, Goto, Serving, vars
<1>3. version' = version \/ \E p \in Starters : \E v : version' = [version EXCEPT ![p] = v]
  BY DEF Next, Step, Begin, BeginPostgres, Lock, Migrate, ScriptStart, ScriptLine, Record, Finish,
         CountUsers, InsertUser, Crash, Restart, Fail, Serving, vars
<1> QED  BY <1>1, <1>2, <1>3 DEF StartInv, Understood, Orphaned, Refused, Found

\* A process that fails or is killed changes nothing that is stored.
LEMMA EndsUnchanged ==
    ASSUME StartInv, Refusable(origin), NEW p \in Starters, NEW l \in {"idle", "failed"},
           Goto(p, l), Free(p), work' = (IF lock = p THEN db ELSE work),
           UNCHANGED <<db, origin, version>>
    PROVE  db' = origin' /\ FirstTransaction'
<1>1. db = origin /\ FirstTransaction
  BY DEF StartInv, Untouched
<1>2. ASSUME NEW q \in Starters, q # p
      PROVE  /\ pc'[q] = pc[q]
             /\ pc[q] = "migrate" => lock = q /\ lock' = q /\ work' = work
  BY <1>1, <1>2, StarterAssumption DEF FirstTransaction, Goto, Free, StartInv
<1>3. pc'[p] = l
  BY DEF StartInv, Goto
<1> QED  BY <1>1, <1>2, <1>3 DEF FirstTransaction, Orphaned

\* A failing start leaves the database and what the others know.
LEMMA FailUnchanged ==
    ASSUME StartInv, Refusable(origin), NEW p \in Starters, Fail(p)
    PROVE  db' = origin' /\ FirstTransaction'
BY EndsUnchanged DEF Fail

\* Migrations 2 to 4 leave sessions without a run as they are.
LEMMA EarlyUpgrade ==
    ASSUME NEW v \in 2..4, NEW d \in Databases, d.sessions.rows = "unbound",
           NEW f \in Upgrade(v, d), NEW e \in Recorded(v, f)
    PROVE  e \in Databases /\ e.sessions.rows = "unbound"
<1>1. f \in Databases /\ f.sessions.rows = "unbound"
  <2>1. CASE v = 2
    <3>1. f \in AddToSessions(d, "run", "unbound")
      BY <2>1 DEF Upgrade, RowsWithoutRun
    <3>2. f = [d EXCEPT !.sessions.cols = @ \cup {"run"}, !.sessions.rows = "unbound"]
      BY <3>1 DEF AddToSessions
    <3>3. d.sessions.cols \cup {"run"} \in SUBSET SessionGroups
      BY DEF Databases, Tables, SessionGroups
    <3> QED  BY <3>2, <3>3 DEF Databases, Tables
  <2>2. CASE v \in {3, 4}
    <3>1. PICK g \in {"slug", "validation"} : f = [d EXCEPT !.cols = @ \cup {g}]
      BY <2>2 DEF Upgrade, AddGroup
    <3> QED  BY <3>1 DEF Databases
  <2> QED  BY <2>1, <2>2
<1>2. e = [f EXCEPT !.history = @ \cup {v}]
  BY DEF Recorded
<1>3. f.history \cup {v} \in SUBSET (1..CURRENT_SCHEMA_VERSION + 1)
  BY <1>1 DEF Databases, CURRENT_SCHEMA_VERSION
<1> QED  BY <1>1, <1>2, <1>3 DEF Databases

\* One step on a database that cannot be upgraded.
LEMMA StepUntouched ==
    ASSUME StartInv, Next, Refusable(origin)
    PROVE  db' = origin' /\ FirstTransaction'
<1> DEFINE Goal == db' = origin' /\ FirstTransaction'
<1>1. db = origin /\ FirstTransaction /\ UNCHANGED <<backend, origin>>
  BY Shape DEF StartInv, Untouched
<1>2. Orphaned(origin) \/ Refused(origin)
  BY DEF Refusable, Orphaned
<1>3. ASSUME NEW p \in Starters, Begin(p) PROVE Goal
  <2>1. CASE Refused(db)
    BY <1>3, <2>1, FailUnchanged DEF Begin
  <2>2. CASE ~Refused(db)
    <3>1. Orphaned(origin) /\ Found(origin) \in 1..4 /\ lock = Nobody
      BY <1>1, <1>2, <1>3, <2>2 DEF Begin, StartInv, Understood
    <3>2. /\ version' = [version EXCEPT ![p] = Found(origin)]
          /\ work' = [origin EXCEPT !.history = IF Unversioned(origin) THEN 1..Infer(origin) ELSE @]
          /\ lock' = p /\ pc' = [pc EXCEPT ![p] = "migrate"] /\ db' = db
      BY <1>1, <1>3, <2>2 DEF Begin, Goto
    <3>3. work' \in Databases /\ work'.sessions.rows = "unbound"
      <4>1. Unversioned(origin) => Infer(origin) \in 1..4
        BY <1>3, <3>1 DEF Begin, Found
      <4>2. (IF Unversioned(origin) THEN 1..Infer(origin) ELSE origin.history)
                \in SUBSET (1..CURRENT_SCHEMA_VERSION + 1)
        BY <4>1 DEF StartInv, Databases, CURRENT_SCHEMA_VERSION
      <4>3. origin \in Databases /\ origin.sessions.rows = "unbound"
        BY <3>1 DEF StartInv, Orphaned
      <4>4. work' = [origin EXCEPT !.history =
                        IF Unversioned(origin) THEN 1..Infer(origin) ELSE origin.history]
        BY <3>2
      <4> QED  BY <4>2, <4>3, <4>4 DEF Databases
    <3>4. ASSUME NEW q \in Starters, q # p
          PROVE  pc[q] # "migrate" /\ pc'[q] = pc[q] /\ version'[q] = version[q]
      BY <1>1, <3>1, <3>2, <3>4, StarterAssumption DEF FirstTransaction, StartInv
    <3>5. pc'[p] = "migrate" /\ version'[p] = Found(origin)
      BY <3>2 DEF StartInv
    <3> QED  BY <1>1, <3>1, <3>2, <3>3, <3>4, <3>5 DEF FirstTransaction, Orphaned
  <2> QED  BY <2>1, <2>2
<1>4. ASSUME NEW p \in Starters, BeginPostgres(p) PROVE Goal
  <2>1. CASE Refused(db)
    BY <1>4, <2>1, FailUnchanged DEF BeginPostgres
  <2>2. CASE ~Refused(db)
    <3>1. Orphaned(origin) /\ Found(origin) \in 1..4
      BY <1>1, <1>2, <2>2 DEF StartInv, Understood
    <3>2. /\ version' = [version EXCEPT ![p] = Found(origin)] /\ pc' = [pc EXCEPT ![p] = "waiting"]
          /\ UNCHANGED <<db, work, lock>>
      BY <1>1, <1>4, <2>2 DEF BeginPostgres, Goto
    <3>3. ASSUME NEW q \in Starters
          PROVE  /\ pc'[q] = IF q = p THEN "waiting" ELSE pc[q]
                 /\ version'[q] = IF q = p THEN Found(origin) ELSE version[q]
      BY <3>2 DEF StartInv
    <3> QED  BY <1>1, <3>1, <3>2, <3>3 DEF FirstTransaction, Orphaned
  <2> QED  BY <2>1, <2>2
<1>5. ASSUME NEW p \in Starters, Lock(p) PROVE Goal
  <2>1. /\ pc[p] = "waiting" /\ lock = Nobody /\ lock' = p /\ work' = db
        /\ pc' = [pc EXCEPT ![p] = "migrate"] /\ UNCHANGED <<db, version>>
    BY <1>5 DEF Lock, Goto
  <2>2. Orphaned(origin) /\ version[p] \in 1..4
    BY <1>1, <2>1 DEF FirstTransaction
  <2>3. ASSUME NEW q \in Starters
        PROVE  pc'[q] = (IF q = p THEN "migrate" ELSE pc[q]) /\ (q # p => pc[q] # "migrate")
    BY <1>1, <2>1, StarterAssumption DEF FirstTransaction, StartInv
  <2>4. work' \in Databases /\ work'.sessions.rows = "unbound"
    BY <1>1, <2>1, <2>2 DEF StartInv, Orphaned
  <2> QED  BY <1>1, <2>1, <2>2, <2>3, <2>4 DEF FirstTransaction, Orphaned
<1>6. ASSUME NEW p \in Starters, Migrate(p) PROVE Goal
  <2> DEFINE v == version[p] + 1
             after == UNION {Recorded(v, d) : d \in Outcome(v, work)}
  <2>1. CASE after = {}
    BY <1>6, <2>1, FailUnchanged DEF Migrate
  <2>2. CASE after # {}
    <3>1. /\ work' \in after /\ version' = [version EXCEPT ![p] = v]
          /\ UNCHANGED <<db, lock, pc>> /\ pc[p] = "migrate"
          /\ backend = "postgres" \/ v \notin Scripts
      BY <1>6, <2>2 DEF Migrate
    <3>2. /\ Orphaned(origin) /\ v \in 2..5 /\ lock = p
          /\ work \in Databases /\ work.sessions.rows = "unbound"
      BY <1>1, <3>1 DEF FirstTransaction
    <3>3. PICK f \in Outcome(v, work) : work' \in Recorded(v, f)
      BY <3>1
    <3>4. v # 5
      <4>1. v = 5 => Outcome(v, work) = {}
        BY <3>2 DEF Outcome, Scripts, UpgradePostgres
      <4> QED  BY <3>3, <4>1
    <3>5. v \in 2..4 /\ f \in Upgrade(v, work)
      BY <3>2, <3>3, <3>4 DEF Outcome, Scripts
    <3>6. work' \in Databases /\ work'.sessions.rows = "unbound"
      <4> HIDE DEF v
      <4> QED  BY <3>2, <3>3, <3>5, EarlyUpgrade
    <3>7. ASSUME NEW q \in Starters
          PROVE  version'[q] = (IF q = p THEN v ELSE version[q]) /\ (q # p => pc[q] # "migrate")
      BY <1>1, <3>1, <3>2 DEF FirstTransaction, StartInv
    <3> HIDE DEF v, after
    <3> QED  BY <1>1, <3>1, <3>2, <3>5, <3>6, <3>7 DEF FirstTransaction, Orphaned
  <2> QED  BY <2>1, <2>2
<1>7. ASSUME NEW p \in Starters, ScriptStart(p) PROVE Goal
  <2>1. version[p] + 1 = 5 /\ work.sessions.rows = "unbound"
    BY <1>1, <1>7 DEF ScriptStart, Scripts, FirstTransaction
  <2> QED  BY <1>7, <2>1, FailUnchanged DEF ScriptStart
<1>8. ASSUME NEW p \in Starters,
             ScriptLine(p) \/ Record(p) \/ Finish(p) \/ CountUsers(p) \/ InsertUser(p)
      PROVE  FALSE
  BY <1>1, <1>8 DEF ScriptLine, Record, Finish, CountUsers, InsertUser, FirstTransaction,
                    CURRENT_SCHEMA_VERSION
<1>9. ASSUME NEW p \in Starters, Crash(p) PROVE Goal
  BY <1>9, EndsUnchanged DEF Crash
<1>10. ASSUME NEW p \in Starters, Restart(p) PROVE Goal
  <2>1. pc' = [pc EXCEPT ![p] = "idle"] /\ UNCHANGED <<db, lock, work, version>>
    BY <1>10 DEF Restart, Goto
  <2>2. ASSUME NEW q \in Starters PROVE pc'[q] = IF q = p THEN "idle" ELSE pc[q]
    BY <2>1 DEF StartInv
  <2> QED  BY <1>1, <2>1, <2>2 DEF FirstTransaction, Orphaned
<1>11. CASE Serving
  BY <1>1, <1>11 DEF Serving, vars, FirstTransaction, Orphaned
<1> QED  BY <1>3, <1>4, <1>5, <1>6, <1>7, <1>8, <1>9, <1>10, <1>11 DEF Next, Step

\* Every step keeps the invariant.
LEMMA StartNext == StartInv /\ [Next]_vars => StartInv'
<1> SUFFICES ASSUME StartInv, [Next]_vars PROVE StartInv'
  OBVIOUS
<1>1. CASE Next
  <2>1. Refusable(origin)' => Refusable(origin)
    BY <1>1, Shape DEF Refusable, Refused
  <2> QED  BY <1>1, <2>1, Shape, StepUntouched DEF StartInv, Untouched
<1>2. CASE UNCHANGED vars
  BY <1>2 DEF vars, StartInv, Understood, Untouched, FirstTransaction, Refusable, Refused, Found,
              Orphaned
<1> QED  BY <1>1, <1>2

\* A database that no service can upgrade is left exactly as it was found, by
\* any number of services that start, crash and start again (init_db).
THEOREM RefusedIsUntouched == Spec => []RefusedUntouched
<1>1. StartInv => RefusedUntouched
  BY DEF StartInv, Untouched, RefusedUntouched
<1> QED  BY StartInit, StartNext, <1>1, PTL DEF Spec
-----------------------------------------------------------------------------
(* The types, whatever is killed and whoever starts beside a script.       *)

\* Who migrates holds the write lock, Postgres alone lets a start wait for it,
\* and SQLite alone runs scripts.
ControlOf(p) ==
    /\ pc[p] = "migrate" <=> lock = p
    /\ pc[p] = "waiting" => backend = "postgres"
    /\ pc[p] \in {"script", "record"} => backend = "sqlite" /\ version[p] + 1 \in Scripts
    /\ pc[p] = "script" => line[p] \in 1..ScriptLength(version[p] + 1)
\* ControlOf for every start.
Control == \A p \in Starters : ControlOf(p)

\* The types, with what the program counter of a start says of its variables.
TypeInv == TypeOK /\ Control

\* What an ALTER TABLE of participant_sessions leaves is a database.
LEMMA AddToSessionsType ==
    ASSUME NEW d \in Databases, NEW g \in SessionGroups,
           NEW rows \in {"absent", "none", "bound", "unbound"}, NEW e \in AddToSessions(d, g, rows)
    PROVE  e \in Databases
<1>1. e = [d EXCEPT !.sessions.cols = @ \cup {g}, !.sessions.rows = rows]
  BY DEF AddToSessions
<1>2. d.sessions.cols \cup {g} \in SUBSET SessionGroups
  BY DEF Databases, Tables
<1> QED  BY <1>1, <1>2 DEF Databases, Tables

\* So is what an ALTER of another table leaves.
LEMMA AddGroupType ==
    ASSUME NEW d \in Databases, NEW g \in {"slug", "validation", "snapshot"}, NEW e \in AddGroup(d, g)
    PROVE  e \in Databases
<1>1. e = [d EXCEPT !.cols = @ \cup {g}]
  BY DEF AddGroup
<1>2. d.cols \cup {g} \in SUBSET {"slug", "validation", "snapshot"}
  BY DEF Databases
<1> QED  BY <1>1, <1>2 DEF Databases

\* Every migration of either store leaves a database.
LEMMA OutcomeType ==
    ASSUME NEW v \in Migrations, v \notin Scripts \/ backend = "postgres",
           NEW d \in Databases, NEW f \in Outcome(v, d), NEW e \in Recorded(v, f)
    PROVE  f \in Databases /\ e \in Databases
<1>1. v \in {1, 2, 3, 4, 5, 6, 7, 8, 9}
  BY DEF Migrations, CURRENT_SCHEMA_VERSION
<1>2. d.sessions.rows \in {"absent", "none", "bound", "unbound"}
  BY DEF Databases, Tables
<1>3. f \in Databases
  <2>1. CASE v = 2
    <3>1. f \in AddToSessions(d, "run", RowsWithoutRun(d))
      BY <2>1 DEF Outcome, Scripts, Upgrade
    <3>2. RowsWithoutRun(d) \in {"absent", "none", "bound", "unbound"}
      BY DEF RowsWithoutRun
    <3> QED  BY <3>1, <3>2, AddToSessionsType DEF SessionGroups
  <2>2. CASE v = 3
    BY <2>2, AddGroupType DEF Outcome, Scripts, Upgrade
  <2>3. CASE v = 4
    BY <2>3, AddGroupType DEF Outcome, Scripts, Upgrade
  <2>4. CASE v = 6
    <3>1. f = [d EXCEPT !.users = IF @ = -1 THEN 0 ELSE @]
      BY <2>4 DEF Outcome, Scripts, Upgrade
    <3> QED  BY <3>1 DEF Databases
  <2>5. CASE v = 8
    <3>1. PICK g \in AddToSessions(d, "snapshot", d.sessions.rows) : f \in AddGroup(g, "snapshot")
      BY <2>5 DEF Outcome, Scripts, Upgrade
    <3>2. g \in Databases
      BY <1>2, AddToSessionsType DEF SessionGroups
    <3> QED  BY <3>1, <3>2, AddGroupType
  <2>6. CASE v = 9
    <3>1. f \in AddToSessions(d, "stage", d.sessions.rows)
      BY <2>6 DEF Outcome, Scripts, Upgrade
    <3> QED  BY <1>2, <3>1, AddToSessionsType DEF SessionGroups
  <2>7. CASE v = 1
    <3>1. f = [d EXCEPT !.sessions = [cols |-> {}, rows |-> "none"], !.others = OtherTables]
      BY <2>7 DEF Outcome, Scripts, UpgradePostgres
    <3>2. [cols |-> {}, rows |-> "none"] \in Tables /\ OtherTables \in 0..OtherTables
      BY StarterAssumption DEF Tables
    <3> QED  BY <3>1, <3>2 DEF Databases
  <2>8. CASE v = 5
    <3>1. f = [d EXCEPT !.sessions.cols = @ \cup {"notNull"}]
      BY <2>8 DEF Outcome, Scripts, UpgradePostgres
    <3>2. d.sessions.cols \cup {"notNull"} \in SUBSET SessionGroups
      BY DEF Databases, Tables, SessionGroups
    <3> QED  BY <3>1, <3>2 DEF Databases, Tables
  <2>9. CASE v = 7
    <3>1. f \in AddToSessions(d, "created", d.sessions.rows)
      BY <2>9 DEF Outcome, Scripts, UpgradePostgres
    <3> QED  BY <1>2, <3>1, AddToSessionsType DEF SessionGroups
  <2> QED  BY <1>1, <2>1, <2>2, <2>3, <2>4, <2>5, <2>6, <2>7, <2>8, <2>9
<1>4. e = [f EXCEPT !.history = @ \cup {v}]
  BY DEF Recorded
<1>5. f.history \cup {v} \in SUBSET (1..CURRENT_SCHEMA_VERSION + 1)
  BY <1>3 DEF Databases, CURRENT_SCHEMA_VERSION, Migrations
<1> QED  BY <1>3, <1>4, <1>5 DEF Databases

\* The length of a script is a number.
LEMMA ScriptLengthType == ASSUME NEW v \in Scripts PROVE ScriptLength(v) \in Nat \ {0}
BY StarterAssumption DEF Scripts, ScriptLength

\* Every statement of a script leaves a database.
LEMMA StatementType ==
    ASSUME NEW v \in Scripts, NEW l \in 1..ScriptLength(v), NEW d \in Databases,
           NEW e \in Statement(v, l, d)
    PROVE  e \in Databases
<1> DEFINE left == ScriptLength(v) - l
<1>0. OtherTables \in Nat /\ NoTable \in Tables
  BY StarterAssumption DEF NoTable, Tables
<1>1. CASE v = 1
  <2>1. l \in 1..(1 + OtherTables)
    BY <1>1 DEF ScriptLength
  <2>2. CASE l = 1
    <3>1. e = [d EXCEPT !.sessions = [cols |-> {}, rows |-> "none"]]
      BY <1>1, <2>2 DEF Statement
    <3> QED  BY <3>1 DEF Databases, Tables
  <2>3. CASE l > 1
    <3>1. e \in {f \in {[d EXCEPT !.others = l - 1]} : d.others < l - 1}
      BY <1>1, <1>0, <2>1, <2>3 DEF Statement
    <3>2. l - 1 \in 0..OtherTables
      BY <1>0, <2>1
    <3> QED  BY <3>1, <3>2 DEF Databases
  <2> QED  BY <1>0, <2>1, <2>2, <2>3
<1>2. CASE v # 1
  <2>1. ScriptLength(v) \in {4, 5} /\ v \in {5, 7} /\ l \in 1..ScriptLength(v)
    BY <1>2 DEF ScriptLength, Scripts
  <2>2. \/ \E c \in SUBSET SessionGroups : e \in CreateCopy(d, c)
        \/ e = [d EXCEPT !.copy = NoTable]
        \/ e \in FillCopy(d) \/ e \in DropSessions(d) \/ e \in RenameCopy(d)
    <3>1. {"run", "notNull"} \in SUBSET SessionGroups /\ {"run", "notNull", "created"} \in SUBSET SessionGroups
      BY DEF SessionGroups
    <3>2. CASE v = 5
      <4>1. l \in {1, 2, 3, 4} /\ ScriptLength(v) = 4
        BY <3>2, <2>1 DEF ScriptLength
      <4> QED  BY <3>1, <3>2, <4>1 DEF Statement
    <3>3. CASE v = 7
      <4>1. l \in {1, 2, 3, 4, 5} /\ ScriptLength(v) = 5
        BY <3>3, <2>1 DEF ScriptLength
      <4> QED  BY <3>1, <3>3, <4>1 DEF Statement
    <3> QED  BY <2>1, <3>2, <3>3
  <2>3. ASSUME NEW c \in SUBSET SessionGroups, e \in CreateCopy(d, c) PROVE e \in Databases
    BY <2>3 DEF CreateCopy, Databases, Tables
  <2>4. e = [d EXCEPT !.copy = NoTable] => e \in Databases
    BY <1>0 DEF Databases
  <2>5. e \in FillCopy(d) => e \in Databases
    BY DEF FillCopy, Databases, Tables
  <2>6. e \in DropSessions(d) => e \in Databases
    BY <1>0 DEF DropSessions, Databases
  <2>7. e \in RenameCopy(d) => e \in Databases
    BY <1>0 DEF RenameCopy, Databases
  <2> QED  BY <2>2, <2>3, <2>4, <2>5, <2>6, <2>7
<1> QED  BY <1>1, <1>2

\* The last version of a history is one of its versions.
LEMMA HighestType ==
    ASSUME NEW history \in SUBSET (1..10), history # {}
    PROVE  Highest(history) \in history
<1>1. ASSUME NEW m \in history, \A w \in history : w <= m PROVE Highest(history) \in history
  BY <1>1 DEF Highest
<1>2. CASE \E m \in 6..10 : m \in history
  <2>1. \E m \in history : \A w \in history : w <= m
    BY <1>2
  <2> QED  BY <1>1, <2>1
<1>3. CASE \A m \in 6..10 : m \notin history
  <2>1. \A w \in history : w \in 1..5
    BY <1>3
  <2>2. \E m \in 1..5 : m \in history
    BY <2>1
  <2>3. \E m \in history : \A w \in history : w <= m
    BY <2>1, <2>2
  <2> QED  BY <1>1, <2>3
<1> QED  BY <1>2, <1>3

\* What a start takes for the version of a database it does not refuse.
LEMMA FoundType ==
    ASSUME NEW d \in Databases, ~Refused(d)
    PROVE  Found(d) \in 0..CURRENT_SCHEMA_VERSION /\ Infer(d) \in 0..CURRENT_SCHEMA_VERSION
<1>1. Infer(d) \in 0..CURRENT_SCHEMA_VERSION
  BY DEF Infer, CURRENT_SCHEMA_VERSION
<1>2. ~Unversioned(d) => Highest(d.history) \in 0..CURRENT_SCHEMA_VERSION
  <2>1. d.history \in SUBSET (1..10)
    BY DEF Databases, CURRENT_SCHEMA_VERSION
  <2>2. ~Unversioned(d) => Highest(d.history) \in d.history
    BY <2>1, HighestType DEF Unversioned
  <2> QED  BY <2>1, <2>2 DEF Refused, CURRENT_SCHEMA_VERSION
<1> QED  BY <1>1, <1>2 DEF Found, CURRENT_SCHEMA_VERSION

\* No step mends a script: what is stopped stays stopped, what is torn torn.
LEMMA ScriptsStep ==
    ASSUME scripts \in {"whole", "stopped", "torn"}, [Next]_vars
    PROVE  /\ scripts' \in {"whole", "stopped", "torn"}
           /\ scripts' = "whole" => scripts = "whole"
           /\ scripts' # "torn" => scripts # "torn"
<1>1. \/ scripts' = scripts
      \/ scripts' = "torn"
      \/ scripts' = "stopped" /\ scripts # "torn"
  BY DEF Next, Step, Begin, BeginPostgres, Lock, Migrate, ScriptStart, ScriptLine, Record, Finish,
         CountUsers, InsertUser, Crash, Restart, Fail, Serving, vars, BesideScript, StoppedScript
<1> QED  BY <1>1

\* The types hold before the first start.
LEMMA TypeInit == Init => TypeInv
<1> SUFFICES ASSUME Init PROVE TypeInv
  OBVIOUS
<1>1. origin \in Databases
  BY Origins
<1> QED  BY <1>1, StarterAssumption DEF Init, TypeInv, TypeOK, Control, ControlOf, CURRENT_SCHEMA_VERSION

\* A process that fails or is killed rolls back what it holds.
LEMMA EndsType ==
    ASSUME TypeInv, NEW p \in Starters, NEW l \in {"idle", "failed"}, Goto(p, l), Free(p),
           work' = (IF lock = p THEN db ELSE work), crashes' \in 0..MaxCrashes,
           scripts' \in {"whole", "stopped", "torn"},
           UNCHANGED <<backend, origin, db, version, line>>
    PROVE  TypeInv'
<1>1. pc' = [pc EXCEPT ![p] = l] /\ lock' = (IF lock = p THEN Nobody ELSE lock)
  BY DEF Goto, Free
<1>2. TypeOK'
  BY <1>1 DEF TypeInv, TypeOK
<1>3. \A q \in Starters : pc'[q] = (IF q = p THEN l ELSE pc[q]) /\ (lock' = q <=> q # p /\ lock = q)
  BY <1>1, StarterAssumption DEF TypeInv, TypeOK
<1> QED  BY <1>2, <1>3 DEF TypeInv, Control, ControlOf

\* So does a failing start.
LEMMA FailType == ASSUME TypeInv, NEW p \in Starters, Fail(p) PROVE TypeInv'
<1>1. crashes' \in 0..MaxCrashes /\ scripts' \in {"whole", "stopped", "torn"}
  BY DEF Fail, TypeInv, TypeOK
<1> QED  BY <1>1, EndsType DEF Fail

\* The types survive every step.
LEMMA TypeNext == TypeInv /\ [Next]_vars => TypeInv'
<1> SUFFICES ASSUME TypeInv, [Next]_vars PROVE TypeInv'
  OBVIOUS
<1> USE DEF TypeInv
<1>0. scripts' \in {"whole", "stopped", "torn"}
  BY ScriptsStep DEF TypeOK
<1>1. ASSUME NEW p \in Starters, Begin(p) PROVE TypeInv'
  <2>1. CASE Refused(db)
    BY <1>1, <2>1, FailType DEF Begin
  <2>2. CASE ~Refused(db)
    <3>1. /\ version' = [version EXCEPT ![p] = Found(db)]
          /\ work' = [db EXCEPT !.history = IF Unversioned(db) THEN 1..Infer(db) ELSE @]
          /\ lock' = p /\ pc' = [pc EXCEPT ![p] = "migrate"] /\ lock = Nobody
          /\ UNCHANGED <<backend, origin, db, line, crashes>>
      BY <1>1, <2>2 DEF Begin, Goto
    <3>2. Found(db) \in 0..CURRENT_SCHEMA_VERSION /\ Infer(db) \in 0..CURRENT_SCHEMA_VERSION
      BY <2>2, FoundType DEF TypeOK
    <3>3. (IF Unversioned(db) THEN 1..Infer(db) ELSE db.history) \in SUBSET (1..CURRENT_SCHEMA_VERSION + 1)
      BY <3>2 DEF TypeOK, Databases, CURRENT_SCHEMA_VERSION
    <3>4. work' \in Databases
      BY <3>1, <3>3 DEF TypeOK, Databases
    <3>5. TypeOK'
      BY <1>0, <3>1, <3>2, <3>4, StarterAssumption DEF TypeOK
    <3>6. \A q \in Starters : /\ pc'[q] = (IF q = p THEN "migrate" ELSE pc[q]) /\ lock # q
                              /\ q # p => version'[q] = version[q]
      BY <3>1, StarterAssumption DEF TypeOK
    <3> QED  BY <3>1, <3>5, <3>6 DEF Control, ControlOf
  <2> QED  BY <2>1, <2>2
<1>2. ASSUME NEW p \in Starters, BeginPostgres(p) PROVE TypeInv'
  <2>1. CASE Refused(db)
    BY <1>2, <2>1, FailType DEF BeginPostgres
  <2>2. CASE ~Refused(db)
    <3>1. /\ version' = [version EXCEPT ![p] = Found(db)] /\ pc' = [pc EXCEPT ![p] = "waiting"]
          /\ backend = "postgres" /\ pc[p] = "idle"
          /\ UNCHANGED <<backend, origin, db, lock, work, line, crashes>>
      BY <1>2, <2>2 DEF BeginPostgres, Goto
    <3>2. Found(db) \in 0..CURRENT_SCHEMA_VERSION
      BY <2>2, FoundType DEF TypeOK
    <3>3. TypeOK'
      BY <1>0, <3>1, <3>2 DEF TypeOK
    <3>4. \A q \in Starters : /\ pc'[q] = (IF q = p THEN "waiting" ELSE pc[q])
                              /\ q # p => version'[q] = version[q]
      BY <3>1 DEF TypeOK
    <3> QED  BY <3>1, <3>3, <3>4 DEF Control, ControlOf
  <2> QED  BY <2>1, <2>2
<1>3. ASSUME NEW p \in Starters, Lock(p) PROVE TypeInv'
  <2>1. /\ lock = Nobody /\ lock' = p /\ work' = db /\ pc' = [pc EXCEPT ![p] = "migrate"]
        /\ UNCHANGED <<backend, origin, db, version, line, crashes>>
    BY <1>3 DEF Lock, Goto
  <2>2. TypeOK'
    BY <1>0, <2>1, StarterAssumption DEF TypeOK
  <2>3. \A q \in Starters : pc'[q] = (IF q = p THEN "migrate" ELSE pc[q]) /\ lock # q
    BY <2>1, StarterAssumption DEF TypeOK
  <2> QED  BY <2>1, <2>2, <2>3 DEF Control, ControlOf
<1>4. ASSUME NEW p \in Starters, Migrate(p) PROVE TypeInv'
  <2> DEFINE v == version[p] + 1
             after == UNION {Recorded(v, d) : d \in Outcome(v, work)}
  <2>1. CASE after = {}
    BY <1>4, <2>1, FailType DEF Migrate
  <2>2. CASE after # {}
    <3>1. /\ work' \in after /\ version' = [version EXCEPT ![p] = v]
          /\ pc[p] = "migrate" /\ v \in Migrations /\ (backend = "postgres" \/ v \notin Scripts)
          /\ UNCHANGED <<backend, origin, db, lock, pc, line, crashes>>
      BY <1>4, <2>2 DEF Migrate, TypeOK, Migrations, CURRENT_SCHEMA_VERSION
    <3>2. work' \in Databases
      <4>1. PICK f \in Outcome(v, work) : work' \in Recorded(v, f)
        BY <3>1
      <4> HIDE DEF v
      <4> QED  BY <3>1, <4>1, OutcomeType DEF TypeOK
    <3>3. lock = p
      BY <3>1 DEF Control, ControlOf
    <3>4. TypeOK'
      <4> HIDE DEF v, after
      <4> QED  BY <1>0, <3>1, <3>2, <3>3, StarterAssumption DEF TypeOK, Migrations
    <3>5. \A q \in Starters : q # p => version'[q] = version[q]
      BY <3>1 DEF TypeOK
    <3> QED  BY <3>1, <3>4, <3>5 DEF Control, ControlOf
  <2> QED  BY <2>1, <2>2
<1>5. ASSUME NEW p \in Starters, ScriptStart(p) PROVE TypeInv'
  <2> DEFINE orphans == version[p] + 1 = 5 /\ (work.sessions = NoTable \/ work.sessions.rows = "unbound")
  <2>1. CASE orphans
    BY <1>5, <2>1, FailType DEF ScriptStart
  <2>2. CASE ~orphans
    <3>1. /\ db' = work /\ lock' = Nobody /\ line' = [line EXCEPT ![p] = 1]
          /\ pc' = [pc EXCEPT ![p] = "script"] /\ pc[p] = "migrate" /\ version[p] + 1 \in Scripts
          /\ backend = "sqlite" /\ UNCHANGED <<backend, origin, work, version, crashes>>
      BY <1>5, <2>2 DEF ScriptStart, Goto
    <3>2. lock = p
      BY <3>1 DEF Control, ControlOf
    <3>3. TypeOK'
      BY <1>0, <3>1 DEF TypeOK
    <3>4. \A q \in Starters : /\ pc'[q] = (IF q = p THEN "script" ELSE pc[q]) /\ lock' # q
                              /\ line'[q] = (IF q = p THEN 1 ELSE line[q])
                              /\ q # p => pc[q] # "migrate"
      BY <3>1, <3>2, StarterAssumption DEF TypeOK, Control, ControlOf
    <3>5. 1 \in 1..ScriptLength(version[p] + 1)
      BY <3>1, ScriptLengthType
    <3> QED  BY <3>1, <3>3, <3>4, <3>5 DEF Control, ControlOf
  <2> QED  BY <2>1, <2>2
<1>6. ASSUME NEW p \in Starters, ScriptLine(p) PROVE TypeInv'
  <2> DEFINE v == version[p] + 1
             after == Statement(v, line[p], db)
  <2>1. CASE after = {}
    BY <1>6, <2>1, FailType DEF ScriptLine
  <2>2. CASE after # {}
    <3>1. /\ db' \in after /\ work' = db' /\ line' = [line EXCEPT ![p] = @ + 1] /\ pc[p] = "script"
          /\ pc' = [pc EXCEPT ![p] = IF line[p] = ScriptLength(v) THEN "record" ELSE "script"]
          /\ lock = Nobody /\ UNCHANGED <<backend, origin, lock, version, crashes>>
      BY <1>6, <2>2 DEF ScriptLine, Goto
    <3>2. backend = "sqlite" /\ v \in Scripts /\ line[p] \in 1..ScriptLength(v)
      BY <3>1 DEF Control, ControlOf
    <3>3. db' \in Databases
      <4> HIDE DEF v
      <4> QED  BY <3>1, <3>2, StatementType DEF TypeOK
    <3>4. line[p] + 1 \in Nat /\ (line[p] # ScriptLength(v) => line[p] + 1 \in 1..ScriptLength(v))
      BY <3>2, ScriptLengthType
    <3> HIDE DEF v, after
    <3>5. TypeOK'
      BY <1>0, <3>1, <3>3, <3>4 DEF TypeOK
    <3>6. \A q \in Starters : q # p => pc'[q] = pc[q] /\ line'[q] = line[q]
      BY <3>1 DEF TypeOK
    <3>7. /\ pc'[p] = (IF line[p] = ScriptLength(v) THEN "record" ELSE "script")
          /\ line'[p] = line[p] + 1 /\ lock # p
      BY <3>1, StarterAssumption DEF TypeOK
    <3>8. v = version'[p] + 1 /\ version' = version
      BY <3>1 DEF v
    <3>9. \A q \in Starters : q # p => ControlOf(q)'
      BY <3>1, <3>6, <3>8 DEF Control, ControlOf
    <3>10. ControlOf(p)'
      BY <3>1, <3>2, <3>4, <3>7, <3>8 DEF ControlOf
    <3> QED  BY <3>5, <3>9, <3>10 DEF Control, ControlOf
  <2> QED  BY <2>1, <2>2
<1>7. ASSUME NEW p \in Starters, Record(p) PROVE TypeInv'
  <2> DEFINE v == version[p] + 1
  <2>1. CASE Recorded(v, db) = {}
    BY <1>7, <2>1, FailType DEF Record
  <2>2. CASE Recorded(v, db) # {}
    <3>1. /\ work' \in Recorded(v, db) /\ lock = Nobody /\ lock' = p /\ pc[p] = "record"
          /\ version' = [version EXCEPT ![p] = v] /\ pc' = [pc EXCEPT ![p] = "migrate"]
          /\ UNCHANGED <<backend, origin, db, line, crashes>>
      BY <1>7, <2>2 DEF Record, Goto
    <3>2. v \in Scripts
      BY <3>1 DEF Control, ControlOf
    <3>3. v \in 0..CURRENT_SCHEMA_VERSION
      BY <3>2 DEF Scripts, CURRENT_SCHEMA_VERSION
    <3>4. work' \in Databases
      <4>1. work' = [db EXCEPT !.history = @ \cup {v}]
        BY <3>1 DEF Recorded
      <4>2. db.history \cup {v} \in SUBSET (1..CURRENT_SCHEMA_VERSION + 1)
        BY <3>2 DEF TypeOK, Databases, Scripts, CURRENT_SCHEMA_VERSION
      <4> QED  BY <4>1, <4>2 DEF TypeOK, Databases
    <3> HIDE DEF v
    <3>5. TypeOK'
      BY <1>0, <3>1, <3>3, <3>4, StarterAssumption DEF TypeOK
    <3>6. \A q \in Starters : /\ pc'[q] = (IF q = p THEN "migrate" ELSE pc[q]) /\ lock # q
                              /\ q # p => version'[q] = version[q]
      BY <3>1, StarterAssumption DEF TypeOK
    <3> QED  BY <3>1, <3>5, <3>6 DEF Control, ControlOf
  <2> QED  BY <2>1, <2>2
<1>8. ASSUME NEW p \in Starters, Finish(p) PROVE TypeInv'
  <2>1. CASE ~Validated(work)
    BY <1>8, <2>1, FailType DEF Finish
  <2>2. CASE Validated(work)
    <3>1. PICK l \in {"countUsers", "ready"} : pc' = [pc EXCEPT ![p] = l]
      BY <1>8, <2>2 DEF Finish, Goto
    <3>2. /\ db' = work /\ lock' = Nobody /\ pc[p] = "migrate"
          /\ UNCHANGED <<backend, origin, work, version, line, crashes>>
      BY <1>8, <2>2 DEF Finish
    <3>3. TypeOK'
      BY <1>0, <3>1, <3>2 DEF TypeOK
    <3>4. \A q \in Starters : /\ pc'[q] = (IF q = p THEN l ELSE pc[q]) /\ lock' # q
                              /\ q # p => pc[q] # "migrate"
      BY <3>1, <3>2, StarterAssumption DEF TypeOK, Control, ControlOf
    <3> QED  BY <3>2, <3>3, <3>4 DEF Control, ControlOf
  <2> QED  BY <2>1, <2>2
<1>9. ASSUME NEW p \in Starters, CountUsers(p) PROVE TypeInv'
  <2>1. CASE db.users = -1
    BY <1>9, <2>1, FailType DEF CountUsers
  <2>2. CASE db.users # -1
    <3>1. PICK l \in {"ready", "insertUser"} : pc' = [pc EXCEPT ![p] = l]
      BY <1>9, <2>2 DEF CountUsers, Goto
    <3>2. pc[p] = "countUsers" /\ UNCHANGED <<backend, origin, db, lock, work, version, line, crashes>>
      BY <1>9, <2>2 DEF CountUsers
    <3>3. TypeOK'
      BY <1>0, <3>1, <3>2 DEF TypeOK
    <3>4. \A q \in Starters : pc'[q] = (IF q = p THEN l ELSE pc[q])
      BY <3>1 DEF TypeOK
    <3> QED  BY <3>2, <3>3, <3>4 DEF Control, ControlOf
  <2> QED  BY <2>1, <2>2
<1>10. ASSUME NEW p \in Starters, InsertUser(p) PROVE TypeInv'
  <2>1. CASE db.users # 0
    BY <1>10, <2>1, FailType DEF InsertUser
  <2>2. CASE db.users = 0
    <3>1. /\ db' = [db EXCEPT !.users = 1] /\ work' = db' /\ pc' = [pc EXCEPT ![p] = "ready"]
          /\ pc[p] = "insertUser" /\ lock = Nobody
          /\ UNCHANGED <<backend, origin, lock, version, line, crashes>>
      BY <1>10, <2>2 DEF InsertUser, Goto
    <3>2. db' \in Databases
      BY <3>1 DEF TypeOK, Databases
    <3>3. TypeOK'
      BY <1>0, <3>1, <3>2 DEF TypeOK
    <3>4. \A q \in Starters : pc'[q] = (IF q = p THEN "ready" ELSE pc[q])
      BY <3>1 DEF TypeOK
    <3> QED  BY <3>1, <3>3, <3>4 DEF Control, ControlOf
  <2> QED  BY <2>1, <2>2
<1>11. ASSUME NEW p \in Starters, Crash(p) PROVE TypeInv'
  <2>1. crashes' \in 0..MaxCrashes
    BY <1>11, StarterAssumption DEF Crash, TypeOK
  <2> QED  BY <1>0, <1>11, <2>1, EndsType DEF Crash
<1>12. ASSUME NEW p \in Starters, Restart(p) PROVE TypeInv'
  <2>1. /\ pc' = [pc EXCEPT ![p] = "idle"] /\ pc[p] = "failed"
        /\ UNCHANGED <<backend, origin, db, lock, work, version, line, crashes>>
    BY <1>12 DEF Restart, Goto
  <2>2. TypeOK'
    BY <1>0, <2>1 DEF TypeOK
  <2>3. \A q \in Starters : pc'[q] = IF q = p THEN "idle" ELSE pc[q]
    BY <2>1 DEF TypeOK
  <2> QED  BY <2>1, <2>2, <2>3 DEF Control, ControlOf
<1>13. CASE Serving \/ UNCHANGED vars
  BY <1>0, <1>13 DEF Serving, vars, TypeOK, Control, ControlOf
<1> QED  BY <1>1, <1>2, <1>3, <1>4, <1>5, <1>6, <1>7, <1>8, <1>9, <1>10, <1>11, <1>12, <1>13
         DEF Next, Step

\* The variables keep their types and a free lock has no uncommitted work,
\* with any number of services, killed anywhere, beside a script or inside one.
THEOREM TypeCorrect == Spec => []TypeOK
<1>1. TypeInv => TypeOK
  BY DEF TypeInv
<1> QED  BY TypeInit, TypeNext, <1>1, PTL DEF Spec

-----------------------------------------------------------------------------
(* What an upgrade goes through, as long as no script is disturbed.        *)

\* The sessions an upgradable database has: all bound to a run, or none.
Kept == IF origin.sessions.rows = "bound" THEN "bound" ELSE "none"

\* The users that a database of version k may have.
UsersAt(k) == IF k < 6 THEN {-1} ELSE {0, 1}

\* The column groups of version k, in participant_sessions and elsewhere.
SessionGroupsAt(k) == AtVersion(k, "none").sessions.cols
\* The groups of columns a database of version k has.
GroupsAt(k) == AtVersion(k, "none").cols

\* The tables of version k around the given sessions; 0 is an empty database.
At(k, rows, d) ==
    /\ d.sessions = IF k = 0 THEN NoTable ELSE [cols |-> SessionGroupsAt(k), rows |-> rows]
    /\ d.others = IF k = 0 THEN 0 ELSE OtherTables
    /\ d.cols = GroupsAt(k)
    /\ d.copy = NoTable
    /\ d.users \in UsersAt(k)
    /\ k <= 1 => rows = "none"

\* The tables of version k with a history that ends at h.
Version(k, h, rows, d) == At(k, rows, d) /\ d.history = 1..h

\* A script has run and is not recorded.
Unrecorded(k, h) == h = k - 1 /\ k \in Scripts

\* Between two transactions: a version whose history says so, or SQLite
\* tables whose last script is not recorded or that have no history.
Settled(d) ==
    \E k, h \in 0..9 :
        /\ Version(k, h, Kept, d)
        /\ h = k \/ (backend = "sqlite" /\ (Unrecorded(k, h) \/ (h = 0 /\ k \in {4, 5})))

\* Migration v, 5 or 7, replaces the sessions of version k by a copy; left
\* counts the statements after the next one.
Rebuilding(k, v, left, rows, d) ==
    /\ d.sessions = IF left = 0 THEN NoTable ELSE [cols |-> SessionGroupsAt(k), rows |-> rows]
    /\ d.copy = IF left > 2 THEN NoTable
                ELSE [cols |-> SessionGroupsAt(v),
                      rows |-> IF left = 2 THEN "none" ELSE rows]
    /\ d.others = OtherTables
    /\ d.cols = GroupsAt(k)
    /\ d.users \in UsersAt(k)

\* Before statement l of the script of migration v.
HalfDone(v, l, rows, d) ==
    /\ v \in Scripts /\ l \in 1..ScriptLength(v) /\ d.history = 1..(v - 1)
    /\ \/ v = 1 /\ l = 1 /\ At(0, rows, d)
       \/ /\ v = 1 /\ l > 1 /\ rows = "none"
          /\ d.sessions = [cols |-> {}, rows |-> "none"] /\ d.others = l - 2
          /\ d.cols = {} /\ d.copy = NoTable /\ d.users = -1
       \/ \E k \in {v - 1, v} : v # 1 /\ Rebuilding(k, v, ScriptLength(v) - l, rows, d)

-----------------------------------------------------------------------------
(* What one migration does to the tables.                                  *)

\* The column groups of a version, from those of the one before.
LEMMA GroupsGrow ==
    /\ SessionGroupsAt(1) = {}
    /\ SessionGroupsAt(2) = {"run"}
    /\ SessionGroupsAt(3) = {"run"}
    /\ SessionGroupsAt(4) = {"run"}
    /\ SessionGroupsAt(5) = {"run", "notNull"}
    /\ SessionGroupsAt(6) = {"run", "notNull"}
    /\ SessionGroupsAt(7) = {"run", "notNull", "created"}
    /\ SessionGroupsAt(8) = {"run", "notNull", "created", "snapshot"}
    /\ SessionGroupsAt(9) = {"run", "notNull", "created", "snapshot", "stage"}
    /\ GroupsAt(0) = {}
    /\ GroupsAt(1) = {}
    /\ GroupsAt(2) = {}
    /\ GroupsAt(3) = {"slug"}
    /\ GroupsAt(4) = {"slug", "validation"}
    /\ GroupsAt(5) = {"slug", "validation"}
    /\ GroupsAt(6) = {"slug", "validation"}
    /\ GroupsAt(7) = {"slug", "validation"}
    /\ GroupsAt(8) = {"slug", "validation", "snapshot"}
    /\ GroupsAt(9) = {"slug", "validation", "snapshot"}
BY DEF AtVersion, SessionGroupsAt, GroupsAt

\* What an ALTER TABLE of participant_sessions changes.
LEMMA AddToSessionsEffect ==
    ASSUME NEW d \in Databases, NEW g, NEW rows, NEW e \in AddToSessions(d, g, rows)
    PROVE  e.sessions = [cols |-> d.sessions.cols \cup {g}, rows |-> rows]
<1>1. e = [d EXCEPT !.sessions.cols = @ \cup {g}, !.sessions.rows = rows]
  BY DEF AddToSessions
<1>2. d.sessions = [cols |-> d.sessions.cols, rows |-> d.sessions.rows]
  BY DEF Databases, Tables
<1> QED  BY <1>1, <1>2 DEF Databases

\* What it leaves alone.
LEMMA AddToSessionsFrame ==
    ASSUME NEW d \in Databases, NEW g, NEW rows, NEW e \in AddToSessions(d, g, rows)
    PROVE  /\ e.history = d.history /\ e.others = d.others /\ e.cols = d.cols
           /\ e.copy = d.copy /\ e.users = d.users
BY DEF AddToSessions, Databases

\* What an ALTER of another table changes.
LEMMA AddGroupEffect ==
    ASSUME NEW d \in Databases, NEW g, NEW e \in AddGroup(d, g)
    PROVE  /\ e.cols = d.cols \cup {g}
           /\ e.history = d.history /\ e.others = d.others /\ e.sessions = d.sessions
           /\ e.copy = d.copy /\ e.users = d.users
BY DEF AddGroup, Databases

\* No migration touches the history or the copy that a script may have left.
LEMMA MigrationFrame ==
    ASSUME NEW v \in Migrations, v \notin Scripts \/ backend = "postgres",
           NEW d \in Databases, NEW f \in Outcome(v, d)
    PROVE  f.history = d.history /\ f.copy = d.copy
<1>0. v \in {1, 2, 3, 4, 5, 6, 7, 8, 9}
  BY DEF Migrations, CURRENT_SCHEMA_VERSION
<1>1. CASE v \in {2, 7, 9}
  <2>1. PICK g \in SessionGroups, r \in {"none", "bound", "unbound", "absent"} :
            f \in AddToSessions(d, g, r)
    BY <1>1 DEF Outcome, Scripts, Upgrade, UpgradePostgres, RowsWithoutRun, SessionGroups,
                Databases, Tables
  <2> QED  BY <2>1, AddToSessionsFrame
<1>2. CASE v \in {3, 4}
  <2>1. \E g : f \in AddGroup(d, g)
    BY <1>2 DEF Outcome, Scripts, Upgrade
  <2> QED  BY <2>1, AddGroupEffect
<1>3. CASE v = 8
  <2>1. PICK x \in AddToSessions(d, "snapshot", d.sessions.rows) : f \in AddGroup(x, "snapshot")
    BY <1>3 DEF Outcome, Scripts, Upgrade
  <2>2. x \in Databases
    BY AddToSessionsType DEF SessionGroups, Databases, Tables
  <2>3. x.history = d.history /\ x.copy = d.copy
    BY <2>1, AddToSessionsFrame
  <2> QED  BY <2>1, <2>2, <2>3, AddGroupEffect
<1>4. CASE v = 1
  <2>1. f = [d EXCEPT !.sessions = [cols |-> {}, rows |-> "none"], !.others = OtherTables]
    BY <1>4 DEF Outcome, Scripts, UpgradePostgres
  <2> QED  BY <2>1 DEF Databases
<1>5. CASE v = 5
  <2>1. f = [d EXCEPT !.sessions.cols = @ \cup {"notNull"}]
    BY <1>5 DEF Outcome, Scripts, UpgradePostgres
  <2> QED  BY <2>1 DEF Databases
<1>6. CASE v = 6
  <2>1. f = [d EXCEPT !.users = IF @ = -1 THEN 0 ELSE @]
    BY <1>6 DEF Outcome, Scripts, Upgrade
  <2> QED  BY <2>1 DEF Databases
<1> QED  BY <1>0, <1>1, <1>2, <1>3, <1>4, <1>5, <1>6

\* A migration takes the tables of one version to those of the next.
LEMMA NextTables ==
    ASSUME NEW k \in 0..8, NEW rows \in {"none", "bound"}, NEW d \in Databases, At(k, rows, d),
           NEW f \in Outcome(k + 1, d), f \in Databases
    PROVE  At(k + 1, rows, f) /\ d.users <= f.users
<1>0. k \in {0, 1, 2, 3, 4, 5, 6, 7, 8}
  OBVIOUS
<1>1. CASE k = 0
  <2>1. At(0, rows, d) /\ f \in Outcome(1, d) /\ k + 1 = 1
    BY <1>1
  <2>2. f = [d EXCEPT !.sessions = [cols |-> {}, rows |-> "none"], !.others = OtherTables]
    BY <2>1 DEF Outcome, Scripts, UpgradePostgres
  <2>3. /\ f.sessions = [cols |-> {}, rows |-> "none"] /\ f.others = OtherTables
        /\ f.cols = d.cols /\ f.users = d.users /\ f.copy = d.copy
    BY <2>2 DEF Databases
  <2>4. f.sessions = [cols |-> SessionGroupsAt(1), rows |-> rows]
    BY <2>1, <2>3, GroupsGrow DEF At
  <2>5. f.cols = GroupsAt(1)
    BY <2>1, <2>3, GroupsGrow DEF At
  <2> QED  BY <2>1, <2>3, <2>4, <2>5 DEF At, UsersAt
<1>2. CASE k = 1
  <2>1. At(1, rows, d) /\ f \in Outcome(2, d) /\ k + 1 = 2
    BY <1>2
  <2>2. d.sessions = [cols |-> {}, rows |-> "none"] /\ rows = "none"
    BY <2>1, GroupsGrow DEF At
  <2>3. f \in AddToSessions(d, "run", "none")
    BY <2>1, <2>2 DEF Outcome, Scripts, Upgrade, RowsWithoutRun
  <2>4. /\ f.sessions = [cols |-> {} \cup {"run"}, rows |-> "none"]
        /\ f.others = d.others /\ f.cols = d.cols /\ f.users = d.users /\ f.copy = d.copy
    BY <2>2, <2>3, AddToSessionsEffect, AddToSessionsFrame
  <2>5. {} \cup {"run"} = {"run"}
    OBVIOUS
  <2>6. f.sessions = [cols |-> SessionGroupsAt(2), rows |-> rows]
    BY <2>1, <2>2, <2>4, <2>5, GroupsGrow DEF At
  <2>7. f.cols = GroupsAt(2)
    BY <2>1, <2>2, <2>4, <2>5, GroupsGrow DEF At
  <2> QED  BY <2>1, <2>2, <2>4, <2>5, <2>6, <2>7 DEF At, UsersAt
<1>3. CASE k = 2
  <2>1. At(2, rows, d) /\ f \in Outcome(3, d) /\ k + 1 = 3
    BY <1>3
  <2>2. f \in AddGroup(d, "slug")
    BY <2>1 DEF Outcome, Scripts, Upgrade
  <2>3. /\ f.cols = d.cols \cup {"slug"} /\ f.others = d.others /\ f.sessions = d.sessions
        /\ f.copy = d.copy /\ f.users = d.users
    BY <2>2, AddGroupEffect
  <2>4. {} \cup {"slug"} = {"slug"}
    OBVIOUS
  <2>5. f.sessions = [cols |-> SessionGroupsAt(3), rows |-> rows]
    BY <2>1, <2>3, <2>4, GroupsGrow DEF At
  <2>6. f.cols = GroupsAt(3)
    BY <2>1, <2>3, <2>4, GroupsGrow DEF At
  <2> QED  BY <2>1, <2>3, <2>4, <2>5, <2>6 DEF At, UsersAt
<1>4. CASE k = 3
  <2>1. At(3, rows, d) /\ f \in Outcome(4, d) /\ k + 1 = 4
    BY <1>4
  <2>2. f \in AddGroup(d, "validation")
    BY <2>1 DEF Outcome, Scripts, Upgrade
  <2>3. /\ f.cols = d.cols \cup {"validation"} /\ f.others = d.others /\ f.sessions = d.sessions
        /\ f.copy = d.copy /\ f.users = d.users
    BY <2>2, AddGroupEffect
  <2>4. {"slug"} \cup {"validation"} = {"slug", "validation"}
    OBVIOUS
  <2>5. f.sessions = [cols |-> SessionGroupsAt(4), rows |-> rows]
    BY <2>1, <2>3, <2>4, GroupsGrow DEF At
  <2>6. f.cols = GroupsAt(4)
    BY <2>1, <2>3, <2>4, GroupsGrow DEF At
  <2> QED  BY <2>1, <2>3, <2>4, <2>5, <2>6 DEF At, UsersAt
<1>5. CASE k = 4
  <2>1. At(4, rows, d) /\ f \in Outcome(5, d) /\ k + 1 = 5
    BY <1>5
  <2>2. f = [d EXCEPT !.sessions.cols = @ \cup {"notNull"}]
    BY <2>1 DEF Outcome, Scripts, UpgradePostgres
  <2>3. d.sessions = [cols |-> {"run"}, rows |-> rows]
    BY <2>1, GroupsGrow DEF At
  <2>4. f.sessions = [cols |-> {"run"} \cup {"notNull"}, rows |-> rows]
    <3>1. f.sessions = [d.sessions EXCEPT !.cols = @ \cup {"notNull"}]
      BY <2>2 DEF Databases
    <3> QED  BY <2>3, <3>1
  <2>5. {"run"} \cup {"notNull"} = {"run", "notNull"}
    OBVIOUS
  <2>6. f.others = d.others /\ f.cols = d.cols /\ f.users = d.users /\ f.copy = d.copy
    BY <2>2 DEF Databases
  <2>7. f.sessions = [cols |-> SessionGroupsAt(5), rows |-> rows]
    BY <2>1, <2>4, <2>5, <2>6, GroupsGrow DEF At
  <2>8. f.cols = GroupsAt(5)
    BY <2>1, <2>4, <2>5, <2>6, GroupsGrow DEF At
  <2> QED  BY <2>1, <2>4, <2>5, <2>6, <2>7, <2>8 DEF At, UsersAt
<1>6. CASE k = 5
  <2>1. At(5, rows, d) /\ f \in Outcome(6, d) /\ k + 1 = 6
    BY <1>6
  <2>2. f = [d EXCEPT !.users = IF @ = -1 THEN 0 ELSE @]
    BY <2>1 DEF Outcome, Scripts, Upgrade
  <2>3. f.sessions = d.sessions /\ f.others = d.others /\ f.cols = d.cols /\ f.copy = d.copy
    BY <2>2 DEF Databases
  <2>4. d.users = -1 /\ f.users = 0
    BY <2>1, <2>2 DEF At, UsersAt, Databases
  <2>5. f.sessions = [cols |-> SessionGroupsAt(6), rows |-> rows]
    BY <2>1, <2>3, <2>4, GroupsGrow DEF At
  <2>6. f.cols = GroupsAt(6)
    BY <2>1, <2>3, <2>4, GroupsGrow DEF At
  <2> QED  BY <2>1, <2>3, <2>4, <2>5, <2>6 DEF At, UsersAt
<1>7. CASE k = 6
  <2>1. At(6, rows, d) /\ f \in Outcome(7, d) /\ k + 1 = 7
    BY <1>7
  <2>2. d.sessions = [cols |-> {"run", "notNull"}, rows |-> rows]
    BY <2>1, GroupsGrow DEF At
  <2>3. f \in AddToSessions(d, "created", rows)
    BY <2>1, <2>2 DEF Outcome, Scripts, UpgradePostgres
  <2>4. /\ f.sessions = [cols |-> {"run", "notNull"} \cup {"created"}, rows |-> rows]
        /\ f.others = d.others /\ f.cols = d.cols /\ f.users = d.users /\ f.copy = d.copy
    BY <2>2, <2>3, AddToSessionsEffect, AddToSessionsFrame
  <2>5. {"run", "notNull"} \cup {"created"} = {"run", "notNull", "created"}
    OBVIOUS
  <2>6. f.sessions = [cols |-> SessionGroupsAt(7), rows |-> rows]
    BY <2>1, <2>2, <2>4, <2>5, GroupsGrow DEF At
  <2>7. f.cols = GroupsAt(7)
    BY <2>1, <2>2, <2>4, <2>5, GroupsGrow DEF At
  <2> QED  BY <2>1, <2>2, <2>4, <2>5, <2>6, <2>7 DEF At, UsersAt
<1>8. CASE k = 7
  <2>1. At(7, rows, d) /\ f \in Outcome(8, d) /\ k + 1 = 8
    BY <1>8
  <2>2. d.sessions = [cols |-> {"run", "notNull", "created"}, rows |-> rows]
    BY <2>1, GroupsGrow DEF At
  <2>3. PICK x \in AddToSessions(d, "snapshot", rows) : f \in AddGroup(x, "snapshot")
    BY <2>1, <2>2 DEF Outcome, Scripts, Upgrade
  <2>4. x \in Databases
    BY AddToSessionsType DEF SessionGroups
  <2>5. /\ x.sessions = [cols |-> {"run", "notNull", "created"} \cup {"snapshot"}, rows |-> rows]
        /\ x.others = d.others /\ x.cols = d.cols /\ x.users = d.users /\ x.copy = d.copy
    BY <2>2, AddToSessionsEffect, AddToSessionsFrame
  <2>6. /\ f.cols = x.cols \cup {"snapshot"} /\ f.others = x.others /\ f.sessions = x.sessions
        /\ f.copy = x.copy /\ f.users = x.users
    BY <2>3, <2>4, AddGroupEffect
  <2>7. /\ {"run", "notNull", "created"} \cup {"snapshot"} = {"run", "notNull", "created", "snapshot"}
        /\ {"slug", "validation"} \cup {"snapshot"} = {"slug", "validation", "snapshot"}
    OBVIOUS
  <2>8. f.sessions = [cols |-> SessionGroupsAt(8), rows |-> rows]
    BY <2>1, <2>5, <2>6, <2>7, GroupsGrow DEF At
  <2>9. f.cols = GroupsAt(8)
    BY <2>1, <2>5, <2>6, <2>7, GroupsGrow DEF At
  <2> QED  BY <2>1, <2>5, <2>6, <2>7, <2>8, <2>9 DEF At, UsersAt
<1>9. CASE k = 8
  <2>1. At(8, rows, d) /\ f \in Outcome(9, d) /\ k + 1 = 9
    BY <1>9
  <2>2. d.sessions = [cols |-> {"run", "notNull", "created", "snapshot"}, rows |-> rows]
    BY <2>1, GroupsGrow DEF At
  <2>3. f \in AddToSessions(d, "stage", rows)
    BY <2>1, <2>2 DEF Outcome, Scripts, Upgrade
  <2>4. /\ f.sessions = [cols |-> {"run", "notNull", "created", "snapshot"} \cup {"stage"}, rows |-> rows]
        /\ f.others = d.others /\ f.cols = d.cols /\ f.users = d.users /\ f.copy = d.copy
    BY <2>2, <2>3, AddToSessionsEffect, AddToSessionsFrame
  <2>5. {"run", "notNull", "created", "snapshot"} \cup {"stage"} = {"run", "notNull", "created", "snapshot", "stage"}
    OBVIOUS
  <2>6. f.sessions = [cols |-> SessionGroupsAt(9), rows |-> rows]
    BY <2>1, <2>2, <2>4, <2>5, GroupsGrow DEF At
  <2>7. f.cols = GroupsAt(9)
    BY <2>1, <2>2, <2>4, <2>5, GroupsGrow DEF At
  <2> QED  BY <2>1, <2>2, <2>4, <2>5, <2>6, <2>7 DEF At, UsersAt
<1> QED  BY <1>0, <1>1, <1>2, <1>3, <1>4, <1>5, <1>6, <1>7, <1>8, <1>9

\* The database is a version, and no older than before.
Advanced(v, rows, d, e) ==
    Version(v, v, rows, e) /\ d.history \subseteq e.history /\ d.users <= e.users

\* A migration that is not refused takes the tables of one version to those of
\* the next: of a Postgres start that has waited, only the one that comes next.
LEMMA MigrationStep ==
    ASSUME NEW k \in 0..9, NEW h \in 0..9, NEW rows \in {"none", "bound"}, NEW d \in Databases,
           Version(k, h, rows, d), h = k \/ (backend = "sqlite" /\ Unrecorded(k, h)),
           NEW v \in Migrations, v - 1 <= h,
           backend = "sqlite" => v - 1 = h /\ v \notin Scripts,
           backend \in {"sqlite", "postgres"},
           NEW f \in Outcome(v, d), NEW e \in Recorded(v, f)
    PROVE  Advanced(v, rows, d, e)
<1>0. v \in {1, 2, 3, 4, 5, 6, 7, 8, 9}
  BY DEF Migrations, CURRENT_SCHEMA_VERSION
<1>1. f \in Databases /\ e \in Databases
  BY OutcomeType
<1>2. f.history = d.history /\ f.copy = d.copy
  BY MigrationFrame
<1>3. e = [f EXCEPT !.history = @ \cup {v}] /\ v \notin f.history
  BY DEF Recorded
<1>4. v = h + 1
  <2>1. v \notin 1..h
    BY <1>2, <1>3 DEF Version
  <2> QED  BY <1>0, <2>1
<1>5. k = h
  BY <1>4 DEF Unrecorded
<1>6. /\ e.users = f.users /\ e.sessions = f.sessions /\ e.others = f.others /\ e.cols = f.cols
      /\ e.copy = f.copy
  BY <1>1, <1>3 DEF Databases
<1>7. At(v, rows, f) /\ d.users <= f.users
  <2>1. k \in 0..8 /\ f \in Outcome(k + 1, d) /\ At(k, rows, d)
    BY <1>0, <1>4, <1>5 DEF Version
  <2> QED  BY <1>1, <1>4, <1>5, <2>1, NextTables
<1>8. e.history = 1..v /\ d.history \subseteq e.history
  <2>1. e.history = d.history \cup {v}
    BY <1>1, <1>2, <1>3 DEF Databases
  <2>2. d.history = 1..h
    BY DEF Version
  <2>3. 1..h \cup {h + 1} = 1..(h + 1)
    OBVIOUS
  <2> QED  BY <1>4, <2>1, <2>2, <2>3
<1> QED  BY <1>4, <1>6, <1>7, <1>8 DEF Advanced, Version, At

-----------------------------------------------------------------------------
(* What a script does to the tables.                                       *)

\* SQLite leaves the transaction for a script before its first statement.
LEMMA ScriptBegins ==
    ASSUME NEW k \in 0..9, NEW h \in 0..9, NEW rows \in {"none", "bound"}, NEW d \in Databases,
           Version(k, h, rows, d), h = k \/ (Unrecorded(k, h) /\ h # 0), h + 1 \in Scripts
    PROVE  HalfDone(h + 1, 1, rows, d)
<1>0. d.history = 1..h /\ At(k, rows, d) /\ 1 \in 1..ScriptLength(h + 1) /\ (h + 1) - 1 = h
  BY ScriptLengthType DEF Version
<1>1. CASE h = 0
  <2>1. k = 0
    BY <1>1 DEF Unrecorded
  <2>2. At(0, rows, d) /\ h + 1 = 1
    BY <1>0, <1>1, <2>1
  <2> QED  BY <1>0, <2>2 DEF HalfDone
<1>2. CASE h \in {4, 6}
  <2>1. k \in {h, h + 1} /\ k > 1 /\ h + 1 \in {5, 7}
    BY <1>2 DEF Unrecorded
  <2>2. /\ d.sessions = [cols |-> SessionGroupsAt(k), rows |-> rows] /\ d.others = OtherTables
        /\ d.cols = GroupsAt(k) /\ d.copy = NoTable /\ d.users \in UsersAt(k)
    BY <1>0, <2>1 DEF At
  <2>3. ScriptLength(h + 1) - 1 > 2
    <3>1. h + 1 = 5 => ScriptLength(h + 1) = 4
      BY DEF ScriptLength
    <3>2. h + 1 = 7 => ScriptLength(h + 1) = 5
      BY DEF ScriptLength
    <3> QED  BY <2>1, <3>1, <3>2
  <2>4. Rebuilding(k, h + 1, ScriptLength(h + 1) - 1, rows, d)
    BY <2>2, <2>3 DEF Rebuilding
  <2> QED  BY <1>0, <2>1, <2>4 DEF HalfDone
<1> QED  BY <1>1, <1>2 DEF Scripts

\* The statements that replace participant_sessions, from version v - 1 or
\* again from the tables of version v.
LEMMA RebuildStep ==
    ASSUME NEW v \in {5, 7}, NEW k \in {v - 1, v}, NEW rows \in {"none", "bound"},
           NEW d \in Databases, NEW left \in 0..4, Rebuilding(k, v, left, rows, d), NEW e
    PROVE  /\ left = 4 /\ e = [d EXCEPT !.copy = NoTable] => Rebuilding(k, v, 3, rows, e)
           /\ left = 3 /\ e \in CreateCopy(d, SessionGroupsAt(v)) => Rebuilding(k, v, 2, rows, e)
           /\ left = 2 /\ e \in FillCopy(d) => Rebuilding(k, v, 1, rows, e)
           /\ left = 1 /\ e \in DropSessions(d) => Rebuilding(k, v, 0, rows, e)
           /\ left = 0 /\ e \in RenameCopy(d) => At(v, rows, e)
           /\ left = 3 => CreateCopy(d, SessionGroupsAt(v)) # {}
           /\ left = 2 => FillCopy(d) # {}
           /\ left = 1 => DropSessions(d) # {}
           /\ left = 0 => RenameCopy(d) # {}
<1> DEFINE copy(r) == [cols |-> SessionGroupsAt(v), rows |-> r]
           old == [cols |-> SessionGroupsAt(k), rows |-> rows]
<1>1. "run" \in SessionGroupsAt(k) /\ GroupsAt(k) = GroupsAt(v) /\ UsersAt(k) = UsersAt(v)
  <2>1. k \in {4, 5, 6, 7} /\ (v = 5 => k \in {4, 5}) /\ (v = 7 => k \in {6, 7})
    OBVIOUS
  <2>2. "run" \in SessionGroupsAt(k)
    BY <2>1, GroupsGrow
  <2>3. GroupsAt(k) = GroupsAt(v)
    BY <2>1, GroupsGrow
  <2>4. UsersAt(k) = UsersAt(v)
    BY <2>1 DEF UsersAt
  <2> QED  BY <2>2, <2>3, <2>4
<1>2. /\ copy("none") # NoTable /\ copy(rows) # NoTable /\ old # NoTable
  BY DEF NoTable
<1>3. d.others = OtherTables /\ d.cols = GroupsAt(k) /\ d.users \in UsersAt(k)
  BY DEF Rebuilding
<1>4. CASE left = 4
  BY <1>4 DEF Rebuilding, Databases
<1>5. CASE left = 3
  <2>1. d.sessions = old /\ d.copy = NoTable
    BY <1>5 DEF Rebuilding
  <2>2. CreateCopy(d, SessionGroupsAt(v)) = {[d EXCEPT !.copy = copy("none")]}
    BY <2>1 DEF CreateCopy
  <2> QED  BY <1>3, <1>5, <2>1, <2>2 DEF Rebuilding, Databases
<1>6. CASE left = 2
  <2>1. d.sessions = old /\ d.copy = copy("none")
    BY <1>6 DEF Rebuilding
  <2>2. FillCopy(d) = {[d EXCEPT !.copy.rows = rows]}
    BY <1>1, <1>2, <2>1 DEF FillCopy
  <2>3. [d EXCEPT !.copy.rows = rows].copy = copy(rows)
    BY <2>1 DEF Databases
  <2> QED  BY <1>3, <1>6, <2>1, <2>2, <2>3 DEF Rebuilding, Databases
<1>7. CASE left = 1
  <2>1. d.sessions = old /\ d.copy = copy(rows)
    BY <1>7 DEF Rebuilding
  <2>2. DropSessions(d) = {[d EXCEPT !.sessions = NoTable]}
    BY <1>2, <2>1 DEF DropSessions
  <2> QED  BY <1>3, <1>7, <2>1, <2>2 DEF Rebuilding, Databases
<1>8. CASE left = 0
  <2>1. d.sessions = NoTable /\ d.copy = copy(rows)
    BY <1>8 DEF Rebuilding
  <2>2. RenameCopy(d) = {[d EXCEPT !.sessions = copy(rows), !.copy = NoTable]}
    BY <1>2, <2>1 DEF RenameCopy
  <2>3. ASSUME e \in RenameCopy(d)
        PROVE  /\ e.sessions = copy(rows) /\ e.copy = NoTable /\ e.others = OtherTables
               /\ e.cols = GroupsAt(v) /\ e.users \in UsersAt(v)
    BY <1>1, <1>3, <2>2, <2>3 DEF Databases
  <2> QED  BY <1>8, <2>2, <2>3 DEF At
<1> QED  BY <1>4, <1>5, <1>6, <1>7, <1>8

\* They leave the history.
LEMMA RebuildFrame ==
    ASSUME NEW d \in Databases, NEW groups, NEW e,
           \/ e = [d EXCEPT !.copy = NoTable] \/ e \in CreateCopy(d, groups) \/ e \in FillCopy(d)
           \/ e \in DropSessions(d) \/ e \in RenameCopy(d)
    PROVE  e.history = d.history
BY DEF CreateCopy, FillCopy, DropSessions, RenameCopy, Databases

\* The statements of the migrations that replace the sessions, by how many
\* follow.
LEMMA StatementOf ==
    ASSUME NEW v \in {5, 7}, NEW l \in 1..ScriptLength(v), NEW d
    PROVE  LET left == ScriptLength(v) - l
           IN  /\ left = 4 => Statement(v, l, d) = {[d EXCEPT !.copy = NoTable]}
               /\ left = 3 => Statement(v, l, d) = CreateCopy(d, SessionGroupsAt(v))
               /\ left = 2 => Statement(v, l, d) = FillCopy(d)
               /\ left = 1 => Statement(v, l, d) = DropSessions(d)
               /\ left = 0 => Statement(v, l, d) = RenameCopy(d)
<1> DEFINE left == ScriptLength(v) - l
<1>a. /\ v = 5 => ScriptLength(v) = 4
      /\ v = 7 => ScriptLength(v) = 5
  BY DEF ScriptLength
<1>b. left \in 0..4
  BY <1>a
<1>0. v # 1
  OBVIOUS
<1>1. CASE left \in {0, 1, 2}
  <2>1. ~(v = 5 /\ l = 1) /\ ~(v = 7 /\ l = 1) /\ ~(v = 7 /\ l = 2)
    BY <1>a, <1>1
  <2> QED  BY <1>0, <1>1, <2>1 DEF Statement
<1>2. CASE left = 3
  <2>1. (v = 5 /\ l = 1) \/ (v = 7 /\ l = 2)
    BY <1>a, <1>2
  <2>2. Statement(5, 1, d) = CreateCopy(d, {"run", "notNull"})
    BY DEF Statement, ScriptLength
  <2>3. Statement(7, 2, d) = CreateCopy(d, {"run", "notNull", "created"})
    BY DEF Statement, ScriptLength
  <2> QED  BY <1>2, <2>1, <2>2, <2>3, GroupsGrow
<1>3. CASE left = 4
  <2>1. v = 7 /\ l = 1
    BY <1>a, <1>3
  <2> QED  BY <1>3, <2>1 DEF Statement
<1> QED  BY <1>b, <1>1, <1>2, <1>3

\* A statement never fails, and takes the script to its next statement or the
\* tables to the next version.
LEMMA StatementStep ==
    ASSUME NEW v \in Scripts, NEW l \in 1..ScriptLength(v), NEW rows \in {"none", "bound"},
           NEW d \in Databases, HalfDone(v, l, rows, d)
    PROVE  /\ Statement(v, l, d) # {}
           /\ \A e \in Statement(v, l, d) :
                  IF l = ScriptLength(v) THEN Version(v, v - 1, rows, e)
                  ELSE HalfDone(v, l + 1, rows, e)
<1>0. ScriptLength(v) \in Nat /\ v \in {1, 5, 7} /\ OtherTables \in Nat \ {0} /\ d.history = 1..(v - 1)
  BY ScriptLengthType, StarterAssumption DEF Scripts, HalfDone
<1>1. CASE v = 1
  <2>0. ScriptLength(v) = 1 + OtherTables
    BY <1>1 DEF ScriptLength
  <2>1. CASE l = 1
    <3>1. At(0, rows, d)
      BY <1>1, <2>1 DEF HalfDone
    <3>2. d.sessions = NoTable /\ d.others = 0 /\ d.cols = {} /\ d.copy = NoTable /\ d.users = -1 /\ rows = "none"
      BY <3>1, GroupsGrow DEF At, UsersAt
    <3>3. Statement(v, l, d) = {[d EXCEPT !.sessions = [cols |-> {}, rows |-> "none"]]}
      BY <1>1, <2>1, <3>2 DEF Statement
    <3>4. ASSUME NEW e \in Statement(v, l, d) PROVE HalfDone(v, l + 1, rows, e)
      <4>1. /\ e.sessions = [cols |-> {}, rows |-> "none"] /\ e.others = 0 /\ e.cols = {}
            /\ e.copy = NoTable /\ e.users = -1 /\ e.history = 1..(v - 1)
        BY <1>0, <3>2, <3>3 DEF Databases
      <4>2. l + 1 \in 1..ScriptLength(v) /\ l + 1 > 1 /\ 0 = (l + 1) - 2
        BY <1>0, <2>0, <2>1
      <4> QED  BY <1>1, <3>2, <4>1, <4>2 DEF HalfDone
    <3>5. l # ScriptLength(v)
      BY <1>0, <2>0, <2>1
    <3> QED  BY <3>3, <3>4, <3>5
  <2>2. CASE l > 1
    <3>2. /\ d.sessions = [cols |-> {}, rows |-> "none"] /\ d.others = l - 2 /\ d.cols = {}
          /\ d.copy = NoTable /\ d.users = -1 /\ rows = "none"
      BY <1>1, <2>2 DEF HalfDone
    <3>3. Statement(v, l, d) = {[d EXCEPT !.others = l - 1]}
      BY <1>0, <1>1, <2>0, <2>2, <3>2 DEF Statement
    <3>4. ASSUME NEW e \in Statement(v, l, d)
          PROVE  IF l = ScriptLength(v) THEN Version(v, v - 1, rows, e) ELSE HalfDone(v, l + 1, rows, e)
      <4>1. /\ e.sessions = [cols |-> {}, rows |-> "none"] /\ e.others = l - 1 /\ e.cols = {}
            /\ e.copy = NoTable /\ e.users = -1 /\ e.history = 1..(v - 1)
        BY <1>0, <3>2, <3>3 DEF Databases
      <4>2. CASE l = ScriptLength(v)
        <5>1. e.others = OtherTables
          BY <1>0, <2>0, <4>1, <4>2
        <5>2. e.sessions = [cols |-> SessionGroupsAt(1), rows |-> rows] /\ e.cols = GroupsAt(1)
          BY <3>2, <4>1, GroupsGrow
        <5>3. At(1, rows, e)
          BY <3>2, <4>1, <5>1, <5>2 DEF At, UsersAt
        <5> QED  BY <1>1, <4>1, <4>2, <5>3 DEF Version
      <4>3. CASE l # ScriptLength(v)
        <5>1. l + 1 \in 1..ScriptLength(v) /\ l + 1 > 1 /\ (l + 1) - 2 = l - 1
          BY <1>0, <2>2, <4>3
        <5> QED  BY <1>1, <3>2, <4>1, <4>3, <5>1 DEF HalfDone
      <4> QED  BY <4>2, <4>3
    <3> QED  BY <3>3, <3>4
  <2> QED  BY <1>0, <2>1, <2>2
<1>2. CASE v \in {5, 7}
  <2> DEFINE left == ScriptLength(v) - l
  <2>0. /\ v = 5 => ScriptLength(v) = 4
        /\ v = 7 => ScriptLength(v) = 5
    BY DEF ScriptLength
  <2>1. PICK k \in {v - 1, v} : Rebuilding(k, v, left, rows, d)
    BY <1>2 DEF HalfDone
  <2>2. left \in 0..4 /\ (l = ScriptLength(v) <=> left = 0)
        /\ (left # 0 => l + 1 \in 1..ScriptLength(v) /\ ScriptLength(v) - (l + 1) = left - 1)
    BY <1>2, <2>0
  <2>3. /\ left = 4 => Statement(v, l, d) = {[d EXCEPT !.copy = NoTable]}
        /\ left = 3 => Statement(v, l, d) = CreateCopy(d, SessionGroupsAt(v))
        /\ left = 2 => Statement(v, l, d) = FillCopy(d)
        /\ left = 1 => Statement(v, l, d) = DropSessions(d)
        /\ left = 0 => Statement(v, l, d) = RenameCopy(d)
    BY <1>2, StatementOf
  <2> HIDE DEF left
  <2>4. left \in {0, 1, 2, 3, 4}
    BY <2>2
  <2>5. Statement(v, l, d) # {}
    BY <1>2, <2>1, <2>2, <2>3, <2>4, RebuildStep
  <2>6. ASSUME NEW e \in Statement(v, l, d)
        PROVE  /\ e.history = d.history
               /\ left = 0 => At(v, rows, e)
               /\ left # 0 => Rebuilding(k, v, left - 1, rows, e)
    <3>1. CASE left = 4
      BY <1>2, <2>1, <2>2, <2>3, <2>6, <3>1, RebuildStep, RebuildFrame
    <3>2. CASE left = 3
      BY <1>2, <2>1, <2>2, <2>3, <2>6, <3>2, RebuildStep, RebuildFrame
    <3>3. CASE left = 2
      BY <1>2, <2>1, <2>2, <2>3, <2>6, <3>3, RebuildStep, RebuildFrame
    <3>4. CASE left = 1
      BY <1>2, <2>1, <2>2, <2>3, <2>6, <3>4, RebuildStep, RebuildFrame
    <3>5. CASE left = 0
      BY <1>2, <2>1, <2>2, <2>3, <2>6, <3>5, RebuildStep, RebuildFrame
    <3> QED  BY <2>4, <3>1, <3>2, <3>3, <3>4, <3>5
  <2>7. ASSUME NEW e \in Statement(v, l, d)
        PROVE  IF l = ScriptLength(v) THEN Version(v, v - 1, rows, e) ELSE HalfDone(v, l + 1, rows, e)
    BY <1>0, <1>2, <2>1, <2>2, <2>6, <2>7 DEF Version, HalfDone
  <2> QED  BY <2>5, <2>7
<1> QED  BY <1>0, <1>1, <1>2

\* The record of a script makes its tables a version.
LEMMA RecordStep ==
    ASSUME NEW v \in Scripts, NEW rows, NEW d \in Databases, Version(v, v - 1, rows, d),
           NEW e \in Recorded(v, d)
    PROVE  Version(v, v, rows, e) /\ d.history \subseteq e.history /\ d.users = e.users
<1>1. e = [d EXCEPT !.history = @ \cup {v}]
  BY DEF Recorded
<1>2. /\ e.sessions = d.sessions /\ e.others = d.others /\ e.cols = d.cols /\ e.copy = d.copy
      /\ e.users = d.users /\ e.history = d.history \cup {v}
  BY <1>1 DEF Databases
<1>3. (1..(v - 1)) \cup {v} = 1..v
  BY DEF Scripts
<1> QED  BY <1>2, <1>3 DEF Version, At

-----------------------------------------------------------------------------
(* What a start makes of a settled database.                               *)

\* The columns tell the version, of a database with the tables of a version
\* that has no history.
LEMMA Inferred ==
    ASSUME NEW k \in {0, 1, 4, 5}, NEW rows, NEW d, At(k, rows, d)
    PROVE  Infer(d) = k
<1>1. CASE k = 0
  BY <1>1 DEF At, Infer, HasBase, NoTable
<1>2. CASE k # 0
  <2>1. /\ d.sessions = [cols |-> SessionGroupsAt(k), rows |-> rows] /\ d.others = OtherTables
        /\ d.cols = GroupsAt(k)
    BY <1>2 DEF At
  <2>2. d.sessions.cols = SessionGroupsAt(k)
    BY <2>1
  <2>3. d.sessions # NoTable
    <3>1. k = 1 => rows = "none"
      BY DEF At
    <3>2. k # 1 => "run" \in SessionGroupsAt(k)
      BY <1>2, GroupsGrow
    <3> QED  BY <2>1, <3>1, <3>2 DEF NoTable
  <2>4. HasBase(d)
    BY <2>1, <2>3 DEF HasBase
  <2>5. CASE k = 1
    <3>1. d.sessions.cols = {} /\ d.cols = {}
      BY <2>1, <2>2, <2>5, GroupsGrow
    <3> QED  BY <2>4, <2>5, <3>1 DEF Infer
  <2>6. CASE k = 4
    <3>1. d.sessions.cols = {"run"} /\ d.cols = {"slug", "validation"}
      BY <2>1, <2>2, <2>6, GroupsGrow
    <3> QED  BY <2>4, <2>6, <3>1 DEF Infer
  <2>7. CASE k = 5
    <3>1. d.sessions.cols = {"run", "notNull"}
      BY <2>2, <2>7, GroupsGrow
    <3> QED  BY <2>4, <2>7, <3>1 DEF Infer
  <2> QED  BY <1>2, <2>5, <2>6, <2>7
<1> QED  BY <1>1, <1>2

\* A SQLite start takes a settled database for the version it records, with at
\* most the last script unrecorded.
LEMMA BeginStep ==
    ASSUME backend = "sqlite", NEW d \in Databases, Settled(d), NEW w,
           w = [d EXCEPT !.history = IF Unversioned(d) THEN 1..Infer(d) ELSE @]
    PROVE  \E k, h \in 0..9 :
               /\ Version(k, h, Kept, w) /\ (h = k \/ (Unrecorded(k, h) /\ h # 0))
               /\ Found(d) = h /\ d.history \subseteq w.history /\ d.users = w.users
<1>1. PICK k, h \in 0..9 : /\ Version(k, h, Kept, d)
                           /\ h = k \/ Unrecorded(k, h) \/ (h = 0 /\ k \in {4, 5})
  BY DEF Settled
<1>2. d.history = 1..h /\ At(k, Kept, d)
  BY <1>1 DEF Version
<1>3. CASE h = 0
  <2>1. Unversioned(d)
    BY <1>2, <1>3 DEF Unversioned
  <2>2. k \in {0, 1, 4, 5}
    BY <1>1, <1>3 DEF Unrecorded
  <2>3. Infer(d) = k
    BY <1>2, <2>2, Inferred
  <2>4. Found(d) = k
    BY <2>1, <2>3 DEF Found
  <2>5. w = [d EXCEPT !.history = 1..k]
    BY <2>1, <2>3
  <2>6. /\ w.sessions = d.sessions /\ w.others = d.others /\ w.cols = d.cols /\ w.copy = d.copy
        /\ w.users = d.users /\ w.history = 1..k
    BY <2>5 DEF Databases
  <2>7. Version(k, k, Kept, w)
    BY <1>2, <2>6 DEF Version, At
  <2> QED  BY <2>1, <2>4, <2>6, <2>7 DEF Unversioned
<1>4. CASE h # 0
  <2>1. 1 \in d.history
    BY <1>2, <1>4
  <2>2. ~Unversioned(d)
    BY <2>1 DEF Unversioned
  <2>3. Highest(d.history) = h
    <3>1. Highest(1..h) = h
      <4>1. h \in 1..10
        BY <1>4
      <4> QED  BY <4>1, HighestOfInterval
    <3> QED  BY <1>2, <3>1, Zenon
  <2>4. w = d
    BY <2>2 DEF Databases
  <2> QED  BY <1>1, <1>4, <2>2, <2>3, <2>4 DEF Found
<1> QED  BY <1>3, <1>4

\* A Postgres start takes a settled database for the version it records.
LEMMA BeginPostgresStep ==
    ASSUME backend = "postgres", NEW d \in Databases, Settled(d)
    PROVE  1..Found(d) \subseteq d.history
<1>1. PICK k \in 0..9 : d.history = 1..k
  BY DEF Settled, Version
<1>2. CASE k = 0
  <2>1. Unversioned(d)
    BY <1>1, <1>2 DEF Unversioned
  <2> QED  BY <2>1 DEF Found
<1>3. CASE k # 0
  <2>1. 1 \in d.history
    BY <1>1, <1>3
  <2>2. Highest(d.history) = k
    <3>1. Highest(1..k) = k
      <4>1. k \in 1..10
        BY <1>3
      <4> QED  BY <4>1, HighestOfInterval
    <3> QED  BY <1>1, <3>1, Zenon
  <2> QED  BY <1>1, <2>1, <2>2 DEF Found, Unversioned
<1> QED  BY <1>2, <1>3

\* Every database that can be upgraded is settled at first.
LEMMA SettledAtFirst == Init /\ ~Refusable(origin) => Settled(origin)
<1> SUFFICES ASSUME Init, ~Refusable(origin) PROVE Settled(origin)
  OBVIOUS
<1>0. ASSUME NEW k \in 1..9, NEW rows \in {"none", "bound", "unbound"}, NEW d,
             d.sessions = AtVersion(k, rows).sessions, d.others = OtherTables,
             d.cols = AtVersion(k, rows).cols, d.copy = NoTable, d.users = AtVersion(k, rows).users,
             k = 1 => rows = "none"
      PROVE  At(k, rows, d)
  <2>1. d.sessions = [cols |-> SessionGroupsAt(k), rows |-> rows]
    BY <1>0 DEF AtVersion, SessionGroupsAt
  <2>2. d.cols = GroupsAt(k)
    BY <1>0 DEF AtVersion, GroupsAt
  <2>3. d.users \in UsersAt(k)
    BY <1>0 DEF AtVersion, UsersAt
  <2> QED  BY <1>0, <2>1, <2>2, <2>3 DEF At
<1>1. CASE origin \in Versioned
  <2>1. PICK k \in 1..9, rows \in {"none", "bound", "unbound"} :
            origin = AtVersion(k, rows) /\ (k = 1 => rows # "bound") /\ (k > 4 => rows # "unbound")
    BY <1>1 DEF Versioned, CURRENT_SCHEMA_VERSION
  <2>2. origin.history = 1..k /\ origin.sessions.rows = rows /\ origin.others = OtherTables /\ origin.copy = NoTable
    BY <2>1 DEF AtVersion
  <2>3. rows # "unbound"
    BY <2>1, <2>2 DEF Refusable
  <2>4. Kept = rows
    BY <2>2, <2>3 DEF Kept
  <2>5. At(k, rows, origin)
    BY <1>0, <2>1, <2>2, <2>3
  <2> QED  BY <2>2, <2>4, <2>5 DEF Settled, Version
<1>2. CASE origin \in Legacy
  <2>1. Unversioned(origin)
    <3>1. ASSUME NEW k, NEW rows, origin = [AtVersion(k, rows) EXCEPT !.history = {}]
          PROVE  origin.history = {}
      BY <3>1 DEF AtVersion
    <3>2. ASSUME origin = [AtVersion(1, "none") EXCEPT !.history = {}, !.sessions.cols = {"runPart"}]
          PROVE  origin.history = {}
      BY <3>2 DEF AtVersion
    <3> QED  BY <1>2, <3>1, <3>2, Zenon DEF Legacy, Unversioned
  <2>2. CASE origin = [AtVersion(1, "unbound") EXCEPT !.history = {}]
    <3>1. origin.sessions.rows = "unbound" /\ origin.history = {}
      BY <2>2 DEF AtVersion
    <3> QED  BY <3>1 DEF Refusable
  <2>3. ASSUME NEW k \in {4, 5}, origin = [AtVersion(k, "bound") EXCEPT !.history = {}]
        PROVE  Settled(origin)
    <3>1. /\ origin.sessions = AtVersion(k, "bound").sessions /\ origin.others = OtherTables
          /\ origin.cols = AtVersion(k, "bound").cols /\ origin.copy = NoTable
          /\ origin.users = AtVersion(k, "bound").users /\ origin.history = 1..0
          /\ origin.sessions.rows = "bound"
      BY <2>3 DEF AtVersion
    <3>2. At(k, "bound", origin) /\ Kept = "bound"
      BY <1>0, <3>1 DEF Kept
    <3>3. HasTables(origin)
      BY <3>1, StarterAssumption DEF HasTables
    <3>4. backend = "sqlite"
      BY <2>1, <3>3 DEF Refusable, Refused, Init
    <3> QED  BY <3>1, <3>2, <3>4 DEF Settled, Version
  <2>4. CASE origin = [AtVersion(1, "none") EXCEPT !.history = {}, !.sessions.cols = {"runPart"}]
    <3>1. "runPart" \in origin.sessions.cols /\ origin.others = OtherTables
          /\ origin.sessions # NoTable
      BY <2>4 DEF AtVersion, NoTable
    <3>2. HasBase(origin) /\ HasTables(origin)
      BY <3>1 DEF HasBase, HasTables
    <3>3. Refused(origin)
      BY <2>1, <3>1, <3>2 DEF Refused, Init
    <3> QED  BY <3>3 DEF Refusable
  <2> QED  BY <1>2, <2>2, <2>3, <2>4 DEF Legacy
<1>3. CASE origin = Fresh
  <2>1. /\ origin.history = 1..0 /\ origin.sessions = NoTable /\ origin.others = 0
        /\ origin.cols = {} /\ origin.copy = NoTable /\ origin.users = -1
    BY <1>3 DEF Fresh
  <2>2. Kept = "none"
    BY <2>1 DEF Kept, NoTable
  <2>3. At(0, Kept, origin)
    BY <2>1, <2>2, GroupsGrow DEF At, UsersAt
  <2> QED  BY <2>1, <2>3 DEF Settled, Version
<1>4. CASE origin = Newer
  <2>1. origin.history = 1..10
    BY <1>4 DEF Newer, AtVersion, CURRENT_SCHEMA_VERSION
  <2>2. Highest(origin.history) = 10 /\ 1 \in origin.history
    BY <2>1, HighestOfInterval
  <2>3. Refused(origin)
    BY <2>2 DEF Refused, Unversioned, CURRENT_SCHEMA_VERSION
  <2> QED  BY <2>3 DEF Refusable
<1> QED  BY <1>1, <1>2, <1>3, <1>4 DEF Init

-----------------------------------------------------------------------------
(* The invariant of the upgrade.                                           *)

\* No one else is inside a script, and no one has a transaction.
Alone(p) == lock = Nobody /\ \A q \in Starters \ {p} : pc[q] \notin {"script", "record"}

\* The private copy is a version, not older than the database or than what its
\* holder has read.
Holding(p) ==
    /\ \E k, h \in 0..9 :
           /\ Version(k, h, Kept, work)
           /\ h = k \/ (backend = "sqlite" /\ Unrecorded(k, h) /\ h # 0)
           /\ version[p] <= h /\ (backend = "sqlite" => version[p] = h)
    /\ db.history \subseteq work.history /\ db.users <= work.users

\* What a start that has got so far relies on.
Stage(p) ==
    /\ pc[p] = "waiting" => 1..version[p] \subseteq db.history
    /\ pc[p] = "migrate" => Holding(p)
    /\ pc[p] = "script" => Alone(p) /\ HalfDone(version[p] + 1, line[p], Kept, db)
    /\ pc[p] = "record" => Alone(p) /\ Version(version[p] + 1, version[p], Kept, db)
    /\ pc[p] \in {"countUsers", "insertUser", "ready"} => db.history = Migrations
    /\ pc[p] = "ready" /\ p \in Researchers => db.users = 1

\* The upgrade of an upgradable database, until a script is disturbed.
Upgrading ==
    scripts = "whole" /\ ~Refusable(origin) =>
        /\ origin.sessions.rows # "unbound"
        /\ \A p \in Starters : Stage(p)
        /\ Settled(db) \/ \E p \in Starters : pc[p] = "script"

UpgradeInv == TypeInv /\ Upgrading

\* What a step of p leaves to the others.
Others(p) ==
    /\ UNCHANGED <<backend, origin>>
    /\ \A q \in Starters \ {p} : /\ pc'[q] = pc[q] /\ version'[q] = version[q]
                                 /\ line'[q] = line[q]

\* The others may go on when a step leaves the database, the transaction of
\* who has one, and a script alone.
LEMMA QuietOthers ==
    ASSUME NEW p \in Starters, Others(p), db' = db, NEW q \in Starters \ {p}, Stage(q),
           pc[q] = "migrate" => work' = work,
           pc[q] \in {"script", "record"} => lock' = Nobody /\ pc'[p] \notin {"script", "record"}
    PROVE  Stage(q)'
<1>1. /\ pc'[q] = pc[q] /\ version'[q] = version[q] /\ line'[q] = line[q] /\ Kept' = Kept
      /\ backend' = backend
  BY DEF Others, Kept
<1>2. pc[q] = "migrate" => (Holding(q) <=> Holding(q)')
  BY <1>1 DEF Holding
<1>3. pc[q] \in {"script", "record"} => (Alone(q) => Alone(q)')
  BY <1>1 DEF Alone, Others
<1> QED  BY <1>1, <1>2, <1>3 DEF Stage

\* So may those that hold nothing, when a step brings the database forward.
LEMMA ForwardOthers ==
    ASSUME NEW p \in Starters, Others(p), NEW q \in Starters \ {p}, Stage(q),
           pc[q] \notin {"migrate", "script", "record"}, Settled(db)',
           db.history \subseteq db'.history, db.users <= db'.users
    PROVE  Stage(q)'
<1>1. pc'[q] = pc[q] /\ version'[q] = version[q]
  BY DEF Others
<1>2. db.history = Migrations => db'.history = Migrations
  <2>1. PICK h \in 0..9 : db'.history = 1..h
    BY DEF Settled, Version
  <2>2. ASSUME db.history = Migrations PROVE h = 9
    <3>1. 9 \in 1..h
      BY <2>1, <2>2 DEF Migrations, CURRENT_SCHEMA_VERSION
    <3> QED  BY <3>1
  <2> QED  BY <2>1, <2>2 DEF Migrations, CURRENT_SCHEMA_VERSION
<1>3. db'.users \in {-1, 0, 1}
  BY DEF Settled, Version, At, UsersAt
<1>4. db.users = 1 => db'.users = 1
  BY <1>3
<1> QED  BY <1>1, <1>2, <1>4 DEF Stage

\* Who has come up, or is about to, has the tables of version 9.
LEMMA LastVersion ==
    ASSUME NEW d, Settled(d), d.history = Migrations
    PROVE  Version(9, 9, Kept, d)
<1>1. PICK k, h \in 0..9 : Version(k, h, Kept, d) /\ (h = k \/ Unrecorded(k, h) \/ h = 0)
  BY DEF Settled
<1>2. 1..h = 1..9
  BY <1>1 DEF Version, Migrations, CURRENT_SCHEMA_VERSION
<1>3. h = 9
  <2>1. 9 \in 1..h
    BY <1>2
  <2> QED  BY <2>1
<1> QED  BY <1>1, <1>3 DEF Unrecorded, Scripts

\* The invariant holds before the first start.
LEMMA UpgradeInit == Init => UpgradeInv
<1> SUFFICES ASSUME Init PROVE UpgradeInv
  OBVIOUS
<1>1. ~Refusable(origin) => Settled(db)
  BY SettledAtFirst DEF Init
<1>2. \A p \in Starters : Stage(p)
  BY DEF Init, Stage
<1>3. ~Refusable(origin) => origin.sessions.rows # "unbound"
  <2> SUFFICES ASSUME ~Refusable(origin) PROVE origin.sessions.rows # "unbound"
    OBVIOUS
  <2>1. PICK k \in 0..9 : At(k, Kept, origin)
    BY SettledAtFirst DEF Settled, Version
  <2>2. origin.sessions.rows \in {"absent", "none", "bound"}
    BY <2>1 DEF At, Kept, NoTable
  <2> QED  BY <2>2
<1> QED  BY <1>1, <1>2, <1>3, TypeInit DEF UpgradeInv, Upgrading

\* A process that fails or is killed outside a script.
LEMMA EndsStage ==
    ASSUME UpgradeInv, scripts = "whole", ~Refusable(origin),
           NEW p \in Starters, NEW l \in {"idle", "failed"}, pc[p] # "script", Goto(p, l), Free(p),
           work' = (IF lock = p THEN db ELSE work), UNCHANGED <<backend, origin, db, version, line>>
    PROVE  /\ \A q \in Starters : Stage(q)'
           /\ Settled(db)' \/ \E q \in Starters : pc'[q] = "script"
<1>1. /\ TypeOK /\ Control /\ (\A q \in Starters : Stage(q))
      /\ Settled(db) \/ \E q \in Starters : pc[q] = "script"
  BY DEF UpgradeInv, Upgrading, TypeInv
<1>2. \A q \in Starters : pc'[q] = IF q = p THEN l ELSE pc[q]
  BY <1>1 DEF Goto, TypeOK
<1>3. Others(p)
  BY <1>2 DEF Others
<1>4. ASSUME NEW q \in Starters \ {p} PROVE Stage(q)'
  <2>1. pc[q] = "migrate" => work' = work
    BY <1>1 DEF Control, ControlOf
  <2>2. pc[q] \in {"script", "record"} => lock' = Nobody
    BY <1>1 DEF Stage, Alone, Free
  <2> QED  BY <1>1, <1>2, <1>3, <2>1, <2>2, QuietOthers
<1>5. Stage(p)'
  BY <1>2 DEF Stage
<1>6. Settled(db)' <=> Settled(db)
  BY DEF Settled, Kept
<1> QED  BY <1>1, <1>2, <1>4, <1>5, <1>6

\* So does a failing start.
LEMMA FailStage ==
    ASSUME UpgradeInv, scripts = "whole", ~Refusable(origin), NEW p \in Starters,
           pc[p] # "script", Fail(p)
    PROVE  /\ \A q \in Starters : Stage(q)'
           /\ Settled(db)' \/ \E q \in Starters : pc'[q] = "script"
BY EndsStage DEF Fail

\* One step of the starts, of an upgradable database.
LEMMA StepUpgrades ==
    ASSUME UpgradeInv, Next, scripts' = "whole", ~Refusable(origin)
    PROVE  /\ \A q \in Starters : Stage(q)'
           /\ Settled(db)' \/ \E q \in Starters : pc'[q] = "script"
<1> DEFINE Goal == /\ \A q \in Starters : Stage(q)'
                   /\ Settled(db)' \/ \E q \in Starters : pc'[q] = "script"
<1>0. scripts = "whole"
  BY ScriptsStep DEF UpgradeInv, TypeInv, TypeOK
<1>1. /\ TypeOK /\ Control /\ (\A q \in Starters : Stage(q))
      /\ Settled(db) \/ \E q \in Starters : pc[q] = "script"
  BY <1>0 DEF UpgradeInv, Upgrading, TypeInv
<1>2. TypeOK'
  BY TypeNext DEF UpgradeInv, TypeInv
<1>3. Kept \in {"none", "bound"} /\ backend \in {"sqlite", "postgres"} /\ db \in Databases /\ work \in Databases
  BY <1>1 DEF Kept, TypeOK
<1>4. \A p \in Starters : pc[p] \in {"script", "record"} => version[p] \in 0..6 /\ version[p] + 1 \in Scripts
  BY <1>1 DEF Control, ControlOf, TypeOK, Scripts
<1>5. \A p \in Starters : pc[p] \in {"script", "record"} => db.history = 1..version[p] /\ lock = Nobody
  BY <1>1, <1>4 DEF Stage, HalfDone, Version, Alone, TypeOK
<1>6. \A p, q \in Starters : pc[p] \in {"countUsers", "insertUser", "ready"} => pc[q] \notin {"script", "record"}
  <2>1. \A v \in 0..6 : 1..v # 1..9
    <3> SUFFICES ASSUME NEW v \in 0..6 PROVE 9 \notin 1..v
      OBVIOUS
    <3> QED  OBVIOUS
  <2> QED  BY <1>1, <1>4, <1>5, <2>1 DEF Stage, Migrations, CURRENT_SCHEMA_VERSION
<1>7. ASSUME NEW p \in Starters, Begin(p) PROVE Goal
  <2>1. CASE Refused(db)
    BY <1>0, <1>7, <2>1, FailStage DEF Begin
  <2>2. CASE ~Refused(db)
    <3>1. /\ version' = [version EXCEPT ![p] = Found(db)]
          /\ work' = [db EXCEPT !.history = IF Unversioned(db) THEN 1..Infer(db) ELSE @]
          /\ lock' = p /\ pc' = [pc EXCEPT ![p] = "migrate"] /\ lock = Nobody /\ backend = "sqlite"
          /\ UNCHANGED <<backend, origin, db, line, crashes>>
          /\ \A q \in Starters : pc[q] \notin {"script", "record"}
      BY <1>7, <2>2 DEF Begin, Goto, InScript, BesideScript
    <3>2. Settled(db)
      BY <1>1, <3>1
    <3>3. \A q \in Starters : /\ pc'[q] = (IF q = p THEN "migrate" ELSE pc[q]) /\ pc[q] # "migrate"
                              /\ version'[q] = (IF q = p THEN Found(db) ELSE version[q])
      BY <1>1, <3>1, StarterAssumption DEF TypeOK, Control, ControlOf
    <3>4. Holding(p)'
      <4>1. PICK k, h \in 0..9 :
                /\ Version(k, h, Kept, work') /\ (h = k \/ (Unrecorded(k, h) /\ h # 0))
                /\ Found(db) = h /\ db.history \subseteq work'.history /\ db.users = work'.users
        BY <1>3, <3>1, <3>2, BeginStep
      <4>2. db.users <= work'.users /\ version'[p] = h /\ Kept' = Kept
        BY <1>3, <3>1, <3>3, <4>1 DEF Kept, Databases
      <4> QED  BY <3>1, <4>1, <4>2 DEF Holding
    <3>5. Stage(p)'
      BY <3>3, <3>4 DEF Stage
    <3>6. Others(p)
      BY <3>1, <3>3 DEF Others
    <3>7. ASSUME NEW q \in Starters \ {p} PROVE Stage(q)'
      BY <1>1, <3>1, <3>3, <3>6, QuietOthers
    <3>8. Settled(db)'
      BY <3>1, <3>2 DEF Settled, Kept
    <3> QED  BY <3>5, <3>7, <3>8
  <2> QED  BY <2>1, <2>2
<1>8. ASSUME NEW p \in Starters, BeginPostgres(p) PROVE Goal
  <2>1. CASE Refused(db)
    BY <1>0, <1>8, <2>1, FailStage DEF BeginPostgres
  <2>2. CASE ~Refused(db)
    <3>1. /\ version' = [version EXCEPT ![p] = Found(db)] /\ pc' = [pc EXCEPT ![p] = "waiting"]
          /\ backend = "postgres" /\ UNCHANGED <<backend, origin, db, lock, work, line, crashes>>
      BY <1>8, <2>2 DEF BeginPostgres, Goto
    <3>2. Settled(db) /\ \A q \in Starters : pc[q] \notin {"script", "record"}
      BY <1>1, <3>1 DEF Control, ControlOf
    <3>3. \A q \in Starters : /\ pc'[q] = (IF q = p THEN "waiting" ELSE pc[q])
                              /\ version'[q] = (IF q = p THEN Found(db) ELSE version[q])
      BY <1>1, <3>1 DEF TypeOK
    <3>4. Stage(p)'
      BY <1>3, <3>1, <3>2, <3>3, BeginPostgresStep DEF Stage
    <3>5. Others(p)
      BY <3>1, <3>3 DEF Others
    <3>6. ASSUME NEW q \in Starters \ {p} PROVE Stage(q)'
      BY <1>1, <3>1, <3>2, <3>5, QuietOthers
    <3>7. Settled(db)'
      BY <3>1, <3>2 DEF Settled, Kept
    <3> QED  BY <3>4, <3>6, <3>7
  <2> QED  BY <2>1, <2>2
<1>9. ASSUME NEW p \in Starters, Lock(p) PROVE Goal
  <2>1. /\ lock = Nobody /\ lock' = p /\ work' = db /\ pc' = [pc EXCEPT ![p] = "migrate"]
        /\ pc[p] = "waiting" /\ UNCHANGED <<backend, origin, db, version, line, crashes>>
    BY <1>9 DEF Lock, Goto
  <2>2. backend = "postgres"
    BY <1>1, <2>1 DEF Control, ControlOf
  <2>3. Settled(db) /\ \A q \in Starters : pc[q] \notin {"script", "record"}
    BY <1>1, <2>2 DEF Control, ControlOf
  <2>4. \A q \in Starters : pc'[q] = (IF q = p THEN "migrate" ELSE pc[q]) /\ pc[q] # "migrate"
    BY <1>1, <2>1, StarterAssumption DEF TypeOK, Control, ControlOf
  <2>5. PICK k \in 0..9 : Version(k, k, Kept, db)
    BY <2>2, <2>3 DEF Settled
  <2>6. version[p] <= k
    <3>1. 1..version[p] \subseteq 1..k /\ version[p] \in 0..9
      BY <1>1, <2>1, <2>5 DEF Stage, Version, TypeOK, CURRENT_SCHEMA_VERSION
    <3> QED  BY <3>1
  <2>7. Holding(p)'
    <3>1. db.users <= db.users
      BY <1>3 DEF Databases
    <3> QED  BY <2>1, <2>2, <2>5, <2>6, <3>1 DEF Holding, Kept
  <2>8. Stage(p)'
    BY <2>4, <2>7 DEF Stage
  <2>9. Others(p)
    BY <2>1, <2>4 DEF Others
  <2>10. ASSUME NEW q \in Starters \ {p} PROVE Stage(q)'
    BY <1>1, <2>1, <2>3, <2>4, <2>9, QuietOthers
  <2>11. Settled(db)'
    BY <2>1, <2>3 DEF Settled, Kept
  <2> QED  BY <2>8, <2>10, <2>11
<1>10. ASSUME NEW p \in Starters, Migrate(p) PROVE Goal
  <2> DEFINE v == version[p] + 1
             after == UNION {Recorded(v, d) : d \in Outcome(v, work)}
  <2>1. CASE after = {}
    BY <1>0, <1>10, <2>1, FailStage DEF Migrate
  <2>2. CASE after # {}
    <3>1. /\ work' \in after /\ version' = [version EXCEPT ![p] = v]
          /\ pc[p] = "migrate" /\ v \in Migrations /\ (backend = "postgres" \/ v \notin Scripts)
          /\ UNCHANGED <<backend, origin, db, lock, pc, line, crashes>>
      BY <1>1, <1>10, <2>2 DEF Migrate, TypeOK, Migrations, CURRENT_SCHEMA_VERSION
    <3>2. lock = p /\ Holding(p) /\ version[p] = v - 1
      BY <1>1, <3>1 DEF Control, ControlOf, Stage, TypeOK, CURRENT_SCHEMA_VERSION
    <3>3. \A q \in Starters : /\ pc[q] \notin {"script", "record"} /\ (q # p => pc[q] # "migrate")
                              /\ version'[q] = (IF q = p THEN v ELSE version[q])
      BY <1>1, <1>5, <3>1, <3>2, StarterAssumption DEF Control, ControlOf, TypeOK
    <3>4. PICK f \in Outcome(v, work) : work' \in Recorded(v, f)
      BY <3>1
    <3>5. PICK k, h \in 0..9 :
              /\ Version(k, h, Kept, work) /\ (h = k \/ (backend = "sqlite" /\ Unrecorded(k, h) /\ h # 0))
              /\ version[p] <= h /\ (backend = "sqlite" => version[p] = h)
      BY <3>2 DEF Holding
    <3> HIDE DEF v, after
    <3>6. Advanced(v, Kept, work, work')
      <4>1. /\ v - 1 <= h /\ (backend = "sqlite" => v - 1 = h /\ v \notin Scripts)
            /\ h = k \/ (backend = "sqlite" /\ Unrecorded(k, h))
        BY <1>3, <3>1, <3>2, <3>5
      <4> QED  BY <1>3, <3>1, <3>4, <3>5, <4>1, MigrationStep
    <3>7. Holding(p)'
      <4>1. db.history \subseteq work'.history /\ db.users <= work'.users
        <5>1. db.users \in -1..1 /\ work.users \in -1..1 /\ work'.users \in -1..1
          BY <1>2, <1>3 DEF TypeOK, Databases
        <5> QED  BY <3>2, <3>6, <5>1 DEF Holding, Advanced
      <4>2. v \in 0..9 /\ version'[p] = v /\ Kept' = Kept /\ db' = db
        BY <3>1, <3>3 DEF Migrations, CURRENT_SCHEMA_VERSION, Kept
      <4> QED  BY <3>6, <4>1, <4>2 DEF Holding, Advanced
    <3>8. Stage(p)'
      BY <3>1, <3>7 DEF Stage
    <3>9. Others(p)
      BY <3>1, <3>3 DEF Others
    <3>10. ASSUME NEW q \in Starters \ {p} PROVE Stage(q)'
      BY <1>1, <3>1, <3>3, <3>9, QuietOthers
    <3>11. Settled(db)'
      BY <1>1, <3>1, <3>3 DEF Settled, Kept
    <3> QED  BY <3>8, <3>10, <3>11
  <2> QED  BY <2>1, <2>2
<1>11. ASSUME NEW p \in Starters, ScriptStart(p) PROVE Goal
  <2> DEFINE orphans == version[p] + 1 = 5 /\ (work.sessions = NoTable \/ work.sessions.rows = "unbound")
  <2>1. CASE orphans
    BY <1>0, <1>11, <2>1, FailStage DEF ScriptStart
  <2>2. CASE ~orphans
    <3>1. /\ db' = work /\ lock' = Nobody /\ line' = [line EXCEPT ![p] = 1]
          /\ pc' = [pc EXCEPT ![p] = "script"] /\ pc[p] = "migrate" /\ version[p] + 1 \in Scripts
          /\ backend = "sqlite" /\ UNCHANGED <<backend, origin, work, version, crashes>>
      BY <1>11, <2>2 DEF ScriptStart, Goto
    <3>2. lock = p /\ Holding(p)
      BY <1>1, <3>1 DEF Control, ControlOf, Stage
    <3>3. PICK k, h \in 0..9 :
              /\ Version(k, h, Kept, work) /\ (h = k \/ (Unrecorded(k, h) /\ h # 0)) /\ version[p] = h
      BY <3>1, <3>2 DEF Holding
    <3>4. HalfDone(version[p] + 1, 1, Kept, work)
      BY <1>3, <3>1, <3>3, ScriptBegins
    <3>5. \A q \in Starters : /\ pc'[q] = (IF q = p THEN "script" ELSE pc[q])
                              /\ line'[q] = (IF q = p THEN 1 ELSE line[q])
      BY <1>1, <3>1 DEF TypeOK
    <3>6. \A q \in Starters : pc[q] \notin {"script", "record", "waiting"} /\ (q # p => pc[q] # "migrate")
      BY <1>1, <1>5, <3>1, <3>2, StarterAssumption DEF Control, ControlOf
    <3>7. ASSUME NEW q \in Starters PROVE pc[q] \notin {"countUsers", "insertUser", "ready"}
      <4>1. db.history # 1..9
        <5>1. h \in 0..6 /\ db.history \subseteq 1..h
          BY <3>1, <3>2, <3>3 DEF Holding, Version, Scripts
        <5>2. 9 \notin 1..h
          BY <5>1
        <5> QED  BY <5>1, <5>2
      <4> QED  BY <1>1, <4>1 DEF Stage, Migrations, CURRENT_SCHEMA_VERSION
    <3>8. Stage(p)'
      <4>1. Alone(p)'
        BY <3>1, <3>5, <3>6 DEF Alone
      <4>2. HalfDone(version[p] + 1, line[p], Kept, db)'
        BY <3>1, <3>4, <3>5 DEF Kept
      <4> QED  BY <3>5, <4>1, <4>2 DEF Stage
    <3>9. ASSUME NEW q \in Starters \ {p} PROVE Stage(q)'
      BY <3>5, <3>6, <3>7 DEF Stage
    <3> QED  BY <3>5, <3>8, <3>9
  <2> QED  BY <2>1, <2>2
<1>12. ASSUME NEW p \in Starters, ScriptLine(p) PROVE Goal
  <2> DEFINE v == version[p] + 1
             after == Statement(v, line[p], db)
  <2>1. /\ pc[p] = "script" /\ lock = Nobody /\ v \in Scripts /\ line[p] \in 1..ScriptLength(v)
        /\ HalfDone(v, line[p], Kept, db) /\ Alone(p) /\ backend = "sqlite" /\ v - 1 = version[p]
    BY <1>1, <1>12 DEF ScriptLine, Control, ControlOf, Stage, TypeOK, CURRENT_SCHEMA_VERSION
  <2> HIDE DEF v
  <2>2. /\ after # {}
        /\ \A e \in after : IF line[p] = ScriptLength(v) THEN Version(v, v - 1, Kept, e)
                            ELSE HalfDone(v, line[p] + 1, Kept, e)
    BY <1>3, <2>1, StatementStep
  <2>3. /\ db' \in after /\ work' = db' /\ line' = [line EXCEPT ![p] = @ + 1]
        /\ pc' = [pc EXCEPT ![p] = IF line[p] = ScriptLength(v) THEN "record" ELSE "script"]
        /\ UNCHANGED <<backend, origin, lock, version, crashes>>
    BY <1>12, <2>2 DEF ScriptLine, Goto, v
  <2> HIDE DEF after
  <2>4. \A q \in Starters : q # p => pc'[q] = pc[q] /\ pc[q] \in {"idle", "failed"}
    <3>1. \A q \in Starters : q # p => pc'[q] = pc[q]
      BY <1>1, <2>3 DEF TypeOK
    <3>2. \A q \in Starters : q # p => pc[q] \notin {"script", "record", "migrate", "waiting"}
      BY <1>1, <2>1, StarterAssumption DEF Alone, Control, ControlOf
    <3>3. \A q \in Starters : pc[q] \notin {"countUsers", "insertUser", "ready"}
      BY <1>6, <2>1
    <3> QED  BY <1>1, <3>1, <3>2, <3>3 DEF TypeOK
  <2>5. /\ pc'[p] = (IF line[p] = ScriptLength(v) THEN "record" ELSE "script")
        /\ line'[p] = line[p] + 1 /\ version' = version /\ Kept' = Kept
    BY <1>1, <2>3 DEF TypeOK, Kept
  <2>6. Alone(p)'
    BY <2>1, <2>3, <2>4 DEF Alone
  <2>7. /\ line[p] = ScriptLength(v) => Version(version[p] + 1, version[p], Kept, db')
        /\ line[p] # ScriptLength(v) => HalfDone(version[p] + 1, line[p] + 1, Kept, db')
    BY <2>1, <2>2, <2>3 DEF v
  <2>8. Stage(p)'
    BY <2>5, <2>6, <2>7 DEF Stage
  <2>9. ASSUME NEW q \in Starters \ {p} PROVE Stage(q)'
    BY <2>4 DEF Stage
  <2>10. Settled(db)' \/ pc'[p] = "script"
    <3>1. ASSUME line[p] = ScriptLength(v) PROVE Settled(db)'
      <4>1. v \in 0..9 /\ version[p] \in 0..9 /\ Unrecorded(v, version[p])
        BY <2>1 DEF Scripts, Unrecorded
      <4>2. Version(v, version[p], Kept', db')
        BY <2>5, <2>7, <3>1 DEF v
      <4>3. backend' = "sqlite"
        BY <2>1, <2>3
      <4> QED  BY <4>1, <4>2, <4>3 DEF Settled
    <3> QED  BY <2>5, <3>1
  <2> QED  BY <2>8, <2>9, <2>10
<1>13. ASSUME NEW p \in Starters, Record(p) PROVE Goal
  <2> DEFINE v == version[p] + 1
  <2>1. CASE Recorded(v, db) = {}
    BY <1>0, <1>13, <2>1, FailStage DEF Record
  <2>2. CASE Recorded(v, db) # {}
    <3>1. /\ work' \in Recorded(v, db) /\ lock = Nobody /\ lock' = p /\ pc[p] = "record"
          /\ version' = [version EXCEPT ![p] = v] /\ pc' = [pc EXCEPT ![p] = "migrate"]
          /\ UNCHANGED <<backend, origin, db, line, crashes>>
      BY <1>13, <2>2 DEF Record, Goto
    <3>2. v \in Scripts /\ v - 1 = version[p] /\ Version(v, v - 1, Kept, db) /\ Alone(p)
      BY <1>1, <1>4, <3>1 DEF Stage
    <3> HIDE DEF v
    <3>3. Version(v, v, Kept, work') /\ db.history \subseteq work'.history /\ db.users = work'.users
      BY <1>3, <3>1, <3>2, RecordStep
    <3>4. \A q \in Starters : /\ pc'[q] = (IF q = p THEN "migrate" ELSE pc[q]) /\ pc[q] # "migrate"
                              /\ version'[q] = (IF q = p THEN v ELSE version[q])
                              /\ q # p => pc[q] \notin {"script", "record"}
      BY <1>1, <3>1, <3>2, StarterAssumption DEF Alone, TypeOK, Control, ControlOf
    <3>5. Holding(p)'
      <4>1. v \in 0..9 /\ db.users <= work'.users /\ version'[p] = v /\ Kept' = Kept
        BY <1>3, <3>1, <3>2, <3>3, <3>4 DEF Scripts, Databases, Kept
      <4> QED  BY <3>1, <3>3, <4>1 DEF Holding
    <3>6. Stage(p)'
      BY <3>4, <3>5 DEF Stage
    <3>7. Others(p)
      BY <3>1, <3>4 DEF Others
    <3>8. ASSUME NEW q \in Starters \ {p} PROVE Stage(q)'
      BY <1>1, <3>1, <3>4, <3>7, QuietOthers
    <3>9. Settled(db)'
      BY <1>1, <3>1, <3>4 DEF Settled, Kept
    <3> QED  BY <3>6, <3>8, <3>9
  <2> QED  BY <2>1, <2>2
<1>14. ASSUME NEW p \in Starters, Finish(p) PROVE Goal
  <2>1. CASE ~Validated(work)
    BY <1>0, <1>14, <2>1, FailStage DEF Finish
  <2>2. CASE Validated(work)
    <3>1. /\ pc' = [pc EXCEPT ![p] = IF p \in Researchers THEN "countUsers" ELSE "ready"]
          /\ db' = work /\ lock' = Nobody /\ pc[p] = "migrate"
          /\ UNCHANGED <<backend, origin, work, version, line, crashes>>
      BY <1>14, <2>2 DEF Finish, Goto
    <3>2. lock = p /\ Holding(p)
      BY <1>1, <3>1 DEF Control, ControlOf, Stage
    <3>3. \A q \in Starters : /\ pc'[q] = (IF q # p THEN pc[q]
                                           ELSE IF p \in Researchers THEN "countUsers" ELSE "ready")
                              /\ pc[q] \notin {"script", "record"} /\ (q # p => pc[q] # "migrate")
      BY <1>1, <1>5, <3>1, <3>2, StarterAssumption DEF TypeOK, Control, ControlOf
    <3>4. db'.history = Migrations
      BY <2>2, <3>1 DEF Validated
    <3>5. Settled(db)'
      <4>1. Settled(work)
        BY <3>2 DEF Holding, Settled
      <4> QED  BY <3>1, <4>1 DEF Settled, Kept
    <3>6. Stage(p)'
      BY <3>3, <3>4 DEF Stage
    <3>7. Others(p)
      BY <3>1, <3>3 DEF Others
    <3>8. ASSUME NEW q \in Starters \ {p} PROVE Stage(q)'
      BY <1>1, <3>1, <3>2, <3>3, <3>5, <3>7, ForwardOthers DEF Holding
    <3> QED  BY <3>5, <3>6, <3>8
  <2> QED  BY <2>1, <2>2
<1>15. ASSUME NEW p \in Starters, CountUsers(p) PROVE Goal
  <2>1. CASE db.users = -1
    BY <1>0, <1>15, <2>1, FailStage DEF CountUsers
  <2>2. CASE db.users # -1
    <3>1. /\ pc' = [pc EXCEPT ![p] = IF db.users > 0 THEN "ready" ELSE "insertUser"]
          /\ pc[p] = "countUsers" /\ UNCHANGED <<backend, origin, db, lock, work, version, line, crashes>>
      BY <1>15, <2>2 DEF CountUsers, Goto
    <3>2. \A q \in Starters : /\ pc'[q] = (IF q # p THEN pc[q]
                                           ELSE IF db.users > 0 THEN "ready" ELSE "insertUser")
                              /\ pc[q] \notin {"script", "record"}
      BY <1>1, <1>6, <3>1 DEF TypeOK
    <3>3. db.history = Migrations /\ db.users \in -1..1
      BY <1>1, <1>3, <3>1 DEF Stage, Databases
    <3>4. Stage(p)'
      BY <3>1, <3>2, <3>3 DEF Stage
    <3>5. Others(p)
      BY <3>1, <3>2 DEF Others
    <3>6. ASSUME NEW q \in Starters \ {p} PROVE Stage(q)'
      BY <1>1, <3>1, <3>2, <3>5, QuietOthers
    <3>7. Settled(db)'
      BY <1>1, <3>1, <3>2 DEF Settled, Kept
    <3> QED  BY <3>4, <3>6, <3>7
  <2> QED  BY <2>1, <2>2
<1>16. ASSUME NEW p \in Starters, InsertUser(p) PROVE Goal
  <2>1. CASE db.users # 0
    BY <1>0, <1>16, <2>1, FailStage DEF InsertUser
  <2>2. CASE db.users = 0
    <3>1. /\ db' = [db EXCEPT !.users = 1] /\ work' = db' /\ pc' = [pc EXCEPT ![p] = "ready"]
          /\ pc[p] = "insertUser" /\ lock = Nobody
          /\ UNCHANGED <<backend, origin, lock, version, line, crashes>>
      BY <1>16, <2>2 DEF InsertUser, Goto
    <3>2. \A q \in Starters : /\ pc'[q] = (IF q = p THEN "ready" ELSE pc[q])
                              /\ pc[q] \notin {"script", "record", "migrate"}
      BY <1>1, <1>6, <3>1, StarterAssumption DEF TypeOK, Control, ControlOf
    <3>3. Settled(db) /\ db.history = Migrations
      BY <1>1, <3>1, <3>2 DEF Stage
    <3>4. /\ db'.history = db.history /\ db'.sessions = db.sessions /\ db'.others = db.others
          /\ db'.cols = db.cols /\ db'.copy = db.copy /\ db'.users = 1
      BY <1>3, <3>1 DEF Databases
    <3>5. Version(9, 9, Kept, db')
      BY <3>3, <3>4, LastVersion DEF Version, At, UsersAt
    <3>6. Settled(db)'
      BY <3>1, <3>5 DEF Settled, Kept
    <3>7. Stage(p)'
      BY <3>2, <3>3, <3>4 DEF Stage
    <3>8. Others(p)
      BY <3>1, <3>2 DEF Others
    <3>9. db.users <= db'.users
      BY <2>2, <3>4
    <3>10. ASSUME NEW q \in Starters \ {p} PROVE Stage(q)'
      BY <1>1, <3>2, <3>4, <3>6, <3>8, <3>9, ForwardOthers
    <3> QED  BY <3>6, <3>7, <3>10
  <2> QED  BY <2>1, <2>2
<1>17. ASSUME NEW p \in Starters, Crash(p) PROVE Goal
  BY <1>0, <1>17, EndsStage DEF Crash, StoppedScript
<1>18. ASSUME NEW p \in Starters, Restart(p) PROVE Goal
  <2>1. /\ pc' = [pc EXCEPT ![p] = "idle"] /\ pc[p] = "failed"
        /\ UNCHANGED <<backend, origin, db, lock, work, version, line, crashes>>
    BY <1>18 DEF Restart, Goto
  <2>2. \A q \in Starters : pc'[q] = IF q = p THEN "idle" ELSE pc[q]
    BY <1>1, <2>1 DEF TypeOK
  <2>3. Others(p)
    BY <2>1, <2>2 DEF Others
  <2>4. ASSUME NEW q \in Starters \ {p} PROVE Stage(q)'
    BY <1>1, <1>5, <2>1, <2>2, <2>3, QuietOthers
  <2>5. Settled(db)' <=> Settled(db)
    BY <2>1 DEF Settled, Kept
  <2>6. Stage(p)'
    BY <2>2 DEF Stage
  <2> QED  BY <1>1, <2>1, <2>2, <2>4, <2>5, <2>6
<1>19. CASE Serving
  BY <1>1, <1>19 DEF Serving, vars, Stage, Settled, Kept, Holding, Alone
<1> QED  BY <1>7, <1>8, <1>9, <1>10, <1>11, <1>12, <1>13, <1>14, <1>15, <1>16, <1>17, <1>18, <1>19
         DEF Next, Step

\* Every step keeps the invariant.
LEMMA UpgradeNext == UpgradeInv /\ [Next]_vars => UpgradeInv'
<1> SUFFICES ASSUME UpgradeInv, [Next]_vars PROVE UpgradeInv'
  OBVIOUS
<1>1. TypeInv'
  BY TypeNext DEF UpgradeInv
<1>2. CASE Next
  <2>1. UNCHANGED <<backend, origin>>
    BY <1>2 DEF Next, Step, Begin, BeginPostgres, Lock, Migrate, ScriptStart, ScriptLine, Record,
                Finish, CountUsers, InsertUser, Crash, Restart, Fail, Serving, vars
  <2>2. Refusable(origin)' <=> Refusable(origin)
    BY <2>1 DEF Refusable, Refused
  <2>3. scripts' = "whole" => scripts = "whole"
    BY ScriptsStep DEF UpgradeInv, TypeInv, TypeOK
  <2> QED  BY <1>1, <1>2, <2>1, <2>2, <2>3, StepUpgrades DEF UpgradeInv, Upgrading
<1>3. CASE UNCHANGED vars
  BY <1>1, <1>3 DEF vars, UpgradeInv, Upgrading, Refusable, Refused, Stage, Settled, Kept, Holding, Alone
<1> QED  BY <1>2, <1>3

\* A service that accepts requests has every table and column its queries
\* name, and the researcher API an account, whatever database it found and
\* wherever other starts overlapped it or died, until one is killed inside a
\* SQLite script or goes on beside one (init_db, bootstrap_initial_user).
THEOREM ReadyServes == Spec => []ReadyIsServable
<1>1. ASSUME UpgradeInv, StartInv PROVE ReadyIsServable
  <2> SUFFICES ASSUME NEW p \in Starters, pc[p] = "ready", scripts = "whole"
               PROVE  /\ db.sessions.cols = {"run", "notNull", "created", "snapshot", "stage"}
                      /\ db.others = OtherTables
                      /\ db.cols = {"slug", "validation", "snapshot"}
                      /\ IF p \in Researchers THEN db.users = 1 ELSE db.users \in {0, 1}
    BY DEF ReadyIsServable
  <2>1. ~Refusable(origin)
    BY <1>1 DEF StartInv, Untouched, FirstTransaction
  <2>2. TypeOK /\ Control /\ Stage(p) /\ db.history = 1..9
    BY <1>1, <2>1 DEF UpgradeInv, Upgrading, TypeInv, Stage, Migrations, CURRENT_SCHEMA_VERSION
  <2>3. Settled(db)
    <3> SUFFICES ASSUME NEW q \in Starters, pc[q] = "script" PROVE FALSE
      BY <1>1, <2>1 DEF UpgradeInv, Upgrading
    <3>1. PICK v \in Scripts : db.history = 1..(v - 1)
      BY <1>1, <2>1 DEF UpgradeInv, Upgrading, Stage, HalfDone
    <3>2. 9 \in 1..9 /\ 9 \notin 1..(v - 1)
      BY DEF Scripts
    <3> QED  BY <2>2, <3>1, <3>2, Zenon
  <2>4. At(9, Kept, db)
    BY <2>2, <2>3, LastVersion DEF Version, Migrations, CURRENT_SCHEMA_VERSION
  <2>5. /\ db.sessions = [cols |-> SessionGroupsAt(9), rows |-> Kept] /\ db.others = OtherTables
        /\ db.cols = GroupsAt(9) /\ db.users \in {0, 1}
    BY <2>4 DEF At, UsersAt
  <2>6. db.sessions.cols = SessionGroupsAt(9)
    BY <2>5
  <2>7. p \in Researchers => db.users = 1
    BY <2>2 DEF Stage
  <2> QED  BY <2>5, <2>6, <2>7, GroupsGrow
<1>2. UpgradeInv /\ [Next]_vars => UpgradeInv'
  BY UpgradeNext
<1> QED  BY StartInit, StartNext, UpgradeInit, <1>1, <1>2, PTL DEF Spec
-----------------------------------------------------------------------------
(* The sessions survive a killed script, without any condition on who      *)
(* started beside the starts that are whole.                               *)

\* Rows that were there.
Present == {"bound", "unbound"}

\* What a kill before the RENAME of migration 5 leaves: no start goes on from
\* it, for migration 5 reads the table that is gone.
OnlyCopy(d) ==
    backend = "sqlite" /\ d.sessions = NoTable /\ d.copy.rows \in Present /\ d.history = 1..4

\* The rows of a database between two transactions.
RowsIn(d) == d.sessions.rows \in Present \/ OnlyCopy(d)

\* The rows before statement l of the script of migration v: from the last but
\* one statement in the copy, and before the last one there alone.
ScriptRows(v, l, d) ==
    IF v = 1 THEN d.sessions.rows \in Present
    ELSE /\ IF l = ScriptLength(v) THEN d.sessions = NoTable ELSE d.sessions.rows \in Present
         /\ l >= ScriptLength(v) - 1 => d.copy.rows \in Present

\* What keeps the rows while a start is where it is; on SQLite its version is
\* the one its transaction or the database records.
RowsStage(p) ==
    /\ pc[p] = "migrate" => RowsIn(work) /\ (backend = "sqlite" => work.history = 1..version[p])
    /\ pc[p] = "script" => Alone(p) /\ db.history = 1..version[p]
                           /\ ScriptRows(version[p] + 1, line[p], db)
    /\ pc[p] = "record" => Alone(p) /\ db.history = 1..version[p] /\ db.sessions.rows \in Present

\* The rows of every start, and those of a database no script is changing.
RowsEverywhere ==
    /\ \A p \in Starters : RowsStage(p)
    /\ RowsIn(db) \/ \E p \in Starters : pc[p] = "script"

\* The inductive invariant of the sessions.
RowsInv == TypeInv /\ (scripts # "torn" /\ origin.sessions.rows \in Present => RowsEverywhere)

\* Two histories without gaps are equal when they end at the same version.
LEMMA SameEnd == ASSUME NEW a \in Nat, NEW b \in Nat, 1..a = 1..b PROVE a = b
<1>1. a \in 1..a \/ a = 0
  OBVIOUS
<1>2. b \in 1..b \/ b = 0
  OBVIOUS
<1> QED  BY <1>1, <1>2

\* A migration inside a transaction keeps the rows of the table.
LEMMA RowsMigrated ==
    ASSUME NEW v \in Migrations, v \notin Scripts \/ backend = "postgres",
           NEW d \in Databases, d.sessions.rows \in Present,
           NEW f \in Outcome(v, d), NEW e \in Recorded(v, f)
    PROVE  e.sessions.rows \in Present /\ e.history = d.history \cup {v}
<1>0. v \in {1, 2, 3, 4, 5, 6, 7, 8, 9}
  BY DEF Migrations, CURRENT_SCHEMA_VERSION
<1>1. f \in Databases /\ f.history = d.history
  BY OutcomeType, MigrationFrame
<1>2. f.sessions.rows \in Present
  <2>1. CASE v \in {2, 7, 9}
    <3>1. PICK g, r : r \in Present /\ f \in AddToSessions(d, g, r)
      BY <2>1 DEF Outcome, Scripts, Upgrade, UpgradePostgres, RowsWithoutRun, Present
    <3>2. f.sessions = [cols |-> d.sessions.cols \cup {g}, rows |-> r]
      BY <3>1, AddToSessionsEffect
    <3> QED  BY <3>1, <3>2
  <2>2. CASE v \in {3, 4}
    <3>1. \E g : f \in AddGroup(d, g)
      BY <2>2 DEF Outcome, Scripts, Upgrade
    <3> QED  BY <3>1, AddGroupEffect
  <2>3. CASE v = 8
    <3>1. PICK x \in AddToSessions(d, "snapshot", d.sessions.rows) : f \in AddGroup(x, "snapshot")
      BY <2>3 DEF Outcome, Scripts, Upgrade
    <3>2. x \in Databases
      BY AddToSessionsType DEF SessionGroups, Databases, Tables
    <3>3. x.sessions = [cols |-> d.sessions.cols \cup {"snapshot"}, rows |-> d.sessions.rows]
      BY <3>1, AddToSessionsEffect
    <3>4. f.sessions = x.sessions
      BY <3>1, <3>2, AddGroupEffect
    <3> QED  BY <3>3, <3>4
  <2>4. v # 1
    BY DEF Outcome, Scripts, UpgradePostgres, NoTable, Present
  <2>5. CASE v = 5
    <3>1. f = [d EXCEPT !.sessions.cols = @ \cup {"notNull"}]
      BY <2>5 DEF Outcome, Scripts, UpgradePostgres
    <3> QED  BY <3>1 DEF Databases, Tables
  <2>6. CASE v = 6
    <3>1. f = [d EXCEPT !.users = IF @ = -1 THEN 0 ELSE @]
      BY <2>6 DEF Outcome, Scripts, Upgrade
    <3> QED  BY <3>1 DEF Databases
  <2> QED  BY <1>0, <2>1, <2>2, <2>3, <2>4, <2>5, <2>6
<1>3. e = [f EXCEPT !.history = @ \cup {v}]
  BY DEF Recorded
<1> QED  BY <1>1, <1>2, <1>3 DEF Databases

\* A statement of a script moves the rows or leaves them, and at the end they
\* are in the table.
LEMMA RowsStatement ==
    ASSUME NEW v \in Scripts, NEW l \in 1..ScriptLength(v), NEW d \in Databases,
           ScriptRows(v, l, d), NEW e \in Statement(v, l, d)
    PROVE  /\ e.history = d.history
           /\ IF l = ScriptLength(v) THEN e.sessions.rows \in Present ELSE ScriptRows(v, l + 1, e)
<1>1. CASE v = 1
  <2>1. l # 1 /\ d.sessions.rows \in Present
    BY <1>1 DEF ScriptRows, Statement, NoTable, Present
  <2>2. l \in Nat /\ l > 1
    BY <2>1, ScriptLengthType
  <2>3. e = [d EXCEPT !.others = l - 1]
    BY <1>1, <2>2 DEF Statement
  <2> QED  BY <1>1, <2>1, <2>3 DEF ScriptRows, Databases
<1>2. CASE v \in {5, 7}
  <2> DEFINE left == ScriptLength(v) - l
  <2>1. /\ left \in 0..4 /\ l \in 1..5 /\ ScriptLength(v) \in 4..5
        /\ left = 4 => e = [d EXCEPT !.copy = NoTable]
        /\ left = 3 => e \in CreateCopy(d, SessionGroupsAt(v))
        /\ left = 2 => e \in FillCopy(d)
        /\ left = 1 => e \in DropSessions(d)
        /\ left = 0 => e \in RenameCopy(d)
    BY <1>2, StatementOf DEF ScriptLength
  <2>2. /\ IF left = 0 THEN d.sessions = NoTable ELSE d.sessions.rows \in Present
        /\ left <= 1 => d.copy.rows \in Present
    BY <1>2, <2>1 DEF ScriptRows
  <2>3. (l = ScriptLength(v) <=> left = 0) /\ (l + 1 = ScriptLength(v) <=> left = 1)
        /\ (l + 1 >= ScriptLength(v) - 1 <=> left <= 2)
    BY <2>1
  <2> HIDE DEF left
  <2>4. /\ e.history = d.history
        /\ left = 0 => e.sessions.rows \in Present
        /\ left = 1 => e.sessions = NoTable /\ e.copy.rows \in Present
        /\ left = 2 => e.sessions.rows \in Present /\ e.copy.rows \in Present
        /\ left \in {3, 4} => e.sessions.rows \in Present
    <3>1. CASE left = 0
      <4>1. e = [d EXCEPT !.sessions = d.copy, !.copy = NoTable]
        BY <2>1, <3>1 DEF RenameCopy
      <4>2. e.sessions = d.copy /\ e.history = d.history
        BY <4>1 DEF Databases
      <4> QED  BY <2>2, <3>1, <4>2
    <3>2. CASE left = 1
      BY <2>1, <2>2, <3>2 DEF DropSessions, Databases
    <3>3. CASE left = 2
      BY <2>1, <2>2, <3>3 DEF FillCopy, Databases, Tables
    <3>4. CASE left = 3
      BY <2>1, <2>2, <3>4 DEF CreateCopy, Databases
    <3>5. CASE left = 4
      BY <2>1, <2>2, <3>5 DEF Databases
    <3> QED  BY <2>1, <3>1, <3>2, <3>3, <3>4, <3>5
  <2> QED  BY <1>2, <2>1, <2>3, <2>4 DEF ScriptRows
<1> QED  BY <1>1, <1>2 DEF Scripts

\* What a step of p leaves to the others: who has a transaction keeps it, and
\* the tables stay as they are beside a script.
LEMMA RowsOthers ==
    ASSUME NEW p \in Starters, Others(p), NEW q \in Starters \ {p}, RowsStage(q),
           pc[q] = "migrate" => work' = work,
           pc[q] \in {"script", "record"} =>
               /\ lock' = Nobody /\ pc'[p] \notin {"script", "record"}
               /\ db'.sessions = db.sessions /\ db'.copy = db.copy /\ db'.history = db.history
    PROVE  RowsStage(q)'
<1>1. /\ pc'[q] = pc[q] /\ version'[q] = version[q] /\ line'[q] = line[q] /\ backend' = backend
  BY DEF Others
<1>2. pc[q] \in {"script", "record"} => (Alone(q) => Alone(q)')
  BY <1>1 DEF Alone, Others
<1>3. pc[q] = "migrate" => (RowsIn(work) => RowsIn(work)')
  BY <1>1 DEF RowsIn, OnlyCopy
<1>4. pc[q] = "script" =>
          (ScriptRows(version[q] + 1, line[q], db) => ScriptRows(version[q] + 1, line[q], db)')
  BY <1>1 DEF ScriptRows, ScriptLength
<1> QED  BY <1>1, <1>2, <1>3, <1>4 DEF RowsStage

\* A process that fails or is killed leaves the rows where a later start finds
\* them.
LEMMA EndsRows ==
    ASSUME TypeInv, RowsEverywhere, NEW p \in Starters, NEW l \in {"idle", "failed"}, Goto(p, l), Free(p),
           work' = (IF lock = p THEN db ELSE work), UNCHANGED <<backend, origin, db, version, line>>,
           pc[p] = "script" => RowsIn(db)
    PROVE  RowsEverywhere'
<1>1. TypeOK /\ Control
  BY DEF TypeInv
<1>2. \A q \in Starters : pc'[q] = IF q = p THEN l ELSE pc[q]
  BY <1>1 DEF Goto, TypeOK
<1>3. Others(p)
  BY <1>2 DEF Others
<1>4. ASSUME NEW q \in Starters \ {p} PROVE RowsStage(q)'
  <2>1. pc[q] = "migrate" => work' = work
    BY <1>1 DEF Control, ControlOf
  <2>2. RowsStage(q)
    BY DEF RowsEverywhere
  <2>3. pc[q] \in {"script", "record"} => lock' = Nobody
    BY <2>2 DEF RowsStage, Alone, Free
  <2> QED  BY <1>2, <1>3, <2>1, <2>2, <2>3, RowsOthers
<1>5. RowsStage(p)'
  BY <1>2 DEF RowsStage
<1>6. RowsIn(db) => RowsIn(db)'
  BY DEF RowsIn, OnlyCopy
<1> QED  BY <1>2, <1>4, <1>5, <1>6 DEF RowsEverywhere

\* A start that fails outside a script.
LEMMA FailRows ==
    ASSUME TypeInv, RowsEverywhere, NEW p \in Starters, pc[p] # "script", Fail(p)
    PROVE  RowsEverywhere'
BY EndsRows DEF Fail

\* The rows of a database are never in a script that is about to fail or to be
\* killed, except before the last statement of migration 7.
LEMMA RowsAtLine ==
    ASSUME TypeInv, RowsEverywhere, NEW p \in Starters, pc[p] = "script"
    PROVE  /\ ~BeforeRename(p) => RowsIn(db)
           /\ Statement(version[p] + 1, line[p], db) = {} => RowsIn(db)
<1>1. /\ backend = "sqlite" /\ version[p] + 1 \in Scripts /\ line[p] \in 1..ScriptLength(version[p] + 1)
      /\ db.history = 1..version[p] /\ ScriptRows(version[p] + 1, line[p], db)
  BY DEF TypeInv, Control, ControlOf, RowsEverywhere, RowsStage
<1>2. version[p] \in 0..9 /\ db \in Databases
  BY DEF TypeInv, TypeOK, CURRENT_SCHEMA_VERSION
<1>3. CASE version[p] + 1 = 1 \/ line[p] # ScriptLength(version[p] + 1)
  BY <1>1, <1>3 DEF ScriptRows, RowsIn
<1>4. CASE version[p] + 1 # 1 /\ line[p] = ScriptLength(version[p] + 1)
  <2>1. db.sessions = NoTable /\ db.copy.rows \in Present
    <3>1. line[p] >= ScriptLength(version[p] + 1) - 1
      BY <1>1, <1>4, ScriptLengthType
    <3> QED  BY <1>1, <1>4, <3>1 DEF ScriptRows
  <2>2. CASE version[p] + 1 = 5
    <3>1. version[p] = 4
      BY <1>2, <2>2
    <3>2. OnlyCopy(db)
      BY <1>1, <2>1, <3>1 DEF OnlyCopy
    <3> QED  BY <3>2 DEF RowsIn
  <2>3. CASE version[p] + 1 = 7
    <3>1. BeforeRename(p)
      BY <1>4, <2>3 DEF BeforeRename
    <3>2. Statement(version[p] + 1, line[p], db) = RenameCopy(db)
      <4>1. Statement(7, line[p], db) = RenameCopy(db)
        <5>1. line[p] = 5
          BY <1>4, <2>3 DEF ScriptLength
        <5> QED  BY <5>1 DEF Statement, ScriptLength
      <4> QED  BY <2>3, <4>1
    <3>3. RenameCopy(db) # {}
      BY <2>1 DEF RenameCopy, NoTable, Present
    <3> QED  BY <3>1, <3>2, <3>3
  <2> QED  BY <1>1, <1>4, <2>2, <2>3 DEF Scripts
<1> QED  BY <1>3, <1>4

\* A step that moves no rows, by a start that is in no script before or after
\* it and has no transaction.
LEMMA RowsFrame ==
    ASSUME RowsEverywhere, NEW p \in Starters, NEW l \in {"ready", "insertUser", "idle"}, pc[p] # "script",
           \A q \in Starters : pc'[q] = (IF q = p THEN l ELSE pc[q]),
           UNCHANGED <<backend, lock, version, line>>,
           db'.sessions = db.sessions, db'.copy = db.copy, db'.history = db.history,
           work' = work \/ \A q \in Starters : pc[q] # "migrate"
    PROVE  RowsEverywhere'
<1>1. \A q \in Starters : pc'[q] \in {"script", "record", "migrate"} => pc[q] = pc'[q] /\ RowsStage(q)
  BY DEF RowsEverywhere
<1>2. \A q \in Starters : Alone(q) => Alone(q)'
  BY DEF Alone
<1>3. RowsIn(db) => RowsIn(db)'
  BY DEF RowsIn, OnlyCopy
<1>4. ASSUME NEW q \in Starters, pc'[q] = "migrate"
      PROVE  RowsIn(work)' /\ (backend' = "sqlite" => work'.history = 1..version'[q])
  BY <1>1, <1>4 DEF RowsStage, RowsIn, OnlyCopy
<1>5. \A q \in Starters : ScriptRows(version[q] + 1, line[q], db) => ScriptRows(version[q] + 1, line[q], db)'
  BY DEF ScriptRows, ScriptLength
<1>6. \A q \in Starters : RowsStage(q)'
  BY <1>1, <1>2, <1>4, <1>5 DEF RowsStage
<1> QED  BY <1>3, <1>6 DEF RowsEverywhere

\* One step of the starts, of a database with sessions.
LEMMA StepKeepsRows ==
    ASSUME TypeInv, RowsEverywhere, Next, scripts' # "torn"
    PROVE  RowsEverywhere'
<1> USE DEF RowsEverywhere
<1>1. TypeOK /\ Control /\ (\A q \in Starters : RowsStage(q))
  BY DEF TypeInv
<1>2. \A p, q \in Starters : lock = p => pc[q] \notin {"script", "record"} /\ (q # p => pc[q] # "migrate")
  BY <1>1, StarterAssumption DEF RowsStage, Alone, Control, ControlOf
<1>3. \A p \in Starters : lock = p => RowsIn(db)
  BY <1>1, <1>2
<1>4. ASSUME NEW p \in Starters, Begin(p) PROVE RowsEverywhere'
  <2>1. CASE Refused(db)
    BY <1>4, <2>1, FailRows DEF Begin
  <2>2. CASE ~Refused(db)
    <3>1. /\ version' = [version EXCEPT ![p] = Found(db)]
          /\ work' = [db EXCEPT !.history = IF Unversioned(db) THEN 1..Infer(db) ELSE @]
          /\ lock' = p /\ pc' = [pc EXCEPT ![p] = "migrate"] /\ lock = Nobody /\ backend = "sqlite"
          /\ UNCHANGED <<backend, origin, db, line, crashes>>
          /\ \A q \in Starters : pc[q] \notin {"script", "record"}
      BY <1>4, <2>2 DEF Begin, Goto, InScript, BesideScript
    <3>2. RowsIn(db)
      BY <3>1
    <3>3. \A q \in Starters : /\ pc'[q] = (IF q = p THEN "migrate" ELSE pc[q]) /\ pc[q] # "migrate"
                              /\ version'[q] = (IF q = p THEN Found(db) ELSE version[q])
      BY <1>1, <3>1, StarterAssumption DEF TypeOK, Control, ControlOf
    <3>4. /\ work'.sessions = db.sessions /\ work'.copy = db.copy
          /\ work'.history = IF Unversioned(db) THEN 1..Infer(db) ELSE db.history
      BY <1>1, <3>1 DEF TypeOK, Databases
    <3>5. work'.history = 1..version'[p]
      BY <2>2, <3>1, <3>3, <3>4 DEF Found, Refused, Contiguous
    <3>6. RowsIn(work')
      <4>1. db.history = 1..4 => ~Unversioned(db)
        <5>1. 1 \in 1..4
          OBVIOUS
        <5> QED  BY <5>1 DEF Unversioned
      <4> QED  BY <3>2, <3>4, <4>1 DEF RowsIn, OnlyCopy
    <3>7. RowsIn(work)' /\ RowsIn(db)'
      BY <3>1, <3>2, <3>6 DEF RowsIn, OnlyCopy
    <3>8. RowsStage(p)'
      BY <3>3, <3>5, <3>7 DEF RowsStage
    <3>9. ASSUME NEW q \in Starters \ {p} PROVE RowsStage(q)'
      BY <3>1, <3>3 DEF RowsStage
    <3> QED  BY <3>7, <3>8, <3>9
  <2> QED  BY <2>1, <2>2
<1>5. ASSUME NEW p \in Starters, BeginPostgres(p) PROVE RowsEverywhere'
  <2>1. CASE Refused(db)
    BY <1>5, <2>1, FailRows DEF BeginPostgres
  <2>2. CASE ~Refused(db)
    <3>1. /\ version' = [version EXCEPT ![p] = Found(db)] /\ pc' = [pc EXCEPT ![p] = "waiting"]
          /\ backend = "postgres" /\ UNCHANGED <<backend, origin, db, lock, work, line, crashes>>
      BY <1>5, <2>2 DEF BeginPostgres, Goto
    <3>2. \A q \in Starters : pc[q] \notin {"script", "record"}
      BY <1>1, <3>1 DEF Control, ControlOf
    <3>3. \A q \in Starters : /\ pc'[q] = (IF q = p THEN "waiting" ELSE pc[q])
                              /\ version'[q] = (IF q = p THEN Found(db) ELSE version[q])
      BY <1>1, <3>1 DEF TypeOK
    <3>4. Others(p)
      BY <3>1, <3>3 DEF Others
    <3>5. ASSUME NEW q \in Starters \ {p} PROVE RowsStage(q)'
      BY <1>1, <3>1, <3>2, <3>4, RowsOthers
    <3>6. RowsStage(p)' /\ RowsIn(db)'
      BY <3>1, <3>2, <3>3 DEF RowsStage, RowsIn, OnlyCopy
    <3> QED  BY <3>5, <3>6
  <2> QED  BY <2>1, <2>2
<1>6. ASSUME NEW p \in Starters, Lock(p) PROVE RowsEverywhere'
  <2>1. /\ lock = Nobody /\ lock' = p /\ work' = db /\ pc' = [pc EXCEPT ![p] = "migrate"]
        /\ pc[p] = "waiting" /\ UNCHANGED <<backend, origin, db, version, line, crashes>>
    BY <1>6 DEF Lock, Goto
  <2>2. backend = "postgres"
    BY <1>1, <2>1 DEF Control, ControlOf
  <2>3. RowsIn(db) /\ \A q \in Starters : pc[q] \notin {"script", "record"}
    BY <1>1, <2>2 DEF Control, ControlOf
  <2>4. \A q \in Starters : pc'[q] = (IF q = p THEN "migrate" ELSE pc[q]) /\ pc[q] # "migrate"
    BY <1>1, <2>1, StarterAssumption DEF TypeOK, Control, ControlOf
  <2>5. RowsIn(work)' /\ RowsIn(db)'
    BY <2>1, <2>3 DEF RowsIn, OnlyCopy
  <2>6. \A q \in Starters : RowsStage(q)'
    BY <2>1, <2>2, <2>3, <2>4, <2>5 DEF RowsStage
  <2> QED  BY <2>5, <2>6
<1>7. ASSUME NEW p \in Starters, Migrate(p) PROVE RowsEverywhere'
  <2> DEFINE v == version[p] + 1
             after == UNION {Recorded(v, d) : d \in Outcome(v, work)}
  <2>1. CASE after = {}
    BY <1>7, <2>1, FailRows DEF Migrate
  <2>2. CASE after # {}
    <3>1. /\ work' \in after /\ version' = [version EXCEPT ![p] = v]
          /\ pc[p] = "migrate" /\ v \in Migrations /\ (backend = "postgres" \/ v \notin Scripts)
          /\ UNCHANGED <<backend, origin, db, lock, pc, line, crashes>>
      BY <1>1, <1>7, <2>2 DEF Migrate, TypeOK, Migrations, CURRENT_SCHEMA_VERSION
    <3>2. /\ lock = p /\ RowsIn(work) /\ (backend = "sqlite" => work.history = 1..version[p])
          /\ version[p] \in 0..9 /\ v = version[p] + 1
      BY <1>1, <3>1 DEF Control, ControlOf, RowsStage, TypeOK, CURRENT_SCHEMA_VERSION
    <3>3. PICK f \in Outcome(v, work) : work' \in Recorded(v, f)
      BY <3>1
    <3> HIDE DEF v, after
    <3>4. work.sessions.rows \in Present
      <4> SUFFICES ASSUME OnlyCopy(work) PROVE FALSE
        BY <3>2 DEF RowsIn
      <4>1. version[p] = 4
        <5>1. 1..version[p] = 1..4
          BY <3>2, Zenon DEF OnlyCopy
        <5>2. version[p] \in Nat
          BY <3>2
        <5> QED  BY <5>1, <5>2, SameEnd
      <4> QED  BY <3>1, <3>2, <4>1 DEF OnlyCopy, Scripts
    <3>5. work'.sessions.rows \in Present /\ work'.history = work.history \cup {v}
      BY <1>1, <3>1, <3>3, <3>4, RowsMigrated DEF TypeOK
    <3>6. \A q \in Starters : /\ pc[q] \notin {"script", "record"} /\ (q # p => pc[q] # "migrate")
                              /\ version'[q] = (IF q = p THEN v ELSE version[q])
      BY <1>1, <1>2, <3>1, <3>2 DEF TypeOK
    <3>7. backend' = "sqlite" => work'.history = 1..version'[p]
      <4>1. (1..version[p]) \cup {v} = 1..v
        BY <3>2
      <4> QED  BY <3>1, <3>2, <3>5, <3>6, <4>1
    <3>8. RowsIn(work)' /\ RowsIn(db)'
      BY <1>3, <3>1, <3>2, <3>5 DEF RowsIn, OnlyCopy
    <3>9. \A q \in Starters : RowsStage(q)'
      BY <3>1, <3>6, <3>7, <3>8 DEF RowsStage
    <3> QED  BY <3>8, <3>9
  <2> QED  BY <2>1, <2>2
<1>8. ASSUME NEW p \in Starters, ScriptStart(p) PROVE RowsEverywhere'
  <2> DEFINE orphans == version[p] + 1 = 5 /\ (work.sessions = NoTable \/ work.sessions.rows = "unbound")
  <2>1. CASE orphans
    BY <1>8, <2>1, FailRows DEF ScriptStart
  <2>2. CASE ~orphans
    <3>1. /\ db' = work /\ lock' = Nobody /\ line' = [line EXCEPT ![p] = 1]
          /\ pc' = [pc EXCEPT ![p] = "script"] /\ pc[p] = "migrate" /\ version[p] + 1 \in Scripts
          /\ backend = "sqlite" /\ UNCHANGED <<backend, origin, work, version, crashes>>
      BY <1>8, <2>2 DEF ScriptStart, Goto
    <3>2. lock = p /\ RowsIn(work) /\ work.history = 1..version[p] /\ version[p] \in 0..9
      BY <1>1, <3>1 DEF Control, ControlOf, RowsStage, TypeOK, CURRENT_SCHEMA_VERSION
    <3>3. work.sessions.rows \in Present
      <4> SUFFICES ASSUME OnlyCopy(work) PROVE FALSE
        BY <3>2 DEF RowsIn
      <4>1. version[p] = 4
        <5>1. 1..version[p] = 1..4
          BY <3>2, Zenon DEF OnlyCopy
        <5>2. version[p] \in Nat
          BY <3>2
        <5> QED  BY <5>1, <5>2, SameEnd
      <4> QED  BY <2>2, <4>1 DEF OnlyCopy
    <3>4. ScriptRows(version[p] + 1, 1, work)
      <4>1. version[p] + 1 # 1 => ScriptLength(version[p] + 1) \in {4, 5}
        BY <3>1 DEF Scripts, ScriptLength
      <4> QED  BY <3>3, <4>1 DEF ScriptRows
    <3>5. \A q \in Starters : /\ pc'[q] = (IF q = p THEN "script" ELSE pc[q])
                              /\ line'[q] = (IF q = p THEN 1 ELSE line[q])
                              /\ pc[q] \notin {"script", "record"} /\ (q # p => pc[q] # "migrate")
      BY <1>1, <1>2, <3>1, <3>2 DEF TypeOK
    <3>6. Alone(p)'
      BY <3>1, <3>5 DEF Alone
    <3>7. ScriptRows(version[p] + 1, line[p], db)'
      BY <3>1, <3>4, <3>5 DEF ScriptRows, ScriptLength
    <3>8. \A q \in Starters : RowsStage(q)'
      BY <3>1, <3>2, <3>5, <3>6, <3>7 DEF RowsStage
    <3> QED  BY <3>5, <3>8
  <2> QED  BY <2>1, <2>2
<1>9. ASSUME NEW p \in Starters, ScriptLine(p) PROVE RowsEverywhere'
  <2> DEFINE v == version[p] + 1
             after == Statement(v, line[p], db)
  <2>1. pc[p] = "script" /\ Alone(p) /\ db.history = 1..version[p] /\ ScriptRows(v, line[p], db)
        /\ v \in Scripts /\ line[p] \in 1..ScriptLength(v)
    BY <1>1, <1>9 DEF ScriptLine, RowsStage, Control, ControlOf
  <2>2. CASE after = {}
    <3>1. Fail(p) /\ RowsIn(db)
      BY <1>9, <2>1, <2>2, RowsAtLine DEF ScriptLine
    <3> QED  BY <3>1, EndsRows DEF Fail
  <2>3. CASE after # {}
    <3>1. /\ db' \in after /\ work' = db' /\ line' = [line EXCEPT ![p] = @ + 1]
          /\ pc' = [pc EXCEPT ![p] = IF line[p] = ScriptLength(v) THEN "record" ELSE "script"]
          /\ UNCHANGED <<backend, origin, lock, version, crashes>>
      BY <1>9, <2>3 DEF ScriptLine, Goto
    <3>2. /\ db'.history = db.history
          /\ IF line[p] = ScriptLength(v) THEN db'.sessions.rows \in Present ELSE ScriptRows(v, line[p] + 1, db')
      <4> HIDE DEF v
      <4> QED  BY <1>1, <2>1, <3>1, RowsStatement DEF TypeOK
    <3> HIDE DEF after
    <3>3. \A q \in Starters : q # p => pc'[q] = pc[q] /\ pc[q] \notin {"script", "record", "migrate"}
      BY <1>1, <2>1, <3>1, StarterAssumption DEF TypeOK, Alone, Control, ControlOf
    <3>4. /\ pc'[p] = (IF line[p] = ScriptLength(v) THEN "record" ELSE "script")
          /\ line'[p] = line[p] + 1 /\ version' = version
      BY <1>1, <3>1 DEF TypeOK
    <3>5. Alone(p)'
      BY <2>1, <3>1, <3>3 DEF Alone
    <3>6. line[p] # ScriptLength(v) => ScriptRows(version[p] + 1, line[p], db)'
      BY <3>2, <3>4 DEF ScriptRows, ScriptLength
    <3>7. RowsStage(p)'
      BY <2>1, <3>2, <3>4, <3>5, <3>6 DEF RowsStage
    <3>8. ASSUME NEW q \in Starters \ {p} PROVE RowsStage(q)'
      BY <3>3 DEF RowsStage
    <3>9. RowsIn(db)' \/ pc'[p] = "script"
      BY <3>2, <3>4 DEF RowsIn
    <3> QED  BY <3>7, <3>8, <3>9
  <2> QED  BY <2>2, <2>3
<1>10. ASSUME NEW p \in Starters, Record(p) PROVE RowsEverywhere'
  <2> DEFINE v == version[p] + 1
  <2>1. CASE Recorded(v, db) = {}
    BY <1>10, <2>1, FailRows DEF Record
  <2>2. CASE Recorded(v, db) # {}
    <3>1. /\ work' \in Recorded(v, db) /\ lock = Nobody /\ lock' = p /\ pc[p] = "record"
          /\ version' = [version EXCEPT ![p] = v] /\ pc' = [pc EXCEPT ![p] = "migrate"]
          /\ UNCHANGED <<backend, origin, db, line, crashes>>
      BY <1>10, <2>2 DEF Record, Goto
    <3>2. Alone(p) /\ db.history = 1..version[p] /\ db.sessions.rows \in Present /\ version[p] \in 0..9
      BY <1>1, <3>1 DEF RowsStage, TypeOK, CURRENT_SCHEMA_VERSION
    <3>3. work'.sessions = db.sessions /\ work'.history = 1..v
      <4>1. work' = [db EXCEPT !.history = @ \cup {v}]
        BY <3>1 DEF Recorded
      <4>2. (1..version[p]) \cup {v} = 1..v
        BY <3>2
      <4> QED  BY <1>1, <3>2, <4>1, <4>2 DEF TypeOK, Databases
    <3>4. \A q \in Starters : /\ pc'[q] = (IF q = p THEN "migrate" ELSE pc[q]) /\ pc[q] # "migrate"
                              /\ version'[q] = (IF q = p THEN v ELSE version[q])
                              /\ q # p => pc[q] \notin {"script", "record"}
      BY <1>1, <3>1, <3>2, StarterAssumption DEF Alone, TypeOK, Control, ControlOf
    <3>5. RowsIn(work)' /\ RowsIn(db)'
      BY <3>1, <3>2, <3>3 DEF RowsIn
    <3>6. \A q \in Starters : RowsStage(q)'
      BY <3>3, <3>4, <3>5 DEF RowsStage
    <3> QED  BY <3>5, <3>6
  <2> QED  BY <2>1, <2>2
<1>11. ASSUME NEW p \in Starters, Finish(p) PROVE RowsEverywhere'
  <2>1. CASE ~Validated(work)
    BY <1>11, <2>1, FailRows DEF Finish
  <2>2. CASE Validated(work)
    <3>1. /\ pc' = [pc EXCEPT ![p] = IF p \in Researchers THEN "countUsers" ELSE "ready"]
          /\ db' = work /\ lock' = Nobody /\ pc[p] = "migrate"
          /\ UNCHANGED <<backend, origin, work, version, line, crashes>>
      BY <1>11, <2>2 DEF Finish, Goto
    <3>2. lock = p /\ RowsIn(work)
      BY <1>1, <3>1 DEF Control, ControlOf, RowsStage
    <3>3. \A q \in Starters : pc'[q] \notin {"script", "record", "migrate"}
      BY <1>1, <1>2, <3>1, <3>2 DEF TypeOK
    <3>4. RowsIn(db)'
      BY <3>1, <3>2 DEF RowsIn, OnlyCopy
    <3> QED  BY <3>3, <3>4 DEF RowsStage
  <2> QED  BY <2>1, <2>2
<1>12. ASSUME NEW p \in Starters, CountUsers(p) PROVE RowsEverywhere'
  <2>1. CASE db.users = -1
    BY <1>12, <2>1, FailRows DEF CountUsers
  <2>2. CASE db.users # -1
    <3>1. PICK l \in {"ready", "insertUser"} : pc' = [pc EXCEPT ![p] = l]
      BY <1>12, <2>2 DEF CountUsers, Goto
    <3>2. pc[p] = "countUsers" /\ UNCHANGED <<backend, origin, db, lock, work, version, line, crashes>>
      BY <1>12, <2>2 DEF CountUsers
    <3>3. pc[p] # "script" /\ \A q \in Starters : pc'[q] = (IF q = p THEN l ELSE pc[q])
      BY <1>1, <3>1, <3>2 DEF TypeOK
    <3> QED  BY <1>1, <3>2, <3>3, RowsFrame
  <2> QED  BY <2>1, <2>2
<1>13. ASSUME NEW p \in Starters, InsertUser(p) PROVE RowsEverywhere'
  <2>1. CASE db.users # 0
    BY <1>13, <2>1, FailRows DEF InsertUser
  <2>2. CASE db.users = 0
    <3>1. /\ db' = [db EXCEPT !.users = 1] /\ work' = db' /\ pc' = [pc EXCEPT ![p] = "ready"]
          /\ pc[p] = "insertUser" /\ lock = Nobody
          /\ UNCHANGED <<backend, origin, lock, version, line, crashes>>
      BY <1>13, <2>2 DEF InsertUser, Goto
    <3>2. \A q \in Starters : pc'[q] = (IF q = p THEN "ready" ELSE pc[q]) /\ pc[q] # "migrate"
      BY <1>1, <3>1, StarterAssumption DEF TypeOK, Control, ControlOf
    <3>3. db'.history = db.history /\ db'.sessions = db.sessions /\ db'.copy = db.copy
      BY <1>1, <3>1 DEF TypeOK, Databases
    <3> QED  BY <1>1, <3>1, <3>2, <3>3, RowsFrame
  <2> QED  BY <2>1, <2>2
<1>14. ASSUME NEW p \in Starters, Crash(p) PROVE RowsEverywhere'
  <2>1. pc[p] = "script" => RowsIn(db)
    BY <1>14, RowsAtLine DEF Crash, StoppedScript
  <2> QED  BY <1>14, <2>1, EndsRows DEF Crash
<1>15. ASSUME NEW p \in Starters, Restart(p) PROVE RowsEverywhere'
  <2>1. /\ pc' = [pc EXCEPT ![p] = "idle"] /\ pc[p] = "failed"
        /\ UNCHANGED <<backend, origin, db, lock, work, version, line, crashes>>
    BY <1>15 DEF Restart, Goto
  <2>2. pc[p] # "script" /\ \A q \in Starters : pc'[q] = IF q = p THEN "idle" ELSE pc[q]
    BY <1>1, <2>1 DEF TypeOK
  <2> QED  BY <1>1, <2>1, <2>2, RowsFrame
<1>16. CASE Serving
  BY <1>16 DEF Serving, vars, RowsStage, RowsIn, OnlyCopy, ScriptRows, Alone
<1> QED  BY <1>4, <1>5, <1>6, <1>7, <1>8, <1>9, <1>10, <1>11, <1>12, <1>13, <1>14, <1>15, <1>16
         DEF Next, Step

\* The rows are in the table before the first start, and stay known.
LEMMA RowsInvariant == Spec => []RowsInv
<1>1. Init => RowsInv
  <2> SUFFICES ASSUME Init PROVE RowsInv
    OBVIOUS
  <2>1. \A p \in Starters : RowsStage(p)
    BY DEF Init, RowsStage
  <2>2. origin.sessions.rows \in Present => RowsIn(db)
    BY DEF Init, RowsIn
  <2> QED  BY <2>1, <2>2, TypeInit DEF RowsInv, RowsEverywhere
<1>2. RowsInv /\ [Next]_vars => RowsInv'
  <2> SUFFICES ASSUME RowsInv, [Next]_vars PROVE RowsInv'
    OBVIOUS
  <2>1. TypeInv' /\ (scripts' # "torn" => scripts # "torn")
    BY TypeNext, ScriptsStep DEF RowsInv, TypeInv, TypeOK
  <2>2. CASE Next
    <3>1. origin' = origin
      BY <2>2 DEF Next, Step, Begin, BeginPostgres, Lock, Migrate, ScriptStart, ScriptLine, Record,
                  Finish, CountUsers, InsertUser, Crash, Restart, Fail, Serving, vars
    <3> QED  BY <2>1, <2>2, <3>1, StepKeepsRows DEF RowsInv
  <2>3. CASE UNCHANGED vars
    BY <2>1, <2>3 DEF vars, RowsInv, RowsEverywhere, RowsStage, RowsIn, OnlyCopy, ScriptRows, Alone
  <2> QED  BY <2>2, <2>3
<1> QED  BY <1>1, <1>2, PTL DEF Spec

\* The participants' sessions survive every upgrade, wherever it is killed and
\* however often it is started again, in the table or in the copy that replaces
\* it; unless it is killed between the DROP and the RENAME of migration 7 or
\* another start goes on beside a SQLite script (init_db, migrations 5 and 7).
THEOREM SessionsKept == Spec => []RowsKept
<1>1. RowsInv => RowsKept
  <2> SUFFICES ASSUME RowsInv, scripts # "torn", origin.sessions.rows \in Present
               PROVE  db.sessions.rows \in Present \/ db.copy.rows \in Present
    BY DEF RowsKept, Present
  <2>1. CASE RowsIn(db)
    BY <2>1 DEF RowsIn, OnlyCopy
  <2>2. CASE \E p \in Starters : pc[p] = "script"
    <3>1. PICK p \in Starters : pc[p] = "script"
      BY <2>2
    <3>2. /\ ScriptRows(version[p] + 1, line[p], db) /\ version[p] + 1 \in Scripts
          /\ line[p] \in 1..ScriptLength(version[p] + 1)
      BY <3>1 DEF RowsInv, TypeInv, Control, ControlOf, RowsEverywhere, RowsStage
    <3>3. line[p] = ScriptLength(version[p] + 1) => line[p] >= ScriptLength(version[p] + 1) - 1
      BY <3>2, ScriptLengthType
    <3> QED  BY <3>2, <3>3 DEF ScriptRows
  <2> QED  BY <2>1, <2>2 DEF RowsInv, RowsEverywhere
<1> QED  BY RowsInvariant, <1>1, PTL
=============================================================================
