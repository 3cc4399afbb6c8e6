------------------------- MODULE BackupRestoreProofs -------------------------
(***************************************************************************)
(* Proofs about RunSetup with backups and restores, for any forms, files,  *)
(* numbers of researchers, rows and archives.  Three invariants carry      *)
(* them.  RowsInv gives every stored, read and archived row its type, and  *)
(* holds for ever.  ServiceInv holds until a restore: banks are only       *)
(* added and a run keeps its design, so what a run was promised stays      *)
(* true, a session has none or all of the trials of its run, and a backup, *)
(* which reads the sessions before the trials, copies no session under way *)
(* without them.  LinkInv is about the slugs behind the invite links.      *)
(***************************************************************************)
EXTENDS BackupRestore, FiniteSetTheorems, SequenceTheorems, WellFoundedInduction, TLAPS

-----------------------------------------------------------------------------
(* The rows that are stored, read and archived.                            *)

\* A table is a function of positions 1, 2, ...
Table(t) == Len(t) \in Nat /\ t = [i \in 1..Len(t) |-> t[i]]

\* The bases of slugs: what the forms give, and that of no request.
Bases == {form.base : form \in Forms} \cup {NoSlug}

\* What BanksUsable asks of one bank.
Usable(bank) ==
    LET items == bank.items
    IN /\ \A i, j \in DOMAIN items : items[i].id = items[j].id => i = j
       /\ \A i \in DOMAIN items :
             /\ ItemValid(items[i])
             /\ items[i].family = bank.family
             /\ items[i].options \/ items[i].family \in BuiltinFamilies
             /\ items[i].correct <=> items[i].prediction = items[i].label

\* A bank has finitely many items; one that a run may use can be used.
IsBank(bank) ==
    /\ bank.status \in RunCompatible \cup {"invalid"}
    /\ IsFiniteSet(DOMAIN bank.items)
    /\ bank.status \in RunCompatible => Usable(bank)

\* The row of a run.
IsRun(run) ==
    /\ run = [base |-> run.base, slug |-> run.slug, status |-> run.status,
              experiment |-> run.experiment, family |-> run.family, sets |-> run.sets,
              practice |-> run.practice, multi |-> run.multi, nBlocks |-> run.nBlocks,
              promised |-> run.promised]
    /\ run.base \in Bases /\ run.slug \in Slugs
    /\ run.status \in {"draft", "active", "closed"}
    /\ run.sets \in Seq(Nat) /\ run.practice \in {NoBank} \cup 1..MaxBanks

\* The row of a session.
IsSession(session) ==
    /\ session = [run |-> session.run, status |-> session.status, expected |-> session.expected]
    /\ session.run \in 1..MaxRuns /\ session.expected \in Nat
    /\ session.status \in {"created", "in_progress"}

\* The row of a trial.
IsTrial(t) ==
    /\ t = [session |-> t.session, slot |-> t.slot, item |-> t.item, block |-> t.block,
            sources |-> t.sources]
    /\ t.session \in 1..MaxSessions

\* The tables, in the service or in a copy: of banks,
BanksOK(t) == Table(t) /\ Len(t) <= MaxBanks /\ \A b \in 1..Len(t) : IsBank(t[b])
\* of runs,
RunsOK(t) == Table(t) /\ Len(t) <= MaxRuns /\ \A r \in 1..Len(t) : IsRun(t[r])
\* of sessions,
SessionsOK(t) == Table(t) /\ Len(t) <= MaxSessions /\ \A s \in 1..Len(t) : IsSession(t[s])
\* and of trials, which is a set.
TrialsOK(t) == \A x \in t : IsTrial(x)

\* A handler has read a run, and one that repairs a row knows which.
HandlersOK ==
    /\ pc \in [Researchers -> {"idle", "insert", "probe", "update"}]
    /\ frame = [h \in Researchers |-> frame[h]]
    /\ \A h \in Researchers :
           /\ frame[h] = [run |-> frame[h].run, row |-> frame[h].row]
           /\ IsRun(frame[h].row)
           /\ pc[h] \in {"probe", "update"} => frame[h].run \in DOMAIN runs

\* A kept archive has the four tables.
ArchiveOK(archive) ==
    /\ BanksOK(archive["banks"]) /\ RunsOK(archive["runs"])
    /\ SessionsOK(archive["sessions"]) /\ TrialsOK(archive["trials"])

\* The tables read so far are typed, and so are the archives.
BackupsOK ==
    /\ Table(reading) /\ Len(reading) <= 4
    /\ Len(reading) >= 1 => BanksOK(reading[1])
    /\ Len(reading) >= 2 => RunsOK(reading[2])
    /\ Len(reading) >= 3 => SessionsOK(reading[3])
    /\ Len(reading) >= 4 => TrialsOK(reading[4])
    /\ Len(reading) # 0 => taken < MaxBackups
    /\ Table(archives) /\ Len(archives) <= Retained
    /\ \A a \in 1..Len(archives) : ArchiveOK(archives[a])
    /\ taken \in 0..MaxBackups /\ restored \in BOOLEAN

\* The invariant of the rows, which a restore keeps, too.
RowsInv ==
    /\ BanksOK(banks) /\ RunsOK(runs) /\ SessionsOK(sessions) /\ TrialsOK(trials)
    /\ invites \subseteq Slugs \X (1..MaxRuns)
    /\ HandlersOK /\ BackupsOK

-----------------------------------------------------------------------------
(* What holds of the rows until the first restore.                         *)

\* The banks of a run are stored, they are of its family if it has one, and a
\* run that was promised or activated is launchable.
RunSound(run) ==
    /\ SelectedBanks(run) \subseteq DOMAIN banks
    /\ Given(run.family) =>
           \A b \in SelectedBanks(run) :
               banks[b].family = run.family /\ banks[b].status \in RunCompatible
    /\ run.promised \/ run.status # "draft" => Launchable(run)

\* So is the row that a handler is about to insert.
RunsSound ==
    /\ \A r \in DOMAIN runs : RunSound(runs[r])
    /\ \A h \in Researchers : pc[h] = "insert" => RunSound(frame[h].row)

\* A session has no trials, or those that its run had from the beginning.
SessionSound(s) ==
    LET run == runs[sessions[s].run]
    IN /\ sessions[s].run \in DOMAIN runs /\ run.status # "draft"
       /\ sessions[s].expected = ExpectedTrials(run)
       /\ TrialsOf(s) = IF sessions[s].status = "created" THEN {} ELSE Snapshot(s, run)

\* No trial is without a session.
SessionsSound ==
    /\ \A s \in DOMAIN sessions : SessionSound(s)
    /\ \A t \in trials : t.session \in DOMAIN sessions

\* The sessions of a copied table that are under way are so in the service.
UnderWay(copy) ==
    \A s \in DOMAIN copy : copy[s].status = "in_progress" =>
        s \in DOMAIN sessions /\ sessions[s].status = "in_progress"

\* Copied trials are all that the copied sessions under way have.
Whole(copy, rows) ==
    \A s \in DOMAIN copy : copy[s].status = "in_progress" =>
        {t \in rows : t.session = s} = {[t EXCEPT !.sources = {}] : t \in TrialsOf(s)}

\* The copies of a running backup, and the archives.
BackupsWhole ==
    /\ Len(reading) >= 3 => UnderWay(reading[3])
    /\ Len(reading) >= 4 => Whole(reading[3], reading[4])
    /\ \A a \in DOMAIN archives : /\ UnderWay(archives[a]["sessions"])
                                  /\ Whole(archives[a]["sessions"], archives[a]["trials"])

\* The inductive invariant of the service before a restore.
ServiceInv == ~restored => RunsSound /\ SessionsSound /\ BackupsWhole
-----------------------------------------------------------------------------
(* Tables.                                                                 *)

\* A function on an initial segment of the numbers is a table.
LEMMA TableOf ==
    ASSUME NEW n \in Nat, NEW t, t = [i \in 1..n |-> t[i]]
    PROVE  Table(t) /\ Len(t) = n /\ DOMAIN t = 1..n /\ t \in Seq({t[i] : i \in 1..n})
<1> DEFINE S == {t[i] : i \in 1..n}
<1>1. t \in [1..n -> S]
  OBVIOUS
<1> HIDE DEF S
<1>2. t \in Seq(S)
  BY <1>1
<1>3. DOMAIN t = 1..n
  BY <1>1
<1>4. Len(t) \in Nat /\ DOMAIN t = 1..Len(t)
  BY <1>2
<1>5. Len(t) = n
  BY <1>3, <1>4
<1> QED  BY <1>2, <1>3, <1>5 DEF Table, S

\* A table is a sequence.
LEMMA TableSeq ==
    ASSUME NEW t, Table(t)
    PROVE  /\ DOMAIN t = 1..Len(t) /\ Len(t) \in Nat
           /\ t \in Seq({t[i] : i \in 1..Len(t)})
BY TableOf DEF Table

\* A row is added at the end.
LEMMA TableAppend ==
    ASSUME NEW t, Table(t), NEW x
    PROVE  /\ Table(Append(t, x)) /\ Len(Append(t, x)) = Len(t) + 1
           /\ DOMAIN t = 1..Len(t) /\ DOMAIN Append(t, x) = 1..(Len(t) + 1)
           /\ DOMAIN Append(t, x) = DOMAIN t \cup {Len(t) + 1}
           /\ Len(t) + 1 \notin DOMAIN t
           /\ \A i \in DOMAIN t : Append(t, x)[i] = t[i]
           /\ Append(t, x)[Len(t) + 1] = x
<1> DEFINE S == {t[i] : i \in 1..Len(t)}  T == S \cup {x}  u == Append(t, x)
<1>1. t \in Seq(T) /\ x \in T /\ Len(t) \in Nat /\ DOMAIN t = 1..Len(t)
  <2>1. t \in Seq(S) /\ Len(t) \in Nat /\ DOMAIN t = 1..Len(t)
    BY TableSeq
  <2> HIDE DEF S
  <2> QED  BY <2>1
<1> HIDE DEF T
<1>2. u \in Seq(T) /\ Len(u) = Len(t) + 1 /\ DOMAIN u = 1..(Len(t) + 1)
  BY <1>1
<1>3. \A i \in 1..Len(t) : u[i] = t[i]
  BY <1>1
<1>4. u[Len(t) + 1] = x
  BY <1>1
<1> HIDE DEF u
<1>5. u = [i \in 1..(Len(t) + 1) |-> u[i]]
  BY <1>1, <1>2
<1>6. Table(u)
  BY <1>1, <1>2, <1>5 DEF Table
<1> QED  BY <1>1, <1>2, <1>3, <1>4, <1>6 DEF u

\* The rows of a table from the m-th on.
Rest(u, t, m) ==
    /\ Table(u) /\ Len(u) = Len(t) - m + 1
    /\ \A i \in 1..Len(u) : m + i - 1 \in DOMAIN t /\ u[i] = t[m + i - 1]

\* The oldest rows are dropped.
LEMMA TableRest ==
    ASSUME NEW t, Table(t), NEW m \in 1..Len(t)
    PROVE  Rest(SubSeq(t, m, Len(t)), t, m)
<1> DEFINE S == {t[i] : i \in 1..Len(t)}
           u == SubSeq(t, m, Len(t))
<1>1. t \in Seq(S) /\ Len(t) \in Nat /\ DOMAIN t = 1..Len(t)
  BY TableSeq
<1>2. \A i \in m..Len(t) : t[i] \in S
  BY <1>1
<1> HIDE DEF S
<1>3. /\ u \in Seq(S) /\ Len(u) = Len(t) - m + 1
      /\ \A i \in 1..Len(t) - m + 1 : u[i] = t[m + i - 1]
  BY <1>1, <1>2, SubSeqProperties
<1> HIDE DEF u
<1>4. u = [i \in 1..Len(u) |-> u[i]] /\ Len(u) \in Nat
  BY <1>3
<1>5. \A i \in 1..Len(u) : m + i - 1 \in DOMAIN t
  BY <1>1, <1>3
<1> QED  BY <1>3, <1>4, <1>5 DEF Table, Rest, u

\* A table without rows.
LEMMA NoRows == Table(<<>>) /\ Len(<<>>) = 0 /\ DOMAIN <<>> = {}
BY DEF Table

\* A table with one row.
LEMMA OneRow ==
    ASSUME NEW x PROVE Table(<<x>>) /\ Len(<<x>>) = 1 /\ DOMAIN <<x>> = {1} /\ <<x>>[1] = x
BY DEF Table
-----------------------------------------------------------------------------
(* The choice of a slug.                                                   *)

\* A bounded non-empty set of numbers has a least element: the intervals up
\* to its elements are ordered by strict inclusion, which is well founded.
LEMMA LeastOf ==
    ASSUME NEW n \in Nat, NEW S \in SUBSET (0..n), S # {}
    PROVE  \E x \in S : \A y \in S : x <= y
<1> DEFINE T == {0..x : x \in S}
           R == StrictSubsetOrdering(Nat)
<1>1. T \subseteq FiniteSubsetsOf(Nat) /\ T # {}
  <2>1. ASSUME NEW x \in S PROVE 0..x \in FiniteSubsetsOf(Nat)
    <3>1. x \in Int /\ 0..x \subseteq Nat
      OBVIOUS
    <3>2. IsFiniteSet(0..x)
      BY <3>1, FS_Interval
    <3> QED  BY <3>1, <3>2 DEF FiniteSubsetsOf
  <2> QED  BY <2>1
<1>2. IsWellFoundedOn(R, FiniteSubsetsOf(Nat))
  BY FS_StrictSubsetOrderingWellFounded
<1>3. PICK t \in T : \A u \in T : <<u, t>> \notin R
  <2> HIDE DEF R, T
  <2> QED  BY <1>1, <1>2, WFMin
<1>4. PICK x \in S : t = 0..x
  BY <1>3
<1>5. ASSUME NEW y \in S, y < x PROVE FALSE
  <2>1. (0..y) \subseteq (0..x) /\ x \in (0..x) /\ x \notin (0..y)
    BY <1>5
  <2>2. 0..y \in SUBSET Nat /\ 0..x \in SUBSET Nat /\ 0..y \in T
    OBVIOUS
  <2> QED  BY <1>3, <1>4, <2>1, <2>2 DEF StrictSubsetOrdering
<1> QED  BY <1>5

\* And a greatest one.
LEMMA GreatestOf ==
    ASSUME NEW n \in Nat, NEW S \in SUBSET (1..n), S # {}
    PROVE  \E x \in S : \A y \in S : y <= x
<1> DEFINE T == {n - x : x \in S}
<1>1. T \in SUBSET (0..n) /\ T # {}
  <2>1. ASSUME NEW x \in S PROVE n - x \in 0..n
    <3>1. x \in 1..n
      OBVIOUS
    <3> QED  BY <3>1
  <2>2. PICK x \in S : TRUE
    OBVIOUS
  <2>3. n - x \in T
    OBVIOUS
  <2> QED  BY <2>1, <2>3
<1>2. PICK t \in T : \A u \in T : t <= u
  <2> HIDE DEF T
  <2> QED  BY <1>1, LeastOf
<1>3. PICK x \in S : t = n - x
  BY <1>2
<1>4. ASSUME NEW y \in S PROVE y <= x
  <2>1. x \in 1..n /\ y \in 1..n
    OBVIOUS
  <2>2. n - x <= n - y
    BY <1>2, <1>3
  <2> QED  BY <2>1, <2>2
<1> QED  BY <1>4

\* Two numbers give two slugs.
LEMMA SlugInjective ==
    ASSUME NEW base \in Seq(Nat), NEW m \in Nat, NEW n \in Nat, Slug(base, m) = Slug(base, n)
    PROVE  m = n
<1>1. ASSUME NEW k \in Nat
      PROVE  Len(Append(base, k)) = Len(base) + 1 /\ Append(base, k)[Len(base) + 1] = k
  OBVIOUS
<1>2. Len(base) \in Nat
  OBVIOUS
<1>3. CASE m # 1 /\ n # 1
  BY <1>1, <1>3 DEF Slug
<1>4. CASE m = 1 /\ n # 1
  BY <1>1, <1>2, <1>4 DEF Slug
<1>5. CASE m # 1 /\ n = 1
  BY <1>1, <1>2, <1>5 DEF Slug
<1> QED  BY <1>3, <1>4, <1>5

\* There are more numbers than runs, so _build_unique_public_slug finds a
\* slug, among those that TypeOK allows.
LEMMA FreeSlugFound ==
    ASSUME RunsOK(runs), NEW base \in Seq(Nat)
    PROVE  \E n \in 1..MaxRuns + 1 : FreeSlug(base) = Slug(base, n)
<1> DEFINE k == Len(runs)
           free == {n \in 1..k + 1 : ~SlugTaken(Slug(base, n))}
           least(n) == /\ ~SlugTaken(Slug(base, n))
                       /\ \A m \in 1..n - 1 : SlugTaken(Slug(base, m))
<1>1. k \in Nat /\ DOMAIN runs = 1..k /\ k <= MaxRuns /\ MaxRuns \in Nat
  BY TableSeq, BoundAssumption DEF RunsOK
<1> HIDE DEF k
<1>2. free # {}
  <2> SUFFICES ASSUME \A n \in 1..k + 1 : SlugTaken(Slug(base, n)) PROVE FALSE
    OBVIOUS
  <2> DEFINE f == [n \in 1..k + 1 |-> CHOOSE r \in 1..k : runs[r].slug = Slug(base, n)]
  <2>1. \A n \in 1..k + 1 : f[n] \in 1..k /\ runs[f[n]].slug = Slug(base, n)
    BY <1>1 DEF SlugTaken
  <2>2. f \in [1..k + 1 -> 1..k]
    BY <2>1
  <2> HIDE DEF f
  <2>3. IsFiniteSet(1..k) /\ IsFiniteSet(1..k + 1)
    BY <1>1, FS_Interval
  <2>4. Cardinality(1..k) = k
    BY <1>1, FS_Interval
  <2>5. Cardinality(1..k + 1) = k + 1
    BY <1>1, FS_Interval
  <2>6. Cardinality(1..k) < Cardinality(1..k + 1)
    BY <1>1, <2>4, <2>5
  <2>7. PICK x, y \in 1..k + 1 : x # y /\ f[x] = f[y]
    BY <2>2, <2>3, <2>6, FS_PigeonHole
  <2>8. Slug(base, x) = Slug(base, y)
    BY <2>1, <2>7
  <2> QED  BY <1>1, <2>7, <2>8, SlugInjective
<1>3. PICK n \in free : \A m \in free : n <= m
  <2>1. free \in SUBSET (0..k + 1)
    BY <1>1
  <2>2. k + 1 \in Nat
    BY <1>1
  <2> HIDE DEF free
  <2> QED  BY <1>2, <2>1, <2>2, LeastOf
<1>4. n \in 1..k + 1 /\ least(n)
  BY <1>1, <1>3
<1> DEFINE chosen == CHOOSE m \in 1..k + 1 : least(m)
<1>5. chosen \in 1..k + 1
  <2> HIDE DEF least
  <2> QED  BY <1>4
<1>6. FreeSlug(base) = Slug(base, chosen)
  BY DEF FreeSlug, k
<1>7. chosen \in 1..MaxRuns + 1
  <2> HIDE DEF chosen
  <2> QED  BY <1>1, <1>5
<1> HIDE DEF chosen
<1> QED  BY <1>6, <1>7

\* A handler's slug is one of them.
LEMMA FreeSlugTyped ==
    ASSUME RunsOK(runs), NEW form \in Forms PROVE FreeSlug(form.base) \in Slugs
<1>1. form.base \in Seq(Nat)
  BY FormAssumption
<1>2. PICK n \in 1..MaxRuns + 1 : FreeSlug(form.base) = Slug(form.base, n)
  BY <1>1, FreeSlugFound
<1>3. Slug(form.base, n) \in {Slug(form.base, m) : m \in 1..MaxRuns + 1}
  OBVIOUS
<1>4. {Slug(form.base, m) : m \in 1..MaxRuns + 1} \subseteq Slugs
  BY DEF Slugs
<1> QED  BY <1>2, <1>3, <1>4
-----------------------------------------------------------------------------
(* What is uploaded is usable.                                             *)

\* The checks of a row that are behind each field of the stored item.
LEMMA GoodRow ==
    ASSUME NEW row \in Lines, row # Blank, row # Unreadable, RowErrors(row) = {}
    PROVE  LET item == Canonical(row) IN
           /\ ItemValid(item) /\ item.id = row.id /\ item.family = row.family
           /\ item.options \/ item.family \in BuiltinFamilies
           /\ item.correct <=> item.prediction = item.label
<1> DEFINE item == Canonical(row)
<1>1. /\ row.correct \in {"true", "false", "", "other"}
      /\ row.payload.options \in {"absent", "malformed", "empty", "given"}
  BY DEF Lines
<1>2. /\ item.id = row.id /\ item.family = row.family /\ item.label = row.label
      /\ item.prediction = row.prediction /\ item.correct = ModelCorrect(row)
      /\ item.content = row.content /\ item.difficulty = row.difficulty
      /\ item.confidence = row.confidence
      /\ item.options = (row.payload.options = "given")
  BY DEF Canonical
<1> HIDE DEF item
<1>3. /\ PayloadErrors(row.payload) = {} /\ OptionErrors(row) = {} /\ LabelErrors(row) = {}
      /\ "" \notin {row.id, row.label, row.prediction}
      /\ row.content \in ContentTypes /\ row.difficulty \in Levels /\ row.confidence \in Levels
  BY DEF RowErrors, When
<1>4. row.payload.object
  BY <1>3 DEF PayloadErrors
<1>5. row.family \in DOMAIN Labels
  BY <1>3 DEF LabelErrors
<1>6. row.family # ""
  BY <1>5, RegistryAssumption
<1>7. ItemValid(item)
  BY <1>2, <1>3, <1>6 DEF ItemValid, Given
<1>8. item.options \/ item.family \in BuiltinFamilies
  BY <1>1, <1>2, <1>3, <1>4, <1>5 DEF OptionErrors, When
<1>9. BothLabels(row)
  BY <1>3 DEF BothLabels, Given
<1>10. ModelCorrect(row) = (row.prediction = row.label)
  BY <1>3, <1>9 DEF LabelErrors, When
<1> QED  BY <1>2, <1>7, <1>8, <1>10 DEF item

\* What upload_stimulus_set stores can be shown and answered.
LEMMA UploadedBank ==
    ASSUME NEW file \in Files, Readable(file), Verdict(Rows(file)) \in RunCompatible
    PROVE  IsBank(Bank(Rows(file)))
<1> DEFINE rows == Rows(file)  bank == Bank(rows)
<1>1. file \in Seq(Lines) /\ Len(file) \in Nat /\ DOMAIN file = 1..Len(file)
  BY FileAssumption
<1>2. DOMAIN rows \subseteq 1..Len(file)
  BY <1>1 DEF Rows
<1>3. ASSUME NEW i \in DOMAIN rows PROVE rows[i] \in Lines /\ rows[i] # Blank /\ rows[i] # Unreadable
  <2>1. i \in DOMAIN file /\ rows[i] = file[i] /\ file[i] # Blank /\ file[i] # Unreadable
    BY DEF Rows, Readable
  <2> QED  BY <1>1, <2>1
<1> HIDE DEF rows
<1>4. FileErrors(rows) = {}
  BY DEF Verdict, RunCompatible, rows
<1>5. \A i \in DOMAIN rows : RowErrors(rows[i]) = {}
  BY <1>4 DEF FileErrors
<1>6. /\ \A i \in DOMAIN rows : ~Repeated(rows, i)
      /\ ~(Cardinality(Families(rows)) > 1)
  <2> DEFINE again == \E i \in DOMAIN rows : RowErrors(rows[i]) = {} /\ Repeated(rows, i)
             mixed == Cardinality(Families(rows)) > 1
             first == UNION {RowErrors(rows[i]) : i \in DOMAIN rows}
  <2>1. When(again, "duplicate_stimulus_id") = {} /\ When(mixed, "mixed_task_family") = {}
    <3>1. FileErrors(rows) = first \cup When(again, "duplicate_stimulus_id")
                                   \cup When(mixed, "mixed_task_family")
      BY DEF FileErrors
    <3> HIDE DEF first, again, mixed
    <3> QED  BY <1>4, <3>1
  <2>2. ~again /\ ~mixed
    <3> HIDE DEF again, mixed
    <3> QED  BY <2>1 DEF When
  <2> QED  BY <1>5, <2>2
<1>7. Accepted(rows) = DOMAIN rows
  BY <1>5, <1>6 DEF Accepted
<1>8. ASSUME NEW i \in DOMAIN rows, NEW j \in DOMAIN rows PROVE rows[i].family = rows[j].family
  <2> DEFINE F == Families(rows)
  <2>1. IsFiniteSet(F)
    <3>1. IsFiniteSet(1..Len(file))
      BY <1>1, FS_Interval
    <3>2. IsFiniteSet(DOMAIN rows)
      BY <1>2, <3>1, FS_Subset
    <3> DEFINE f == [k \in DOMAIN rows |-> rows[k].family]
    <3>3. f \in Surjection(DOMAIN rows, F)
      BY <1>7 DEF Families, Surjection
    <3> QED  BY <3>2, <3>3, FS_Surjection
  <2>2. rows[i].family \in F /\ rows[j].family \in F
    BY <1>7 DEF Families
  <2>3. Cardinality(F) \in Nat /\ ~(Cardinality(F) > 1)
    BY <1>6, <2>1, FS_CardinalityType
  <2> HIDE DEF F
  <2>4. {rows[i].family, rows[j].family} \subseteq F
    BY <2>2
  <2>5. Cardinality({rows[i].family, rows[j].family}) <= Cardinality(F)
    BY <2>1, <2>4, FS_Subset
  <2>6. SUFFICES ASSUME rows[i].family # rows[j].family PROVE FALSE
    OBVIOUS
  <2>7. /\ IsFiniteSet({rows[i].family}) /\ Cardinality({rows[i].family}) = 1
        /\ {rows[i].family, rows[j].family} = {rows[i].family} \cup {rows[j].family}
    BY FS_Singleton
  <2>8. Cardinality({rows[i].family, rows[j].family}) = 2
    <3> DEFINE A == {rows[i].family}  y == rows[j].family
    <3>1. IsFiniteSet(A) /\ Cardinality(A) = 1 /\ y \notin A
      BY <2>6, <2>7
    <3> HIDE DEF A, y
    <3>2. Cardinality(A \cup {y}) = Cardinality(A) + 1
      BY <3>1, FS_AddElement
    <3>3. Cardinality(A \cup {y}) = 2
      BY <3>1, <3>2
    <3> QED  BY <2>7, <3>3 DEF A, y
  <2> QED  BY <2>3, <2>5, <2>8
<1>9. /\ bank.status = Verdict(rows) /\ DOMAIN bank.items = DOMAIN rows
      /\ \A i \in DOMAIN rows : bank.items[i] = Canonical(rows[i])
  BY <1>7 DEF Bank
<1>10. \A i \in DOMAIN rows : bank.family = rows[i].family
  <2> SUFFICES ASSUME NEW i \in DOMAIN rows PROVE bank.family = rows[i].family
    OBVIOUS
  <2>1. rows[i].family \in Families(rows)
    BY <1>7 DEF Families
  <2>2. bank.family \in Families(rows)
    BY <2>1 DEF Bank
  <2> QED  BY <1>7, <1>8, <2>2 DEF Families
<1> HIDE DEF bank
<1>11. IsFiniteSet(DOMAIN bank.items)
  <2>1. IsFiniteSet(1..Len(file))
    BY <1>1, FS_Interval
  <2> QED  BY <1>2, <1>9, <2>1, FS_Subset
<1>12. ASSUME NEW i \in DOMAIN rows, NEW j \in DOMAIN rows, bank.items[i].id = bank.items[j].id
       PROVE  i = j
  <2>1. rows[i].id = rows[j].id
    BY <1>3, <1>5, <1>9, <1>12, GoodRow
  <2>2. ~(i < j) /\ ~(j < i)
    BY <1>5, <1>6, <2>1 DEF Repeated
  <2> QED  BY <1>1, <1>2, <2>2
<1>13. ASSUME NEW i \in DOMAIN rows
       PROVE  /\ ItemValid(bank.items[i])
              /\ bank.items[i].family = bank.family
              /\ bank.items[i].options \/ bank.items[i].family \in BuiltinFamilies
              /\ bank.items[i].correct <=> bank.items[i].prediction = bank.items[i].label
  BY <1>3, <1>5, <1>9, <1>10, GoodRow
<1>14. Usable(bank)
  BY <1>9, <1>12, <1>13 DEF Usable
<1> QED  BY <1>9, <1>11, <1>14 DEF IsBank, bank, rows
-----------------------------------------------------------------------------
(* The rows keep their types.                                              *)

\* The list of a run's practice bank.
LEMMA PracticeList ==
    ASSUME NEW run
    PROVE  ToSet(PracticeSets(run)) = IF run.practice = NoBank THEN {} ELSE {run.practice}
BY DEF PracticeSets, ToSet

\* A row of a database older than migration 3.
LEMMA LegacyTyped ==
    ASSUME NEW base \in Bases PROVE IsRun(LegacyRun(base))
<1>1. <<1>> \in Seq(Nat)
  OBVIOUS
<1>2. NoSlug \in Slugs
  BY DEF Slugs
<1> QED  BY <1>1, <1>2 DEF IsRun, LegacyRun

\* The frame of an idle handler.
LEMMA NoFrameTyped == NoFrame = [run |-> NoFrame.run, row |-> NoFrame.row] /\ IsRun(NoFrame.row)
<1>1. IsRun(LegacyRun(NoSlug))
  BY LegacyTyped DEF Bases
<1> DEFINE row == LegacyRun(NoSlug)
<1> HIDE DEF row
<1>2. NoFrame = [run |-> 0, row |-> row]
  BY DEF NoFrame, row
<1> QED  BY <1>1, <1>2 DEF row

\* The row of a previewed form.
LEMMA CreatedTyped ==
    ASSUME BanksOK(banks), RunsOK(runs), NEW form \in Forms, Previewed(form)
    PROVE  IsRun(Created(form, FreeSlug(form.base)))
<1>1. FreeSlug(form.base) \in Slugs /\ form.base \in Bases
  BY FreeSlugTyped DEF Bases
<1>2. form.sets \in Seq(Nat) /\ form.practice \in Nat
  BY FormAssumption
<1>3. DOMAIN banks = 1..Len(banks) /\ Len(banks) \in Nat /\ Len(banks) <= MaxBanks
  BY TableSeq DEF BanksOK
<1>4. form.practice # NoBank => form.practice \in SelectedBanks(form)
  BY PracticeList DEF SelectedBanks
<1>5. form.practice \in {NoBank} \cup 1..MaxBanks
  <2>1. form.practice # NoBank => form.practice \in DOMAIN banks
    BY <1>4 DEF Previewed
  <2> QED  BY <1>2, <1>3, <2>1, BoundAssumption
<1> DEFINE slug == FreeSlug(form.base)  row == Created(form, slug)
<1> HIDE DEF slug
<1>6. /\ row.base = form.base /\ row.slug = slug /\ row.status = "draft"
      /\ row.sets = form.sets /\ row.practice = form.practice
      /\ row = [base |-> row.base, slug |-> row.slug, status |-> row.status,
              experiment |-> row.experiment, family |-> row.family, sets |-> row.sets,
              practice |-> row.practice, multi |-> row.multi, nBlocks |-> row.nBlocks,
              promised |-> row.promised]
  BY DEF Created
<1> HIDE DEF row
<1>7. IsRun(row)
  BY <1>1, <1>2, <1>5, <1>6 DEF IsRun, slug
<1> QED  BY <1>7 DEF row, slug

\* Another status or slug.
LEMMA RunUpdated ==
    ASSUME NEW run, IsRun(run), NEW slug \in Slugs, NEW status \in {"draft", "active", "closed"}
    PROVE  /\ IsRun([run EXCEPT !.slug = slug]) /\ IsRun([run EXCEPT !.status = status])
           /\ [run EXCEPT !.slug = slug].slug = slug
           /\ [run EXCEPT !.slug = slug].status = run.status
           /\ [run EXCEPT !.status = status].status = status
           /\ \A new \in {[run EXCEPT !.slug = slug], [run EXCEPT !.status = status]} :
                  /\ new.experiment = run.experiment /\ new.family = run.family
                  /\ new.sets = run.sets /\ new.practice = run.practice
                  /\ new.multi = run.multi /\ new.nBlocks = run.nBlocks
                  /\ new.promised = run.promised /\ new.base = run.base
BY DEF IsRun

\* A handler that takes a step.
LEMMA HandlerStep ==
    ASSUME HandlersOK, NEW h \in Researchers, NEW label \in {"idle", "insert", "probe", "update"},
           NEW f, f = [run |-> f.run, row |-> f.row], IsRun(f.row),
           label \in {"probe", "update"} => f.run \in DOMAIN runs,
           pc' = [pc EXCEPT ![h] = label], frame' = [frame EXCEPT ![h] = f],
           DOMAIN runs \subseteq DOMAIN runs'
    PROVE  HandlersOK'
<1>1. pc' \in [Researchers -> {"idle", "insert", "probe", "update"}]
  BY DEF HandlersOK
<1>2. frame' = [g \in Researchers |-> IF g = h THEN f ELSE frame[g]]
  BY DEF HandlersOK
<1>3. \A g \in Researchers : /\ pc'[g] = IF g = h THEN label ELSE pc[g]
                             /\ frame'[g] = IF g = h THEN f ELSE frame[g]
  BY <1>2 DEF HandlersOK
<1>4. frame' = [g \in Researchers |-> frame'[g]]
  BY <1>2
<1>5. ASSUME NEW g \in Researchers
      PROVE  /\ frame'[g] = [run |-> frame'[g].run, row |-> frame'[g].row]
             /\ IsRun(frame'[g].row)
             /\ pc'[g] \in {"probe", "update"} => frame'[g].run \in DOMAIN runs'
  BY <1>3 DEF HandlersOK
<1>6. IsRun(frame[h].row)' <=> IsRun(frame'[h].row)
  BY DEF IsRun
<1>7. \A g \in Researchers : IsRun(frame[g].row)'
  BY <1>5
<1> QED  BY <1>1, <1>4, <1>5, <1>7 DEF HandlersOK

\* Handlers that stay where they are.
LEMMA HandlersStay ==
    ASSUME HandlersOK, UNCHANGED <<pc, frame>>, DOMAIN runs \subseteq DOMAIN runs'
    PROVE  HandlersOK'
BY DEF HandlersOK

\* The types of what the service stores.
ServiceRows ==
    /\ BanksOK(banks) /\ RunsOK(runs) /\ SessionsOK(sessions) /\ TrialsOK(trials)
    /\ invites \subseteq Slugs \X (1..MaxRuns)
    /\ HandlersOK
-----------------------------------------------------------------------------
(* The items of a list of banks.                                           *)

\* There are finitely many.
LEMMA SlotsFinite ==
    ASSUME BanksOK(banks), NEW sets \in Seq(Nat)
    PROVE  IsFiniteSet(Slots(sets))
<1> DEFINE known == {j \in DOMAIN sets : sets[j] \in DOMAIN banks}
           S == {{k} \X DOMAIN banks[sets[k]].items : k \in known}
<1>1. DOMAIN sets = 1..Len(sets) /\ Len(sets) \in Nat
  OBVIOUS
<1>2. IsFiniteSet(1..Len(sets))
  BY <1>1, FS_Interval
<1>3. IsFiniteSet(known)
  BY <1>1, <1>2, FS_Subset
<1>4. IsFiniteSet(S)
  <2> DEFINE f == [k \in known |-> {k} \X DOMAIN banks[sets[k]].items]
  <2> HIDE DEF known
  <2>1. f \in Surjection(known, S)
    BY DEF Surjection
  <2> QED  BY <1>3, <2>1, FS_Surjection
<1>5. ASSUME NEW k \in known PROVE IsFiniteSet({k} \X DOMAIN banks[sets[k]].items)
  <2>1. IsFiniteSet(DOMAIN banks[sets[k]].items)
    BY TableSeq DEF BanksOK, IsBank
  <2>2. IsFiniteSet({k})
    BY FS_Singleton
  <2> QED  BY <2>1, <2>2, FS_Product
<1>6. \A T \in S : IsFiniteSet(T)
  BY <1>5
<1> HIDE DEF S
<1>7. IsFiniteSet(UNION S)
  BY <1>4, <1>6, FS_UNION
<1> QED  BY <1>7 DEF Slots, S

\* The two lists of a run.
LEMMA RunLists ==
    ASSUME NEW run, IsRun(run)
    PROVE  run.sets \in Seq(Nat) /\ PracticeSets(run) \in Seq(Nat)
<1>1. run.sets \in Seq(Nat) /\ run.practice \in Nat
  BY BoundAssumption DEF IsRun, NoBank
<1>2. <<>> \in Seq(Nat) /\ <<run.practice>> \in Seq(Nat)
  BY <1>1
<1> QED  BY <1>1, <1>2 DEF PracticeSets

\* expected_trial_count is a number.
LEMMA ExpectedNat ==
    ASSUME BanksOK(banks), NEW run, IsRun(run)
    PROVE  ExpectedTrials(run) \in Nat
<1>1. IsFiniteSet(Slots(run.sets)) /\ IsFiniteSet(Slots(PracticeSets(run)))
  BY RunLists, SlotsFinite
<1>2. Cardinality(Slots(run.sets)) \in Nat /\ Cardinality(Slots(PracticeSets(run))) \in Nat
  BY <1>1, FS_CardinalityType
<1> QED  BY <1>2 DEF ExpectedTrials, MainCount
\* A new row of researcher_runs.
LEMMA RunAppended ==
    ASSUME RunsOK(runs), Len(runs) < MaxRuns, NEW row, IsRun(row), runs' = Append(runs, row)
    PROVE  /\ RunsOK(runs') /\ DOMAIN runs' = DOMAIN runs \cup {Len(runs) + 1}
           /\ Len(runs) + 1 \notin DOMAIN runs /\ Len(runs) + 1 \in 1..MaxRuns
           /\ \A r \in DOMAIN runs : runs'[r] = runs[r]
           /\ runs'[Len(runs) + 1] = row
<1>1. Table(runs) /\ DOMAIN runs = 1..Len(runs) /\ Len(runs) \in Nat /\ MaxRuns \in Nat
  BY TableSeq, BoundAssumption DEF RunsOK
<1>2. /\ Table(runs') /\ Len(runs') = Len(runs) + 1
      /\ DOMAIN runs' = DOMAIN runs \cup {Len(runs) + 1}
      /\ Len(runs) + 1 \notin DOMAIN runs
      /\ \A r \in DOMAIN runs : runs'[r] = runs[r]
      /\ runs'[Len(runs) + 1] = row
  BY <1>1, TableAppend
<1>3. DOMAIN runs' = 1..Len(runs')
  BY <1>2, TableSeq
<1>4. \A r \in 1..Len(runs') : IsRun(runs'[r])
  BY <1>1, <1>2, <1>3 DEF RunsOK
<1>5. Len(runs') <= MaxRuns /\ Len(runs) + 1 \in 1..MaxRuns
  BY <1>1, <1>2
<1> QED  BY <1>2, <1>4, <1>5 DEF RunsOK

\* A run that is updated.
LEMMA RunReplaced ==
    ASSUME RunsOK(runs), NEW r \in DOMAIN runs, NEW row, IsRun(row),
           runs' = [runs EXCEPT ![r] = row]
    PROVE  /\ RunsOK(runs') /\ DOMAIN runs' = DOMAIN runs
           /\ \A q \in DOMAIN runs : runs'[q] = IF q = r THEN row ELSE runs[q]
<1>1. Table(runs) /\ DOMAIN runs = 1..Len(runs) /\ Len(runs) \in Nat
  BY TableSeq DEF RunsOK
<1>2. /\ DOMAIN runs' = DOMAIN runs /\ runs' = [q \in 1..Len(runs) |-> runs'[q]]
      /\ \A q \in DOMAIN runs : runs'[q] = IF q = r THEN row ELSE runs[q]
  BY <1>1
<1>3. Table(runs') /\ Len(runs') = Len(runs)
  BY <1>1, <1>2, TableOf
<1> QED  BY <1>1, <1>2, <1>3 DEF RunsOK

\* A new bank.
LEMMA BankAppended ==
    ASSUME BanksOK(banks), Len(banks) < MaxBanks, NEW bank, IsBank(bank),
           banks' = Append(banks, bank)
    PROVE  BanksOK(banks') /\ DOMAIN banks \subseteq DOMAIN banks'
           /\ \A b \in DOMAIN banks : banks'[b] = banks[b]
<1>1. Table(banks) /\ DOMAIN banks = 1..Len(banks) /\ Len(banks) \in Nat /\ MaxBanks \in Nat
  BY TableSeq, BoundAssumption DEF BanksOK
<1>2. /\ Table(banks') /\ Len(banks') = Len(banks) + 1
      /\ DOMAIN banks' = DOMAIN banks \cup {Len(banks) + 1}
      /\ \A b \in DOMAIN banks : banks'[b] = banks[b]
      /\ banks'[Len(banks) + 1] = bank
  BY <1>1, TableAppend
<1>3. DOMAIN banks' = 1..Len(banks')
  BY <1>2, TableSeq
<1>4. \A b \in 1..Len(banks') : IsBank(banks'[b])
  BY <1>1, <1>2, <1>3 DEF BanksOK
<1> QED  BY <1>1, <1>2, <1>4 DEF BanksOK

\* A new session.
LEMMA SessionAppended ==
    ASSUME SessionsOK(sessions), Len(sessions) < MaxSessions, NEW row, IsSession(row),
           sessions' = Append(sessions, row)
    PROVE  /\ SessionsOK(sessions') /\ DOMAIN sessions' = DOMAIN sessions \cup {Len(sessions) + 1}
           /\ Len(sessions) + 1 \notin DOMAIN sessions
           /\ \A s \in DOMAIN sessions : sessions'[s] = sessions[s]
           /\ sessions'[Len(sessions) + 1] = row
<1>1. /\ Table(sessions) /\ DOMAIN sessions = 1..Len(sessions)
      /\ Len(sessions) \in Nat /\ MaxSessions \in Nat
  BY TableSeq, BoundAssumption DEF SessionsOK
<1>2. /\ Table(sessions') /\ Len(sessions') = Len(sessions) + 1
      /\ DOMAIN sessions' = DOMAIN sessions \cup {Len(sessions) + 1}
      /\ Len(sessions) + 1 \notin DOMAIN sessions
      /\ \A s \in DOMAIN sessions : sessions'[s] = sessions[s]
      /\ sessions'[Len(sessions) + 1] = row
  BY <1>1, TableAppend
<1>3. DOMAIN sessions' = 1..Len(sessions')
  BY <1>2, TableSeq
<1>4. \A s \in 1..Len(sessions') : IsSession(sessions'[s])
  BY <1>1, <1>2, <1>3 DEF SessionsOK
<1> QED  BY <1>1, <1>2, <1>4 DEF SessionsOK

\* A session that is updated.
LEMMA SessionReplaced ==
    ASSUME SessionsOK(sessions), NEW s \in DOMAIN sessions, NEW row, IsSession(row),
           sessions' = [sessions EXCEPT ![s] = row]
    PROVE  /\ SessionsOK(sessions') /\ DOMAIN sessions' = DOMAIN sessions
           /\ \A q \in DOMAIN sessions : sessions'[q] = IF q = s THEN row ELSE sessions[q]
<1>1. Table(sessions) /\ DOMAIN sessions = 1..Len(sessions) /\ Len(sessions) \in Nat
  BY TableSeq DEF SessionsOK
<1>2. /\ DOMAIN sessions' = DOMAIN sessions /\ sessions' = [q \in 1..Len(sessions) |-> sessions'[q]]
      /\ \A q \in DOMAIN sessions : sessions'[q] = IF q = s THEN row ELSE sessions[q]
  BY <1>1
<1>3. Table(sessions') /\ Len(sessions') = Len(sessions)
  BY <1>1, <1>2, TableOf
<1> QED  BY <1>1, <1>2, <1>3 DEF SessionsOK
-----------------------------------------------------------------------------
\* The requests of researchers.
LEMMA ResearcherRows ==
    ASSUME ServiceRows, NEW h \in Researchers,
           \/ \E form \in Forms : BeginCreate(h, form)
           \/ FinishCreate(h) \/ FailRequest(h)
           \/ \E r \in DOMAIN runs : ReadRun(h, r)
           \/ ProbeSlug(h) \/ UpdateSlug(h)
    PROVE  ServiceRows'
<1> USE DEF ServiceRows
<1>1. ASSUME NEW form \in Forms, BeginCreate(h, form) PROVE ServiceRows'
  <2> DEFINE row == Created(form, FreeSlug(form.base))
  <2>1. IsRun(row)
    BY <1>1, CreatedTyped DEF BeginCreate
  <2> HIDE DEF row
  <2> DEFINE f == [run |-> 0, row |-> row]
  <2>2. /\ frame' = [frame EXCEPT ![h] = f] /\ pc' = [pc EXCEPT ![h] = "insert"]
        /\ UNCHANGED <<banks, runs, sessions, trials, invites>>
    BY <1>1 DEF BeginCreate, row
  <2>3. f = [run |-> f.run, row |-> f.row] /\ IsRun(f.row)
    BY <2>1
  <2> HIDE DEF f
  <2>4. HandlersOK'
    BY <2>2, <2>3, HandlerStep
  <2> QED  BY <2>2, <2>4
<1>2. ASSUME FinishCreate(h) PROVE ServiceRows'
  <2> DEFINE row == frame[h].row
  <2>1. IsRun(row)
    BY DEF HandlersOK
  <2>2. /\ runs' = Append(runs, row) /\ Len(runs) < MaxRuns
        /\ invites' = invites \cup {<<row.slug, Len(runs) + 1>>}
        /\ pc' = [pc EXCEPT ![h] = "idle"] /\ frame' = [frame EXCEPT ![h] = NoFrame]
        /\ UNCHANGED <<banks, sessions, trials>>
    BY <1>2 DEF FinishCreate
  <2> HIDE DEF row
  <2>3. RunsOK(runs') /\ DOMAIN runs \subseteq DOMAIN runs' /\ Len(runs) + 1 \in 1..MaxRuns
    BY <2>1, <2>2, RunAppended
  <2>4. HandlersOK'
    BY <2>2, <2>3, NoFrameTyped, HandlerStep
  <2>5. invites' \subseteq Slugs \X (1..MaxRuns)
    BY <2>1, <2>2, <2>3 DEF IsRun
  <2> QED  BY <2>2, <2>3, <2>4, <2>5
<1>3. ASSUME FailRequest(h) PROVE ServiceRows'
  <2>1. /\ pc' = [pc EXCEPT ![h] = "idle"] /\ frame' = [frame EXCEPT ![h] = NoFrame]
        /\ UNCHANGED <<banks, runs, sessions, trials, invites>>
    BY <1>3 DEF FailRequest
  <2>2. HandlersOK'
    BY <2>1, NoFrameTyped, HandlerStep
  <2> QED  BY <2>1, <2>2
<1>4. ASSUME NEW r \in DOMAIN runs, ReadRun(h, r) PROVE ServiceRows'
  <2> DEFINE row == runs[r]
  <2>1. IsRun(row)
    BY TableSeq DEF RunsOK
  <2> DEFINE f == [run |-> r, row |-> row]
  <2>2. /\ frame' = [frame EXCEPT ![h] = f] /\ pc' = [pc EXCEPT ![h] = "probe"]
        /\ UNCHANGED <<banks, runs, sessions, trials, invites>>
    BY <1>4 DEF ReadRun
  <2> HIDE DEF row
  <2>3. f = [run |-> f.run, row |-> f.row] /\ IsRun(f.row) /\ f.run \in DOMAIN runs
    BY <2>1
  <2> HIDE DEF f
  <2>4. HandlersOK'
    BY <2>2, <2>3, HandlerStep
  <2> QED  BY <2>2, <2>4
<1>5. ASSUME ProbeSlug(h) PROVE ServiceRows'
  <2> DEFINE slug == FreeSlug(frame[h].row.base)
             row == [frame[h].row EXCEPT !.slug = slug]
  <2>1. IsRun(frame[h].row) /\ frame[h] = [run |-> frame[h].run, row |-> frame[h].row]
        /\ frame[h].row.base # NoSlug /\ frame[h].run \in DOMAIN runs
    BY <1>5 DEF ProbeSlug, HandlersOK, NoSlug
  <2>2. PICK form \in Forms : frame[h].row.base = form.base
    BY <2>1 DEF IsRun, Bases
  <2>3. slug \in Slugs
    BY <2>2, FreeSlugTyped
  <2> HIDE DEF slug
  <2>4. IsRun(row)
    BY <2>1, <2>3, RunUpdated
  <2>5. [frame[h] EXCEPT !.row.slug = slug] = [run |-> frame[h].run, row |-> row]
    BY <2>1
  <2>6. /\ pc' = [pc EXCEPT ![h] = "update"]
        /\ frame' = [frame EXCEPT ![h] = [frame[h] EXCEPT !.row.slug = slug]]
        /\ UNCHANGED <<banks, runs, sessions, trials, invites>>
    BY <1>5 DEF ProbeSlug, HandlersOK, slug
  <2> HIDE DEF row
  <2>7. HandlersOK'
    BY <2>1, <2>4, <2>5, <2>6, HandlerStep
  <2> QED  BY <2>6, <2>7
<1>6. ASSUME UpdateSlug(h) PROVE ServiceRows'
  <2> DEFINE r == frame[h].run
             slug == frame[h].row.slug
             row == [runs[r] EXCEPT !.slug = slug]
  <2>1. r \in DOMAIN runs /\ slug \in Slugs
    BY <1>6 DEF UpdateSlug, HandlersOK, IsRun
  <2>2. /\ runs' = [runs EXCEPT ![r] = row] /\ invites' = invites \cup {<<slug, r>>}
        /\ pc' = [pc EXCEPT ![h] = "idle"] /\ frame' = [frame EXCEPT ![h] = NoFrame]
        /\ UNCHANGED <<banks, sessions, trials>>
    BY <1>6, <2>1 DEF UpdateSlug
  <2> HIDE DEF r, slug
  <2>3. IsRun(runs[r]) /\ r \in 1..MaxRuns
    BY <2>1, TableSeq, BoundAssumption DEF RunsOK
  <2>4. IsRun(row)
    BY <2>1, <2>3, RunUpdated
  <2> HIDE DEF row
  <2>5. RunsOK(runs') /\ DOMAIN runs' = DOMAIN runs
    BY <2>1, <2>2, <2>4, RunReplaced
  <2>6. HandlersOK'
    BY <2>2, <2>5, NoFrameTyped, HandlerStep
  <2>7. invites' \subseteq Slugs \X (1..MaxRuns)
    BY <2>1, <2>2, <2>3
  <2> QED  BY <2>2, <2>5, <2>6, <2>7
<1> QED  BY <1>1, <1>2, <1>3, <1>4, <1>5, <1>6

\* The requests of one statement.
LEMMA StatementRows ==
    ASSUME ServiceRows,
           \/ \E file \in Files : Upload(file)
           \/ \E r \in DOMAIN runs : Activate(r) \/ Close(r) \/ CreateSession(r)
           \/ \E s \in DOMAIN sessions : StartSession(s)
    PROVE  ServiceRows'
<1> USE DEF ServiceRows
<1>1. ASSUME NEW file \in Files, Upload(file) PROVE ServiceRows'
  <2>1. /\ Len(banks) < MaxBanks /\ banks' = Append(banks, Bank(Rows(file)))
        /\ UNCHANGED <<runs, sessions, trials, invites, pc, frame>>
    BY <1>1 DEF Upload
  <2>2. IsBank(Bank(Rows(file)))
    BY <1>1, UploadedBank DEF Upload
  <2>3. BanksOK(banks')
    BY <2>1, <2>2, BankAppended
  <2> QED  BY <2>1, <2>3, HandlersStay
<1>2. ASSUME NEW r \in DOMAIN runs, Activate(r) \/ Close(r) PROVE ServiceRows'
  <2>1. UNCHANGED <<banks, sessions, trials, invites, pc, frame>>
    BY <1>2 DEF Activate, Close
  <2>2. PICK status \in {"active", "closed"} :
            runs' = [runs EXCEPT ![r] = [runs[r] EXCEPT !.status = status]]
    BY <1>2 DEF Activate, Close
  <2> DEFINE row == [runs[r] EXCEPT !.status = status]
  <2>3. IsRun(runs[r])
    BY TableSeq DEF RunsOK
  <2>4. IsRun(row)
    <3>1. status \in {"draft", "active", "closed"}
      OBVIOUS
    <3> QED  BY <2>3, <3>1 DEF IsRun
  <2> HIDE DEF row
  <2>5. RunsOK(runs') /\ DOMAIN runs' = DOMAIN runs
    BY <2>2, <2>4, RunReplaced DEF row
  <2> QED  BY <2>1, <2>5, HandlersStay
<1>3. ASSUME NEW r \in DOMAIN runs, CreateSession(r) PROVE ServiceRows'
  <2> DEFINE row == [run |-> r, status |-> "created", expected |-> ExpectedTrials(runs[r])]
  <2>1. /\ Len(sessions) < MaxSessions /\ sessions' = Append(sessions, row)
        /\ UNCHANGED <<banks, runs, trials, invites, pc, frame>>
    BY <1>3 DEF CreateSession
  <2>2. r \in 1..MaxRuns
    BY TableSeq, BoundAssumption DEF RunsOK
  <2>3. ExpectedTrials(runs[r]) \in Nat
    BY ExpectedNat, TableSeq DEF RunsOK
  <2>4. IsSession(row)
    BY <2>2, <2>3 DEF IsSession
  <2> HIDE DEF row
  <2>5. SessionsOK(sessions')
    BY <2>1, <2>4, SessionAppended
  <2> QED  BY <2>1, <2>5, HandlersStay
<1>4. ASSUME NEW s \in DOMAIN sessions, StartSession(s) PROVE ServiceRows'
  <2> DEFINE run == runs[sessions[s].run]
             new == IF TrialsOf(s) = {} THEN Snapshot(s, run) ELSE {}
             agreed == Cardinality(TrialsOf(s) \cup new) = sessions[s].expected
             status == IF agreed THEN "in_progress" ELSE sessions[s].status
             expected == IF new # {} THEN ExpectedTrials(run) ELSE sessions[s].expected
             row == [run |-> sessions[s].run, status |-> status, expected |-> expected]
  <2>1. /\ sessions[s].run \in DOMAIN runs /\ trials' = trials \cup new
        /\ UNCHANGED <<banks, runs, invites, pc, frame>>
    BY <1>4 DEF StartSession
  <2>2. IsSession(sessions[s]) /\ s \in 1..MaxSessions
    BY TableSeq, BoundAssumption DEF SessionsOK
  <2>3. sessions' = [sessions EXCEPT ![s] = row]
    <3>1. sessions' = [sessions EXCEPT ![s].status = status, ![s].expected = expected]
      BY <1>4 DEF StartSession
    <3>2. sessions' = [[sessions EXCEPT ![s].status = status] EXCEPT ![s].expected = expected]
      BY <3>1
    <3> DEFINE t == [sessions EXCEPT ![s].status = status]
    <3>3. sessions' = [t EXCEPT ![s] = [t[s] EXCEPT !.expected = expected]]
      BY <3>2
    <3>4. t[s] = [sessions[s] EXCEPT !.status = status]
      OBVIOUS
    <3> HIDE DEF status, expected, t
    <3>5. [t[s] EXCEPT !.expected = expected] = row
      <4> DEFINE b == sessions[s]
      <4>1. b = [run |-> b.run, status |-> b.status, expected |-> b.expected]
        BY <2>2 DEF IsSession
      <4> HIDE DEF b
      <4>2. [b EXCEPT !.status = status] = [run |-> b.run, status |-> status, expected |-> b.expected]
        BY <4>1
      <4>3. t[s] = [run |-> b.run, status |-> status, expected |-> b.expected]
        BY <3>4, <4>2 DEF b
      <4> QED  BY <4>3 DEF b
    <3> HIDE DEF row
    <3>6. sessions' = [t EXCEPT ![s] = row]
      BY <3>3, <3>5
    <3> HIDE DEF t
    <3> QED  BY <3>6 DEF t
  <2>4. ExpectedTrials(run) \in Nat
    BY <2>1, ExpectedNat, TableSeq DEF RunsOK
  <2>5. IsSession(row)
    <3>1. status \in {"created", "in_progress"} /\ expected \in Nat
      BY <2>2, <2>4 DEF IsSession
    <3> HIDE DEF status, expected
    <3> QED  BY <2>2, <3>1 DEF IsSession
  <2>6. TrialsOK(new)
    BY <2>2 DEF TrialsOK, Snapshot, TrialRows, IsTrial
  <2>7. TrialsOK(trials')
    BY <2>1, <2>6 DEF TrialsOK
  <2> HIDE DEF row
  <2>8. SessionsOK(sessions')
    BY <2>2, <2>3, <2>5, SessionReplaced
  <2> QED  BY <2>1, <2>7, <2>8, HandlersStay
<1> QED  BY <1>1, <1>2, <1>3, <1>4
-----------------------------------------------------------------------------
(* Backups and restores keep the types.                                    *)

\* TABLE_SPECS, table by table.
LEMMA TableNames ==
    /\ Len(Tables) = 4 /\ DOMAIN Tables = 1..4
    /\ Tables[1] = "banks" /\ Tables[2] = "runs" /\ Tables[3] = "sessions" /\ Tables[4] = "trials"
    /\ ToSet(Tables) = {"banks", "runs", "sessions", "trials"}
<1>1. /\ Len(Tables) = 4 /\ DOMAIN Tables = 1..4
      /\ Tables[1] = "banks" /\ Tables[2] = "runs" /\ Tables[3] = "sessions" /\ Tables[4] = "trials"
  BY DEF Tables
<1>2. ToSet(Tables) = {Tables[i] : i \in 1..4}
  BY <1>1 DEF ToSet
<1>3. 1..4 = {1, 2, 3, 4}
  OBVIOUS
<1>4. ToSet(Tables) = {Tables[1], Tables[2], Tables[3], Tables[4]}
  BY <1>2, <1>3
<1> QED  BY <1>1, <1>4

\* The tables by their places.
LEMMA Selected ==
    /\ Select(Tables[1]) = Select("banks") /\ Select(Tables[2]) = Select("runs")
    /\ Select(Tables[3]) = Select("sessions") /\ Select(Tables[4]) = Select("trials")
BY TableNames

\* A table that is read.
LEMMA SelectTyped ==
    ASSUME ServiceRows
    PROVE  /\ BanksOK(Select("banks")) /\ RunsOK(Select("runs"))
           /\ SessionsOK(Select("sessions")) /\ TrialsOK(Select("trials"))
<1>1. BanksOK(Select("banks"))
  BY DEF Select, ServiceRows
<1>2. RunsOK(Select("runs"))
  <2> DEFINE t == Select("runs")
  <2>1. Table(runs) /\ DOMAIN runs = 1..Len(runs) /\ Len(runs) \in Nat /\ Len(runs) <= MaxRuns
    BY TableSeq DEF RunsOK, ServiceRows
  <2>2. t = [r \in 1..Len(runs) |-> [runs[r] EXCEPT !.multi = FALSE, !.practice = NoBank]]
    BY <2>1 DEF Select
  <2>3. ASSUME NEW r \in 1..Len(runs) PROVE IsRun(t[r])
    <3> DEFINE run == runs[r]
    <3>1. IsRun(run) /\ t[r] = [run EXCEPT !.multi = FALSE, !.practice = NoBank]
      BY <2>2 DEF RunsOK, ServiceRows
    <3> HIDE DEF run, t
    <3>2. IsRun([run EXCEPT !.multi = FALSE, !.practice = NoBank])
      BY <3>1 DEF IsRun
    <3> QED  BY <3>1, <3>2
  <2> HIDE DEF t
  <2>4. t = [r \in 1..Len(runs) |-> t[r]]
    BY <2>2
  <2>5. Table(t) /\ Len(t) = Len(runs)
    BY <2>1, <2>4, TableOf
  <2>6. RunsOK(t)
    BY <2>1, <2>3, <2>5 DEF RunsOK
  <2> QED  BY <2>6 DEF t
<1>3. SessionsOK(Select("sessions"))
  <2> DEFINE t == Select("sessions")
  <2>1. /\ Table(sessions) /\ DOMAIN sessions = 1..Len(sessions)
        /\ Len(sessions) \in Nat /\ Len(sessions) <= MaxSessions
    BY TableSeq DEF SessionsOK, ServiceRows
  <2>2. t = [s \in 1..Len(sessions) |-> [sessions[s] EXCEPT !.expected = 0]]
    BY <2>1 DEF Select
  <2>3. ASSUME NEW s \in 1..Len(sessions) PROVE IsSession(t[s])
    <3> DEFINE row == sessions[s]
    <3>1. IsSession(row) /\ t[s] = [row EXCEPT !.expected = 0]
      BY <2>2 DEF SessionsOK, ServiceRows
    <3> HIDE DEF row, t
    <3>2. IsSession([row EXCEPT !.expected = 0])
      BY <3>1 DEF IsSession
    <3> QED  BY <3>1, <3>2
  <2> HIDE DEF t
  <2>4. t = [s \in 1..Len(sessions) |-> t[s]]
    BY <2>2
  <2>5. Table(t) /\ Len(t) = Len(sessions)
    BY <2>1, <2>4, TableOf
  <2>6. SessionsOK(t)
    BY <2>1, <2>3, <2>5 DEF SessionsOK
  <2> QED  BY <2>6 DEF t
<1>4. TrialsOK(Select("trials"))
  <2> SUFFICES ASSUME NEW t \in trials PROVE IsTrial([t EXCEPT !.sources = {}])
    BY DEF Select, TrialsOK
  <2>1. IsTrial(t)
    BY DEF TrialsOK, ServiceRows
  <2> QED  BY <2>1 DEF IsTrial
<1> QED  BY <1>1, <1>2, <1>3, <1>4

\* The next table of a backup.
LEMMA ReadTyped ==
    ASSUME ServiceRows, BackupsOK, BeginBackup \/ ReadTable
    PROVE  BackupsOK'
<1>1. CASE BeginBackup
  <2>1. /\ taken < MaxBackups /\ reading' = <<Select("banks")>>
        /\ UNCHANGED <<archives, taken, restored>>
    BY <1>1, Selected DEF BeginBackup
  <2>2. /\ Table(reading') /\ Len(reading') = 1 /\ reading'[1] = Select("banks")
    BY <2>1, OneRow
  <2> QED  BY <2>1, <2>2, SelectTyped DEF BackupsOK
<1>2. CASE ReadTable
  <2> DEFINE k == Len(reading)
  <2>1. /\ k \in 1..3 /\ reading' = Append(reading, Select(Tables[k + 1]))
        /\ UNCHANGED <<archives, taken, restored>>
    <3>1. BackingUp /\ Len(reading) < 4
      BY <1>2, TableNames DEF ReadTable
    <3>2. Len(reading) # 0
      BY <3>1, NoRows DEF BackingUp, BackupsOK, Table
    <3>3. Len(reading) \in Nat
      BY DEF BackupsOK, Table
    <3>4. k < 4 /\ k # 0 /\ k \in Nat
      BY <3>1, <3>2, <3>3
    <3>5. k \in 1..3
      <4> HIDE DEF k
      <4> QED  BY <3>4
    <3> QED  BY <1>2, <3>5 DEF ReadTable
  <2>2. /\ Table(reading') /\ Len(reading') = k + 1
        /\ \A i \in 1..k : reading'[i] = reading[i]
        /\ reading'[k + 1] = Select(Tables[k + 1])
    BY <2>1, TableAppend, TableSeq DEF BackupsOK
  <2> HIDE DEF k
  <2>3. /\ k + 1 >= 1 => BanksOK(reading'[1])
        /\ k + 1 >= 2 => RunsOK(reading'[2])
        /\ k + 1 >= 3 => SessionsOK(reading'[3])
        /\ k + 1 >= 4 => TrialsOK(reading'[4])
    <3>1. CASE k = 1
      BY <2>2, <3>1, SelectTyped, Selected DEF BackupsOK, k
    <3>2. CASE k = 2
      BY <2>2, <3>2, SelectTyped, Selected DEF BackupsOK, k
    <3>3. CASE k = 3
      BY <2>2, <3>3, SelectTyped, Selected DEF BackupsOK, k
    <3>4. k = 1 \/ k = 2 \/ k = 3
      BY <2>1
    <3> QED  BY <3>1, <3>2, <3>3, <3>4
  <2>4. taken < MaxBackups
    <3>1. k # 0
      BY <2>1
    <3> QED  BY <3>1 DEF BackupsOK, k
  <2>5. k + 1 \in Nat /\ k + 1 <= 4
    BY <2>1
  <2> QED  BY <2>1, <2>2, <2>3, <2>4, <2>5 DEF BackupsOK
<1> QED  BY <1>1, <1>2

\* The archive of a complete backup.
Copy == [t \in ToSet(Tables) |-> reading[CHOOSE i \in DOMAIN Tables : Tables[i] = t]]

\* It holds the tables that were read.
LEMMA CopyTables ==
    /\ Copy["banks"] = reading[1] /\ Copy["runs"] = reading[2]
    /\ Copy["sessions"] = reading[3] /\ Copy["trials"] = reading[4]
<1>1. ASSUME NEW i \in 1..4 PROVE Copy[Tables[i]] = reading[i]
  <2>1. ASSUME NEW j \in 1..4, Tables[i] = Tables[j] PROVE i = j
    BY <2>1, TableNames
  <2>2. (CHOOSE j \in DOMAIN Tables : Tables[j] = Tables[i]) = i
    BY <2>1, TableNames
  <2>3. Tables[i] \in ToSet(Tables)
    BY TableNames DEF ToSet
  <2> QED  BY <2>2, <2>3 DEF Copy
<1> QED  BY <1>1, TableNames

\* The archives after a backup are the latest ones.
LEMMA FinishArchives ==
    ASSUME BackupsOK, FinishBackup
    PROVE  /\ Table(archives') /\ Len(archives') <= Retained
           /\ \A a \in 1..Len(archives') :
                  archives'[a] = Copy \/ \E b \in 1..Len(archives) : archives'[a] = archives[b]
           /\ Len(reading) = 4
           /\ reading' = <<>> /\ taken' = taken + 1 /\ UNCHANGED <<setupVars, restored>>
<1> DEFINE all == Append(archives, Copy)
           n == Len(all)
           m == 1 + IF n > Retained THEN n - Retained ELSE 0
<1>1. /\ archives' = SubSeq(all, m, n) /\ Len(reading) = 4
      /\ reading' = <<>> /\ taken' = taken + 1 /\ UNCHANGED <<setupVars, restored>>
  BY TableNames DEF FinishBackup, Copy
<1>2. /\ Table(archives) /\ Len(archives) \in Nat /\ Len(archives) <= Retained
      /\ DOMAIN archives = 1..Len(archives)
  BY TableSeq DEF BackupsOK
<1>3. /\ Table(all) /\ n = Len(archives) + 1 /\ all[n] = Copy
      /\ \A i \in 1..Len(archives) : all[i] = archives[i]
  BY <1>2, TableAppend
<1> HIDE DEF all
<1>4. n \in Nat /\ DOMAIN all = 1..n /\ n <= Retained + 1 /\ n >= 1
  BY <1>2, <1>3, TableSeq, RetainAssumption
<1>5. m \in 1..n
  BY <1>4, RetainAssumption
<1>6. n - m + 1 <= Retained
  BY <1>4, RetainAssumption
<1> HIDE DEF m, n
<1>7. /\ Table(archives') /\ Len(archives') = n - m + 1
      /\ \A i \in 1..Len(archives') : m + i - 1 \in DOMAIN all /\ archives'[i] = all[m + i - 1]
  <2> DEFINE rest == archives'
  <2>1. rest = SubSeq(all, m, Len(all)) /\ Table(all) /\ m \in 1..Len(all)
    BY <1>1, <1>3, <1>5 DEF n
  <2>2. Rest(SubSeq(all, m, Len(all)), all, m)
    BY <2>1, TableRest
  <2>3. Rest(rest, all, m)
    BY <2>1, <2>2
  <2> QED  BY <2>3 DEF rest, n, Rest
<1>8. \A i \in 1..n : all[i] = Copy \/ \E b \in 1..Len(archives) : all[i] = archives[b]
  BY <1>2, <1>3, <1>4
<1>9. ASSUME NEW a \in 1..Len(archives')
      PROVE  archives'[a] = Copy \/ \E b \in 1..Len(archives) : archives'[a] = archives[b]
  <2>1. m + a - 1 \in 1..n /\ archives'[a] = all[m + a - 1]
    BY <1>4, <1>7
  <2> QED  BY <1>8, <2>1
<1>10. Table(archives') /\ Len(archives') <= Retained
  BY <1>6, <1>7
<1> QED  BY <1>1, <1>9, <1>10

\* The archive is written and old ones are deleted.
LEMMA FinishTyped ==
    ASSUME BackupsOK, FinishBackup PROVE BackupsOK'
<1>1. /\ Table(archives') /\ Len(archives') <= Retained
      /\ \A a \in 1..Len(archives') :
             archives'[a] = Copy \/ \E b \in 1..Len(archives) : archives'[a] = archives[b]
      /\ Len(reading) = 4 /\ reading' = <<>> /\ taken' = taken + 1 /\ UNCHANGED restored
  BY FinishArchives
<1>2. ArchiveOK(Copy)
  BY <1>1, CopyTables DEF ArchiveOK, BackupsOK
<1>3. \A a \in 1..Len(archives') : ArchiveOK(archives'[a])
  BY <1>1, <1>2 DEF BackupsOK
<1>4. taken' \in 0..MaxBackups
  <2>1. taken < MaxBackups /\ taken \in 0..MaxBackups
    BY <1>1 DEF BackupsOK
  <2> QED  BY <1>1, <2>1, RetainAssumption
<1>5. Table(reading') /\ Len(reading') = 0
  BY <1>1, NoRows
<1> QED  BY <1>1, <1>3, <1>4, <1>5 DEF BackupsOK

\* The archived rows take the place of the tables.
LEMMA RestoreTyped ==
    ASSUME RowsInv, NEW a \in DOMAIN archives, Restore(archives[a])
    PROVE  RowsInv'
<1>1. ArchiveOK(archives[a])
  BY TableSeq DEF RowsInv, BackupsOK
<1>2. /\ banks' = archives[a]["banks"] /\ runs' = archives[a]["runs"]
      /\ sessions' = archives[a]["sessions"] /\ trials' = archives[a]["trials"]
      /\ restored' = TRUE
      /\ pc' = [h \in Researchers |-> "idle"] /\ frame' = [h \in Researchers |-> NoFrame]
      /\ UNCHANGED <<invites, reading, archives, taken>>
  BY DEF Restore
<1>3. HandlersOK'
  BY <1>2, NoFrameTyped DEF HandlersOK
<1>4. BackupsOK'
  BY <1>2 DEF RowsInv, BackupsOK
<1> QED  BY <1>1, <1>2, <1>3, <1>4 DEF RowsInv, ArchiveOK

\* The first state.
LEMMA RowsInit == Init => RowsInv
<1> SUFFICES ASSUME Init PROVE RowsInv
  OBVIOUS
<1>1. BanksOK(banks)
  <2>1. IsBank(LegacyBank)
    BY FS_EmptySet, NoRows DEF IsBank, LegacyBank, RunCompatible
  <2> DEFINE bank == LegacyBank
  <2> HIDE DEF bank
  <2>2. banks = <<>> \/ banks = <<bank>>
    BY DEF Init, SetupInit, bank
  <2>3. CASE banks = <<>>
    BY <2>3, NoRows, BoundAssumption DEF BanksOK
  <2>4. CASE banks = <<bank>>
    <3>1. Table(banks) /\ Len(banks) = 1 /\ banks[1] = bank
      BY <2>4, OneRow
    <3>2. \A b \in 1..Len(banks) : banks[b] = bank
      BY <3>1
    <3> QED  BY <2>1, <3>1, <3>2, BoundAssumption DEF BanksOK, bank
  <2> QED  BY <2>2, <2>3, <2>4
<1>2. RunsOK(runs)
  <2>1. PICK form \in Forms : runs = IF WithLegacyRun THEN <<LegacyRun(form.base)>> ELSE <<>>
    BY DEF Init, SetupInit
  <2> DEFINE run == LegacyRun(form.base)
  <2>2. IsRun(run)
    BY LegacyTyped DEF Bases
  <2> HIDE DEF run
  <2>3. runs = <<>> \/ runs = <<run>>
    BY <2>1 DEF run
  <2>4. CASE runs = <<>>
    BY <2>4, NoRows, BoundAssumption DEF RunsOK
  <2>5. CASE runs = <<run>>
    <3>1. Table(runs) /\ Len(runs) = 1 /\ runs[1] = run
      BY <2>5, OneRow
    <3>2. \A r \in 1..Len(runs) : runs[r] = run
      BY <3>1
    <3> QED  BY <2>2, <3>1, <3>2, BoundAssumption DEF RunsOK
  <2> QED  BY <2>3, <2>4, <2>5
<1>3. SessionsOK(sessions) /\ TrialsOK(trials) /\ invites \subseteq Slugs \X (1..MaxRuns)
  BY NoRows, BoundAssumption DEF Init, SetupInit, SessionsOK, TrialsOK
<1>4. HandlersOK
  BY NoFrameTyped DEF Init, SetupInit, HandlersOK
<1>5. BackupsOK
  <2>1. /\ reading = <<>> /\ archives = <<>> /\ taken = 0 /\ restored = FALSE
    BY DEF Init
  <2>2. Len(reading) = 0 /\ Len(archives) = 0 /\ Table(reading) /\ Table(archives)
    BY <2>1, NoRows
  <2>3. ~(Len(reading) >= 1) /\ ~(Len(reading) >= 2) /\ ~(Len(reading) >= 3) /\ ~(Len(reading) >= 4)
    BY <2>2
  <2>4. Len(reading) <= 4 /\ Len(archives) <= Retained /\ taken \in 0..MaxBackups
    BY <2>1, <2>2, RetainAssumption
  <2>5. \A a \in 1..Len(archives) : FALSE
    BY <2>2
  <2> QED  BY <2>1, <2>2, <2>3, <2>4, <2>5 DEF BackupsOK
<1> QED  BY <1>1, <1>2, <1>3, <1>4, <1>5 DEF RowsInv

\* Every request, backup and restore keeps the types.
LEMMA RowsNext == RowsInv /\ [Next]_vars => RowsInv'
<1> SUFFICES ASSUME RowsInv, [Next]_vars PROVE RowsInv'
  OBVIOUS
<1>1. ServiceRows /\ BackupsOK
  BY DEF RowsInv, ServiceRows
<1>2. ASSUME Setup, UNCHANGED backupVars PROVE RowsInv'
  <2>1. ServiceRows'
    <3>1. ASSUME NEW h \in Researchers,
                 \/ \E form \in Forms : BeginCreate(h, form)
                 \/ FinishCreate(h) \/ FailRequest(h)
                 \/ \E r \in DOMAIN runs : ReadRun(h, r)
                 \/ ProbeSlug(h) \/ UpdateSlug(h)
          PROVE  ServiceRows'
      BY <1>1, <3>1, ResearcherRows
    <3>2. ASSUME \/ \E file \in Files : Upload(file)
                 \/ \E r \in DOMAIN runs : Activate(r) \/ Close(r) \/ CreateSession(r)
                 \/ \E s \in DOMAIN sessions : StartSession(s)
          PROVE  ServiceRows'
      BY <1>1, <3>2, StatementRows
    <3> QED  BY <1>2, <3>1, <3>2 DEF Setup
  <2>2. BackupsOK'
    BY <1>1, <1>2 DEF BackupsOK, backupVars
  <2> QED  BY <2>1, <2>2 DEF RowsInv, ServiceRows
<1>3. ASSUME UNCHANGED setupVars, BackupsOK' PROVE RowsInv'
  <2>1. HandlersOK'
    BY <1>1, <1>3, HandlersStay DEF setupVars, ServiceRows
  <2> QED  BY <1>1, <1>3, <2>1 DEF RowsInv, ServiceRows, setupVars
<1>4. CASE BeginBackup \/ ReadTable
  BY <1>1, <1>3, <1>4, ReadTyped DEF BeginBackup, ReadTable
<1>5. CASE FinishBackup
  BY <1>1, <1>3, <1>5, FinishTyped DEF FinishBackup
<1>6. CASE \E a \in DOMAIN archives : Restore(archives[a])
  BY <1>6, RestoreTyped
<1>7. CASE UNCHANGED vars
  <2>1. UNCHANGED setupVars /\ UNCHANGED backupVars
    BY <1>7 DEF vars, setupVars, backupVars
  <2>2. BackupsOK'
    BY <1>1, <2>1 DEF BackupsOK, backupVars
  <2> QED  BY <1>3, <2>1, <2>2
<1> QED  BY <1>2, <1>4, <1>5, <1>6, <1>7 DEF Next

\* It is an invariant.
LEMMA RowsInvariant == Spec => []RowsInv
BY RowsInit, RowsNext, PTL DEF Spec

\* The tables, the handlers and the backups keep their types, through any
\* restore, for any forms and files (run_service.py, stimulus_service.py,
\* session_service.py, backup_restore.py).
THEOREM TypeCorrect == Spec => []TypeOK
<1>1. RowsInv => TypeOK
  <2> SUFFICES ASSUME RowsInv PROVE TypeOK
    OBVIOUS
  <2>1. /\ DOMAIN banks = 1..Len(banks) /\ DOMAIN runs = 1..Len(runs)
        /\ DOMAIN sessions = 1..Len(sessions)
    BY TableSeq DEF RowsInv, BanksOK, RunsOK, SessionsOK
  <2>2. SetupTypeOK
    BY <2>1 DEF RowsInv, SetupTypeOK, BanksOK, RunsOK, SessionsOK, TrialsOK, HandlersOK,
                IsBank, IsRun, IsSession, IsTrial
  <2>3. Len(reading) <= Len(Tables)
    BY TableNames DEF RowsInv, BackupsOK
  <2> QED  BY <2>2, <2>3 DEF TypeOK, RowsInv, BackupsOK
<1> QED  BY <1>1, RowsInvariant, PTL

\* Whatever files are uploaded, each stored bank can be shown and answered,
\* and says the truth about its advice (upload_stimulus_set).
THEOREM BanksAreUsable == Spec => []BanksUsable
<1>1. RowsInv => BanksUsable
  <2> SUFFICES ASSUME RowsInv, NEW b \in DOMAIN banks, banks[b].status \in RunCompatible
               PROVE  Usable(banks[b])
    BY DEF BanksUsable, Usable
  <2> QED  BY TableSeq DEF RowsInv, BanksOK, IsBank
<1> QED  BY <1>1, RowsInvariant, PTL
-----------------------------------------------------------------------------
(* Banks are only added, and a run keeps its design.                       *)

\* A step forgets no bank and changes none.
BanksGrow ==
    /\ DOMAIN banks \subseteq DOMAIN banks'
    /\ \A b \in DOMAIN banks : banks'[b] = banks[b]

\* Two rows ask for the same trials.
SameDesign(a, b) ==
    /\ a.experiment = b.experiment /\ a.family = b.family
    /\ a.sets = b.sets /\ a.practice = b.practice
    /\ a.multi = b.multi /\ a.nBlocks = b.nBlocks

\* The items of known banks stay.
LEMMA SlotsKept ==
    ASSUME BanksGrow, NEW sets, ToSet(sets) \subseteq DOMAIN banks
    PROVE  /\ Slots(sets)' = Slots(sets)
           /\ \A slot \in Slots(sets) : ItemAt(sets, slot)' = ItemAt(sets, slot)
<1>1. \A k \in DOMAIN sets : sets[k] \in DOMAIN banks
  BY DEF ToSet
<1>2. {j \in DOMAIN sets : sets[j] \in DOMAIN banks'} = {j \in DOMAIN sets : sets[j] \in DOMAIN banks}
  BY <1>1 DEF BanksGrow
<1>3. \A k \in DOMAIN sets : banks'[sets[k]] = banks[sets[k]]
  BY <1>1 DEF BanksGrow
<1>4. Slots(sets)' = Slots(sets)
  BY <1>2, <1>3 DEF Slots
<1>5. ASSUME NEW slot \in Slots(sets) PROVE ItemAt(sets, slot)' = ItemAt(sets, slot)
  <2>1. PICK k \in DOMAIN sets : slot \in {k} \X DOMAIN banks[sets[k]].items
    BY DEF Slots
  <2>2. slot[1] = k
    BY <2>1
  <2> QED  BY <1>3, <2>2 DEF ItemAt
<1> QED  BY <1>4, <1>5

\* The banks of a run are those of its two lists.
LEMMA RunBanks ==
    ASSUME NEW run, SelectedBanks(run) \subseteq DOMAIN banks
    PROVE  /\ ToSet(run.sets) \subseteq DOMAIN banks
           /\ ToSet(PracticeSets(run)) \subseteq DOMAIN banks
           /\ run.practice # NoBank => run.practice \in DOMAIN banks
BY PracticeList DEF SelectedBanks

\* So do the counts.
LEMMA CountsKept ==
    ASSUME BanksGrow, NEW a, NEW b, SameDesign(a, b), SelectedBanks(a) \subseteq DOMAIN banks
    PROVE  MainCount(b)' = MainCount(a) /\ ExpectedTrials(b)' = ExpectedTrials(a)
<1>1. PracticeSets(b) = PracticeSets(a) /\ b.sets = a.sets
  BY DEF PracticeSets, SameDesign
<1>2. Slots(a.sets)' = Slots(a.sets) /\ Slots(PracticeSets(a))' = Slots(PracticeSets(a))
  BY RunBanks, SlotsKept
<1> QED  BY <1>1, <1>2 DEF MainCount, ExpectedTrials

\* And what the activation checks.
LEMMA LaunchableKept ==
    ASSUME BanksGrow, NEW a, NEW b, SameDesign(a, b), SelectedBanks(a) \subseteq DOMAIN banks,
           Launchable(a)
    PROVE  Launchable(b)'
<1>1. MainCount(b)' = MainCount(a) /\ ExpectedTrials(b)' = ExpectedTrials(a)
  BY CountsKept
<1>2. \A bank \in ToSet(b.sets) :
          /\ bank \in DOMAIN banks'
          /\ banks'[bank].family = b.family
          /\ banks'[bank].status \in RunCompatible
          /\ DOMAIN banks'[bank].items # {}
  BY DEF Launchable, SameDesign, BanksGrow
<1> QED  BY <1>1, <1>2 DEF Launchable, SameDesign, BlocksFilled, ModeFits, NoOverlap

\* A run stays sound, under whatever status and slug.
LEMMA SoundKept ==
    ASSUME BanksGrow, NEW a, NEW b, SameDesign(a, b), RunSound(a),
           b.promised \/ b.status # "draft" => Launchable(a)
    PROVE  RunSound(b)'
<1>1. SelectedBanks(b) = SelectedBanks(a) /\ SelectedBanks(a) \subseteq DOMAIN banks
  BY DEF SelectedBanks, PracticeSets, SameDesign, RunSound
<1>2. b.promised \/ b.status # "draft" => Launchable(b)'
  BY <1>1, LaunchableKept
<1>3. Given(b.family) => \A bank \in SelectedBanks(b) :
          banks'[bank].family = b.family /\ banks'[bank].status \in RunCompatible
  BY <1>1 DEF RunSound, BanksGrow, SameDesign
<1>4. SelectedBanks(b) \subseteq DOMAIN banks'
  BY <1>1 DEF BanksGrow
<1> QED  BY <1>2, <1>3, <1>4 DEF RunSound

\* The bank an item is attributed to stays the same.
LEMMA SourceKept ==
    ASSUME BanksGrow, NEW a, NEW b, SameDesign(a, b), SelectedBanks(a) \subseteq DOMAIN banks, NEW id
    PROVE  SourceBank(b, id)' = SourceBank(a, id)
<1>1. ASSUME NEW bank \in DOMAIN banks PROVE Holds(bank, id)' = Holds(bank, id)
  BY DEF Holds, BanksGrow
<1>2. \A k \in DOMAIN a.sets : a.sets[k] \in DOMAIN banks
  BY RunBanks DEF ToSet
<1>3. {k \in DOMAIN a.sets : Holds(a.sets[k], id)'} = {k \in DOMAIN a.sets : Holds(a.sets[k], id)}
  BY <1>1, <1>2
<1>4. a.practice # NoBank => Holds(a.practice, id)' = Holds(a.practice, id)
  BY <1>1, RunBanks
<1> QED  BY <1>3, <1>4 DEF SourceBank, SameDesign

\* The rows of one list.
LEMMA TrialRowsKept ==
    ASSUME BanksGrow, NEW a, NEW b, SameDesign(a, b), SelectedBanks(a) \subseteq DOMAIN banks,
           NEW sets, ToSet(sets) \subseteq DOMAIN banks, NEW s, NEW block
    PROVE  TrialRows(s, b, sets, block)' = TrialRows(s, a, sets, block)
<1>1. /\ Slots(sets)' = Slots(sets)
      /\ \A slot \in Slots(sets) : ItemAt(sets, slot)' = ItemAt(sets, slot)
  BY SlotsKept
<1>2. \A id : SourceBank(b, id)' = SourceBank(a, id)
  BY SourceKept
<1> QED  BY <1>1, <1>2 DEF TrialRows

\* The trials that a start would build.
LEMMA SnapshotKept ==
    ASSUME BanksGrow, NEW a, NEW b, SameDesign(a, b), SelectedBanks(a) \subseteq DOMAIN banks, NEW s
    PROVE  Snapshot(s, b)' = Snapshot(s, a)
<1>1. PracticeSets(b) = PracticeSets(a) /\ b.sets = a.sets
  BY DEF PracticeSets, SameDesign
<1>2. TrialRows(s, b, a.sets, "main")' = TrialRows(s, a, a.sets, "main")
  BY RunBanks, TrialRowsKept
<1>3. TrialRows(s, b, PracticeSets(a), "practice")' = TrialRows(s, a, PracticeSets(a), "practice")
  BY RunBanks, TrialRowsKept
<1> QED  BY <1>1, <1>2, <1>3 DEF Snapshot
-----------------------------------------------------------------------------
(* The trials of a session are as many as were promised.                   *)

\* A row for each item of a list.
LEMMA TrialRowsCount ==
    ASSUME BanksOK(banks), NEW sets \in Seq(Nat), NEW s, NEW run, NEW block
    PROVE  /\ IsFiniteSet(TrialRows(s, run, sets, block))
           /\ Cardinality(TrialRows(s, run, sets, block)) = Cardinality(Slots(sets))
           /\ \A t \in TrialRows(s, run, sets, block) : t.block = block /\ t.session = s
<1> DEFINE row(slot) == [session |-> s, slot |-> slot, item |-> ItemAt(sets, slot), block |-> block,
                         sources |-> {SourceBank(run, ItemAt(sets, slot).id)}]
           f == [slot \in Slots(sets) |-> row(slot)]
           T == TrialRows(s, run, sets, block)
<1>1. \A slot \in Slots(sets) : f[slot] = row(slot)
  OBVIOUS
<1>2. T = {row(slot) : slot \in Slots(sets)}
  BY DEF TrialRows
<1>3. \A slot \in Slots(sets) :
          row(slot).slot = slot /\ row(slot).block = block /\ row(slot).session = s
  OBVIOUS
<1> HIDE DEF row, T
<1>4. f \in Bijection(Slots(sets), T)
  <2>1. f \in [Slots(sets) -> T] /\ \A t \in T : \E slot \in Slots(sets) : f[slot] = t
    BY <1>1, <1>2
  <2>2. \A i, j \in Slots(sets) : f[i] = f[j] => i = j
    BY <1>1, <1>3
  <2> HIDE DEF f
  <2> QED  BY <2>1, <2>2 DEF Bijection, Injection, IsInjective, Surjection
<1> HIDE DEF f
<1>5. IsFiniteSet(Slots(sets)) /\ ExistsBijection(Slots(sets), T)
  BY <1>4, SlotsFinite DEF ExistsBijection
<1>6. IsFiniteSet(T) /\ Cardinality(T) = Cardinality(Slots(sets))
  BY <1>5, FS_Bijection
<1>7. \A t \in T : t.block = block /\ t.session = s
  BY <1>2, <1>3
<1> QED  BY <1>6, <1>7 DEF T

\* The snapshot has the promised number of rows.
LEMMA SnapshotCount ==
    ASSUME BanksOK(banks), NEW run, IsRun(run), NEW s
    PROVE  /\ Cardinality(Snapshot(s, run)) = ExpectedTrials(run)
           /\ \A t \in Snapshot(s, run) : t.session = s
<1> DEFINE P == TrialRows(s, run, PracticeSets(run), "practice")
           M == TrialRows(s, run, run.sets, "main")
<1>1. run.sets \in Seq(Nat) /\ PracticeSets(run) \in Seq(Nat)
  BY RunLists
<1>2. /\ IsFiniteSet(P) /\ Cardinality(P) = Cardinality(Slots(PracticeSets(run)))
      /\ \A t \in P : t.block = "practice" /\ t.session = s
  BY <1>1, TrialRowsCount
<1>3. /\ IsFiniteSet(M) /\ Cardinality(M) = Cardinality(Slots(run.sets))
      /\ \A t \in M : t.block = "main" /\ t.session = s
  BY <1>1, TrialRowsCount
<1>4. Snapshot(s, run) = P \cup M
  BY DEF Snapshot
<1> HIDE DEF P, M
<1>5. P \cap M = {}
  BY <1>2, <1>3
<1>6. Cardinality(P \cup M) = Cardinality(P) + Cardinality(M) - Cardinality(P \cap M)
  BY <1>2, <1>3, FS_Union
<1>7. Cardinality(P \cap M) = 0
  BY <1>5, FS_EmptySet
<1>8. Cardinality(P) \in Nat /\ Cardinality(M) \in Nat
  BY <1>2, <1>3, FS_CardinalityType
<1> QED  BY <1>2, <1>3, <1>4, <1>6, <1>7, <1>8 DEF ExpectedTrials, MainCount
-----------------------------------------------------------------------------
(* The invariant of the service.                                           *)

\* What a statement may do to the runs: keep the design, and activate what is
\* launchable.
RunsEvolve ==
    /\ DOMAIN runs' = DOMAIN runs
    /\ \A r \in DOMAIN runs :
           /\ SameDesign(runs[r], runs'[r]) /\ runs'[r].promised = runs[r].promised
           /\ runs[r].status # "draft" => runs'[r].status # "draft"
           /\ runs'[r].status # "draft" => Launchable(runs[r])

\* The runs stay sound.
LEMMA RunsKept ==
    ASSUME BanksGrow, RunsSound, RunsEvolve,
           \A h \in Researchers : pc'[h] = "insert" => pc[h] = "insert" /\ frame'[h] = frame[h]
    PROVE  RunsSound'
<1>1. ASSUME NEW r \in DOMAIN runs' PROVE RunSound(runs[r])'
  <2>1. /\ r \in DOMAIN runs /\ SameDesign(runs[r], runs'[r]) /\ RunSound(runs[r])
        /\ runs'[r].promised \/ runs'[r].status # "draft" => Launchable(runs[r])
    BY DEF RunsEvolve, RunsSound, RunSound
  <2> QED  BY <2>1, SoundKept
<1>2. ASSUME NEW h \in Researchers, pc'[h] = "insert" PROVE RunSound(frame[h].row)'
  <2>1. pc[h] = "insert" /\ frame'[h].row = frame[h].row /\ RunSound(frame[h].row)
    BY <1>2 DEF RunsSound
  <2>2. /\ SameDesign(frame[h].row, frame'[h].row)
        /\ frame'[h].row.promised \/ frame'[h].row.status # "draft" => Launchable(frame[h].row)
    BY <2>1 DEF SameDesign, RunSound
  <2> QED  BY <2>1, <2>2, SoundKept
<1> QED  BY <1>1, <1>2 DEF RunsSound

\* The sessions stay sound while no session changes.
LEMMA SessionsKept ==
    ASSUME BanksGrow, RunsSound, SessionsSound, UNCHANGED <<sessions, trials>>,
           \A r \in DOMAIN runs :
               /\ r \in DOMAIN runs' /\ SameDesign(runs[r], runs'[r])
               /\ runs[r].status # "draft" => runs'[r].status # "draft"
    PROVE  SessionsSound'
<1>1. ASSUME NEW s \in DOMAIN sessions PROVE SessionSound(s)'
  <2> DEFINE r == sessions[s].run
  <2>1. /\ r \in DOMAIN runs /\ runs[r].status # "draft"
        /\ sessions[s].expected = ExpectedTrials(runs[r])
        /\ TrialsOf(s) = IF sessions[s].status = "created" THEN {} ELSE Snapshot(s, runs[r])
    BY DEF SessionsSound, SessionSound
  <2>2. /\ r \in DOMAIN runs' /\ SameDesign(runs[r], runs'[r]) /\ runs'[r].status # "draft"
        /\ SelectedBanks(runs[r]) \subseteq DOMAIN banks
    BY <2>1 DEF RunsSound, RunSound
  <2>3. ExpectedTrials(runs[r])' = ExpectedTrials(runs[r])
    BY <2>2, CountsKept
  <2>4. Snapshot(s, runs[r])' = Snapshot(s, runs[r])
    BY <2>2, SnapshotKept
  <2>5. TrialsOf(s)' = TrialsOf(s)
    BY DEF TrialsOf
  <2> QED  BY <2>1, <2>2, <2>3, <2>4, <2>5 DEF SessionSound
<1> QED  BY <1>1 DEF SessionsSound

\* The backups stay whole while sessions under way keep their trials.
LEMMA BackupsKept ==
    ASSUME BackupsWhole, UNCHANGED backupVars,
           \A s \in DOMAIN sessions : sessions[s].status = "in_progress" =>
               /\ s \in DOMAIN sessions' /\ sessions'[s].status = "in_progress"
               /\ TrialsOf(s)' = TrialsOf(s)
    PROVE  BackupsWhole'
<1>1. ASSUME NEW copy, UnderWay(copy)
      PROVE  UnderWay(copy)' /\ \A rows : Whole(copy, rows) => Whole(copy, rows)'
  BY <1>1 DEF UnderWay, Whole
<1>2. reading' = reading /\ archives' = archives
  BY DEF backupVars
<1>3. Len(reading) >= 4 => Len(reading) >= 3
  BY DEF BackupsWhole
<1> QED  BY <1>1, <1>2, <1>3 DEF BackupsWhole
-----------------------------------------------------------------------------
\* A form that was previewed gives a sound run.
LEMMA CreatedSound ==
    ASSUME NEW form \in Forms, Previewed(form), NEW slug
    PROVE  RunSound(Created(form, slug))
<1> DEFINE row == Created(form, slug)
           asked == [form EXCEPT !.family = ResolvedFamily(form)]
<1>1. /\ row.status = "draft" /\ row.promised = Promised(form)
      /\ row.experiment = form.experiment /\ row.family = ResolvedFamily(form)
      /\ row.sets = form.sets /\ row.practice = form.practice
      /\ row.multi = form.multi /\ row.nBlocks = form.nBlocks
  BY DEF Created
<1>2. /\ asked.experiment = form.experiment /\ asked.family = ResolvedFamily(form)
      /\ asked.sets = form.sets /\ asked.practice = form.practice
      /\ asked.multi = form.multi /\ asked.nBlocks = form.nBlocks
  BY FormAssumption
<1>3. Promised(form) => Launchable(asked)
  BY DEF Promised
<1> HIDE DEF row, asked
<1>4. Launchable(asked) => Launchable(row)
  BY <1>1, <1>2 DEF Launchable, ModeFits, NoOverlap, ExpectedTrials, MainCount, BlocksFilled,
                    PracticeSets
<1>5. SelectedBanks(row) = SelectedBanks(form)
  BY <1>1 DEF SelectedBanks, PracticeSets
<1>6. \A b \in SelectedBanks(form) : /\ b \in DOMAIN banks /\ banks[b].status \in RunCompatible
                                    /\ banks[b].family = ResolvedFamily(form)
  BY DEF Previewed, BankFamilies
<1>7. RunSound(row)
  BY <1>1, <1>3, <1>4, <1>5, <1>6 DEF RunSound
<1> QED  BY <1>7 DEF row

\* What is proved of a request.
ServiceKept == RunsSound' /\ SessionsSound' /\ BackupsWhole'

\* The requests that touch neither banks nor sessions.
LEMMA ResearcherServes ==
    ASSUME ServiceRows, RunsSound, SessionsSound, BackupsWhole, UNCHANGED backupVars,
           NEW h \in Researchers,
           \/ \E form \in Forms : BeginCreate(h, form)
           \/ FinishCreate(h) \/ FailRequest(h)
           \/ \E r \in DOMAIN runs : ReadRun(h, r)
           \/ ProbeSlug(h) \/ UpdateSlug(h)
    PROVE  ServiceKept
<1>1. UNCHANGED <<banks, sessions, trials>>
  BY DEF BeginCreate, FinishCreate, FailRequest, ReadRun, ProbeSlug, UpdateSlug
<1>2. BanksGrow
  BY <1>1 DEF BanksGrow
<1>3. BackupsWhole'
  <2>1. \A s : TrialsOf(s)' = TrialsOf(s)
    BY <1>1 DEF TrialsOf
  <2> QED  BY <1>1, <2>1, BackupsKept
<1>4. \A r \in DOMAIN runs : SameDesign(runs[r], runs[r])
  BY DEF SameDesign
<1>5. ASSUME UNCHANGED runs PROVE RunsEvolve /\ SessionsSound'
  <2>1. SessionsSound'
    BY <1>1, <1>2, <1>4, <1>5, SessionsKept
  <2> QED  BY <1>4, <1>5, <2>1 DEF RunsEvolve, RunsSound, RunSound
<1>6. ASSUME NEW label \in {"idle", "probe", "update"}, pc' = [pc EXCEPT ![h] = label],
             NEW f, frame' = [frame EXCEPT ![h] = f]
      PROVE  \A g \in Researchers : pc'[g] = "insert" => pc[g] = "insert" /\ frame'[g] = frame[g]
  BY <1>6 DEF ServiceRows, HandlersOK
<1>7. ASSUME NEW form \in Forms, BeginCreate(h, form) PROVE RunsSound' /\ SessionsSound'
  <2> DEFINE row == Created(form, FreeSlug(form.base))
  <2>1. /\ frame' = [frame EXCEPT ![h] = [run |-> 0, row |-> row]]
        /\ pc' = [pc EXCEPT ![h] = "insert"] /\ UNCHANGED <<banks, runs>>
    BY <1>7 DEF BeginCreate
  <2>2. RunSound(row)
    BY <1>7, CreatedSound DEF BeginCreate
  <2> HIDE DEF row
  <2>3. \A g \in Researchers :
            /\ pc'[g] = IF g = h THEN "insert" ELSE pc[g]
            /\ frame'[g] = IF g = h THEN [run |-> 0, row |-> row] ELSE frame[g]
    BY <2>1 DEF ServiceRows, HandlersOK
  <2>4. \A g \in Researchers : pc'[g] = "insert" => RunSound(frame'[g].row)
    BY <2>2, <2>3 DEF RunsSound
  <2>5. ASSUME NEW run PROVE RunSound(run)' <=> RunSound(run)
    BY <2>1 DEF RunSound, Launchable, ExpectedTrials, MainCount, BlocksFilled, Slots
  <2>6. RunsSound'
    BY <2>1, <2>4, <2>5 DEF RunsSound
  <2> QED  BY <1>5, <2>1, <2>6
<1>8. ASSUME FinishCreate(h) PROVE RunsSound' /\ SessionsSound'
  <2> DEFINE row == frame[h].row
  <2>1. /\ runs' = Append(runs, row) /\ Len(runs) < MaxRuns /\ pc[h] = "insert"
        /\ pc' = [pc EXCEPT ![h] = "idle"] /\ frame' = [frame EXCEPT ![h] = NoFrame]
    BY <1>8 DEF FinishCreate
  <2>2. IsRun(row) /\ RunSound(row)
    BY <2>1 DEF ServiceRows, HandlersOK, RunsSound
  <2> HIDE DEF row
  <2>3. /\ DOMAIN runs' = DOMAIN runs \cup {Len(runs) + 1}
        /\ \A r \in DOMAIN runs : runs'[r] = runs[r]
        /\ runs'[Len(runs) + 1] = row
    BY <2>1, <2>2, RunAppended DEF ServiceRows
  <2>4. \A r \in DOMAIN runs' : RunSound(runs'[r])
    BY <2>2, <2>3 DEF RunsSound
  <2>5. ASSUME NEW run PROVE RunSound(run)' <=> RunSound(run)
    BY <1>1 DEF RunSound, Launchable, ExpectedTrials, MainCount, BlocksFilled, Slots
  <2>6. \A g \in Researchers : pc'[g] = "insert" => RunSound(frame'[g].row)
    BY <1>6, <2>1 DEF RunsSound
  <2>7. RunsSound'
    BY <2>4, <2>5, <2>6 DEF RunsSound
  <2>8. \A r \in DOMAIN runs :
            /\ r \in DOMAIN runs' /\ SameDesign(runs[r], runs'[r])
            /\ runs[r].status # "draft" => runs'[r].status # "draft"
    BY <1>4, <2>3
  <2>9. SessionsSound'
    BY <1>1, <1>2, <2>8, SessionsKept
  <2> QED  BY <2>7, <2>9
<1>9. ASSUME FailRequest(h) \/ (\E r \in DOMAIN runs : ReadRun(h, r)) \/ ProbeSlug(h)
      PROVE  RunsSound' /\ SessionsSound'
  <2>1. UNCHANGED runs
    BY <1>9 DEF FailRequest, ReadRun, ProbeSlug
  <2>2. PICK label \in {"idle", "probe", "update"} :
            pc' = [pc EXCEPT ![h] = label] /\ \E f : frame' = [frame EXCEPT ![h] = f]
    BY <1>9 DEF FailRequest, ReadRun, ProbeSlug
  <2>3. \A g \in Researchers : pc'[g] = "insert" => pc[g] = "insert" /\ frame'[g] = frame[g]
    BY <1>6, <2>2
  <2> QED  BY <1>2, <1>5, <2>1, <2>3, RunsKept
<1>10. ASSUME UpdateSlug(h) PROVE RunsSound' /\ SessionsSound'
  <2> DEFINE r == frame[h].run
             slug == frame[h].row.slug
             row == [runs[r] EXCEPT !.slug = slug]
  <2>1. r \in DOMAIN runs /\ slug \in Slugs
    BY <1>10 DEF UpdateSlug, ServiceRows, HandlersOK, IsRun
  <2>2. /\ runs' = [runs EXCEPT ![r] = row] /\ pc' = [pc EXCEPT ![h] = "idle"]
        /\ frame' = [frame EXCEPT ![h] = NoFrame]
    BY <1>10, <2>1 DEF UpdateSlug
  <2> HIDE DEF r, slug
  <2>3. IsRun(runs[r])
    BY <2>1, TableSeq DEF RunsOK, ServiceRows
  <2>4. /\ SameDesign(runs[r], row) /\ row.promised = runs[r].promised
        /\ row.status = runs[r].status
    BY <2>3 DEF IsRun, SameDesign
  <2>5. /\ DOMAIN runs' = DOMAIN runs
        /\ \A q \in DOMAIN runs : runs'[q] = IF q = r THEN row ELSE runs[q]
    BY <2>1, <2>2 DEF ServiceRows
  <2> HIDE DEF row
  <2>6. RunsEvolve
    BY <1>4, <2>4, <2>5 DEF RunsEvolve, RunsSound, RunSound
  <2>7. \A g \in Researchers : pc'[g] = "insert" => pc[g] = "insert" /\ frame'[g] = frame[g]
    BY <1>6, <2>2
  <2>8. RunsSound'
    BY <1>2, <2>6, <2>7, RunsKept
  <2>9. SessionsSound'
    BY <1>1, <1>2, <2>6, SessionsKept DEF RunsEvolve
  <2> QED  BY <2>8, <2>9
<1> QED  BY <1>3, <1>7, <1>8, <1>9, <1>10 DEF ServiceKept
\* A start gives a session its trials, all of them.
LEMMA StartServes ==
    ASSUME ServiceRows, RunsSound, SessionsSound, BackupsWhole, UNCHANGED backupVars,
           NEW s \in DOMAIN sessions, StartSession(s)
    PROVE  ServiceKept
<1> DEFINE r == sessions[s].run
           new == Snapshot(s, runs[r])
<1>1. /\ UNCHANGED <<banks, runs, pc, frame>> /\ r \in DOMAIN runs
      /\ sessions[s].status = "created"
  BY DEF StartSession
<1>2. /\ runs[r].status # "draft" /\ sessions[s].expected = ExpectedTrials(runs[r])
      /\ TrialsOf(s) = {}
  BY <1>1 DEF SessionsSound, SessionSound
<1>3. IsRun(runs[r]) /\ IsSession(sessions[s])
  BY <1>1, TableSeq DEF ServiceRows, RunsOK, SessionsOK
<1>4. Cardinality(new) = sessions[s].expected /\ \A t \in new : t.session = s
  BY <1>2, <1>3, SnapshotCount DEF ServiceRows
<1>5. trials' = trials \cup new
  BY <1>2 DEF StartSession
<1>6. /\ DOMAIN sessions' = DOMAIN sessions
      /\ \A q \in DOMAIN sessions : q # s => sessions'[q] = sessions[q]
      /\ sessions'[s].run = r /\ sessions'[s].status = "in_progress"
      /\ sessions'[s].expected = sessions[s].expected
  <2> DEFINE expected == IF new # {} THEN ExpectedTrials(runs[r]) ELSE sessions[s].expected
  <2>1. Cardinality(TrialsOf(s) \cup new) = sessions[s].expected
    BY <1>2, <1>4
  <2>2. sessions' = [sessions EXCEPT ![s].status = "in_progress", ![s].expected = expected]
    BY <1>2, <2>1 DEF StartSession
  <2>3. expected = sessions[s].expected
    BY <1>2
  <2> HIDE DEF expected, new
  <2>4. \A q \in DOMAIN sessions : q # s => sessions'[q] = sessions[q]
    BY <2>2
  <2> DEFINE b == sessions[s]
  <2>5. /\ sessions'[s] = [[b EXCEPT !.status = "in_progress"] EXCEPT !.expected = expected]
        /\ b = [run |-> b.run, status |-> b.status, expected |-> b.expected]
    BY <1>3, <2>2 DEF IsSession
  <2> HIDE DEF b
  <2>6. [b EXCEPT !.status = "in_progress"] = [run |-> b.run, status |-> "in_progress", expected |-> b.expected]
    BY <2>5
  <2>7. sessions'[s] = [run |-> b.run, status |-> "in_progress", expected |-> expected]
    BY <2>5, <2>6
  <2>8. DOMAIN sessions' = DOMAIN sessions
    BY <2>2
  <2> QED  BY <2>3, <2>4, <2>7, <2>8 DEF b
<1> HIDE DEF new
<1>7. BanksGrow /\ \A q \in DOMAIN runs : SameDesign(runs[q], runs[q])
  BY <1>1 DEF BanksGrow, SameDesign
<1>8. \A q : q # s => TrialsOf(q)' = TrialsOf(q)
  BY <1>4, <1>5 DEF TrialsOf
<1>9. TrialsOf(s)' = new
  BY <1>2, <1>4, <1>5 DEF TrialsOf
<1>10. ASSUME NEW q \in DOMAIN sessions PROVE SessionSound(q)'
  <2>0. PICK p \in DOMAIN runs : p = sessions[q].run
    BY DEF SessionsSound, SessionSound
  <2>1. /\ runs[p].status # "draft"
        /\ sessions[q].expected = ExpectedTrials(runs[p])
        /\ TrialsOf(q) = IF sessions[q].status = "created" THEN {} ELSE Snapshot(q, runs[p])
    BY <2>0 DEF SessionsSound, SessionSound
  <2>2. SelectedBanks(runs[p]) \subseteq DOMAIN banks /\ SameDesign(runs[p], runs[p])
    BY <1>7, <2>1 DEF RunsSound, RunSound
  <2>3. ExpectedTrials(runs[p])' = ExpectedTrials(runs[p]) /\ Snapshot(q, runs[p])' = Snapshot(q, runs[p])
    BY <1>1, <1>7, <2>2, CountsKept, SnapshotKept
  <2>4. sessions'[q].run = p /\ sessions'[q].expected = sessions[q].expected
    BY <1>6, <2>0
  <2>5. CASE q = s
    BY <1>1, <2>0, <1>6, <1>9, <2>1, <2>3, <2>4, <2>5 DEF SessionSound, new
  <2>6. CASE q # s
    BY <1>1, <1>6, <1>8, <2>1, <2>3, <2>4, <2>6 DEF SessionSound
  <2> QED  BY <2>5, <2>6
<1>11. SessionsSound'
  <2>1. \A t \in trials' : t.session \in DOMAIN sessions'
    BY <1>4, <1>5, <1>6 DEF SessionsSound
  <2> QED  BY <1>6, <1>10, <2>1 DEF SessionsSound
<1>12. RunsSound'
  <2>1. RunsEvolve
    BY <1>1, <1>7 DEF RunsEvolve, RunsSound, RunSound
  <2> QED  BY <1>1, <1>7, <2>1, RunsKept
<1>13. BackupsWhole'
  <2>1. \A q \in DOMAIN sessions : sessions[q].status = "in_progress" =>
            /\ q \in DOMAIN sessions' /\ sessions'[q].status = "in_progress"
            /\ TrialsOf(q)' = TrialsOf(q)
    BY <1>1, <1>6, <1>8
  <2> QED  BY <2>1, BackupsKept
<1> QED  BY <1>11, <1>12, <1>13 DEF ServiceKept

\* The requests of one statement.
LEMMA StatementServes ==
    ASSUME ServiceRows, RunsSound, SessionsSound, BackupsWhole, UNCHANGED backupVars,
           \/ \E file \in Files : Upload(file)
           \/ \E r \in DOMAIN runs : Activate(r) \/ Close(r) \/ CreateSession(r)
           \/ \E s \in DOMAIN sessions : StartSession(s)
    PROVE  ServiceKept
<1>1. \A r \in DOMAIN runs : SameDesign(runs[r], runs[r])
  BY DEF SameDesign
<1>2. ASSUME BanksGrow, RunsEvolve, UNCHANGED <<sessions, trials, pc, frame>> PROVE ServiceKept
  <2>1. RunsSound'
    BY <1>2, RunsKept
  <2>2. SessionsSound'
    BY <1>2, SessionsKept DEF RunsEvolve
  <2>3. BackupsWhole'
    <3>1. \A s : TrialsOf(s)' = TrialsOf(s)
      BY <1>2 DEF TrialsOf
    <3> QED  BY <1>2, <3>1, BackupsKept
  <2> QED  BY <2>1, <2>2, <2>3 DEF ServiceKept
<1>3. ASSUME NEW file \in Files, Upload(file) PROVE ServiceKept
  <2>1. /\ Len(banks) < MaxBanks /\ banks' = Append(banks, Bank(Rows(file)))
        /\ UNCHANGED <<runs, sessions, trials, pc, frame>>
    BY <1>3 DEF Upload
  <2>2. IsBank(Bank(Rows(file)))
    BY <1>3, UploadedBank DEF Upload
  <2>3. BanksGrow
    BY <2>1, <2>2, BankAppended DEF BanksGrow, ServiceRows
  <2>4. RunsEvolve
    BY <1>1, <2>1 DEF RunsEvolve, RunsSound, RunSound
  <2> QED  BY <1>2, <2>1, <2>3, <2>4
<1>4. ASSUME NEW r \in DOMAIN runs, Activate(r) \/ Close(r) PROVE ServiceKept
  <2>1. UNCHANGED <<banks, sessions, trials, pc, frame>> /\ Launchable(runs[r])
    BY <1>4 DEF Activate, Close, RunsSound, RunSound
  <2>2. PICK status \in {"active", "closed"} :
            runs' = [runs EXCEPT ![r] = [runs[r] EXCEPT !.status = status]]
    BY <1>4 DEF Activate, Close
  <2> DEFINE row == [runs[r] EXCEPT !.status = status]
  <2>3. IsRun(runs[r])
    BY TableSeq DEF RunsOK, ServiceRows
  <2>4. SameDesign(runs[r], row) /\ row.promised = runs[r].promised /\ row.status = status
    BY <2>3 DEF IsRun, SameDesign
  <2>5. /\ DOMAIN runs' = DOMAIN runs
        /\ \A q \in DOMAIN runs : runs'[q] = IF q = r THEN row ELSE runs[q]
    BY <2>2
  <2> HIDE DEF row
  <2>6. RunsEvolve
    BY <1>1, <2>1, <2>4, <2>5 DEF RunsEvolve, RunsSound, RunSound
  <2> QED  BY <1>2, <2>1, <2>6 DEF BanksGrow
<1>5. ASSUME NEW r \in DOMAIN runs, CreateSession(r) PROVE ServiceKept
  <2> DEFINE row == [run |-> r, status |-> "created", expected |-> ExpectedTrials(runs[r])]
  <2>0. PICK new : new = Len(sessions) + 1
    OBVIOUS
  <2>1. /\ Len(sessions) < MaxSessions /\ sessions' = Append(sessions, row)
        /\ UNCHANGED <<banks, runs, trials, pc, frame>> /\ runs[r].status = "active"
    BY <1>5 DEF CreateSession
  <2>2. IsSession(row)
    <3>1. r \in 1..MaxRuns
      BY TableSeq, BoundAssumption DEF RunsOK, ServiceRows
    <3>2. ExpectedTrials(runs[r]) \in Nat
      BY ExpectedNat, TableSeq DEF RunsOK, ServiceRows
    <3> QED  BY <3>1, <3>2 DEF IsSession
  <2>3. /\ row.run = r /\ row.status = "created" /\ row.expected = ExpectedTrials(runs[r])
    OBVIOUS
  <2> HIDE DEF row
  <2>4. /\ DOMAIN sessions' = DOMAIN sessions \cup {new} /\ new \notin DOMAIN sessions
        /\ \A s \in DOMAIN sessions : sessions'[s] = sessions[s]
        /\ sessions'[new] = row
    BY <2>0, <2>1, <2>2, SessionAppended DEF ServiceRows
  <2>5. BanksGrow /\ RunsEvolve
    BY <1>1, <2>1 DEF BanksGrow, RunsEvolve, RunsSound, RunSound
  <2>6. RunsSound'
    BY <2>1, <2>5, RunsKept
  <2>7. \A s : TrialsOf(s)' = TrialsOf(s)
    BY <2>1 DEF TrialsOf
  <2>8. BackupsWhole'
    BY <2>4, <2>7, BackupsKept
  <2>9. ASSUME NEW q \in DOMAIN runs
        PROVE  /\ ExpectedTrials(runs[q])' = ExpectedTrials(runs[q])
               /\ \A s : Snapshot(s, runs[q])' = Snapshot(s, runs[q])
    <3>1. SelectedBanks(runs[q]) \subseteq DOMAIN banks /\ SameDesign(runs[q], runs[q])
      BY <1>1 DEF RunsSound, RunSound
    <3> QED  BY <2>1, <2>5, <3>1, CountsKept, SnapshotKept
  <2>10. ASSUME NEW s \in DOMAIN sessions PROVE SessionSound(s)'
    <3>1. SessionSound(s)
      BY DEF SessionsSound
    <3> QED  BY <2>1, <2>4, <2>7, <2>9, <3>1 DEF SessionSound
  <2>11. SessionSound(new)'
    <3>1. TrialsOf(new) = {}
      BY <2>4 DEF TrialsOf, SessionsSound
    <3> QED  BY <2>1, <2>3, <2>4, <2>7, <2>9, <3>1 DEF SessionSound
  <2>12. SessionsSound'
    BY <2>1, <2>4, <2>10, <2>11 DEF SessionsSound
  <2> QED  BY <2>6, <2>8, <2>12 DEF ServiceKept
<1> QED  BY <1>3, <1>4, <1>5, StartServes

-----------------------------------------------------------------------------
(* A backup reads the sessions before the trials.                          *)

\* What is read of the sessions, and then of their trials.
LEMMA SelectWhole ==
    ASSUME ServiceRows
    PROVE  /\ UnderWay(Select("sessions"))
           /\ \A copy : UnderWay(copy) => Whole(copy, Select("trials"))
<1>1. UnderWay(Select("sessions"))
  <2> DEFINE copy == Select("sessions")
  <2>1. DOMAIN copy = DOMAIN sessions
    BY DEF Select
  <2>2. ASSUME NEW s \in DOMAIN sessions PROVE copy[s].status = sessions[s].status
    <3> DEFINE row == sessions[s]
    <3>1. IsSession(row) /\ copy[s] = [row EXCEPT !.expected = 0]
      BY TableSeq DEF Select, ServiceRows, SessionsOK
    <3> HIDE DEF row, copy
    <3>2. copy[s].status = row.status
      BY <3>1 DEF IsSession
    <3> QED  BY <3>2 DEF row
  <2> HIDE DEF copy
  <2>3. UnderWay(copy)
    BY <2>1, <2>2 DEF UnderWay
  <2> QED  BY <2>3 DEF copy
<1>2. ASSUME NEW s
      PROVE  {t \in Select("trials") : t.session = s} = {[t EXCEPT !.sources = {}] : t \in TrialsOf(s)}
  <2>1. Select("trials") = {[t EXCEPT !.sources = {}] : t \in trials}
    BY DEF Select
  <2>2. \A t \in trials : [t EXCEPT !.sources = {}].session = t.session
    BY DEF ServiceRows, TrialsOK, IsTrial
  <2> QED  BY <2>1, <2>2 DEF TrialsOf
<1> QED  BY <1>1, <1>2 DEF Whole

\* Reading and writing of backups.
LEMMA BackupServes ==
    ASSUME ServiceRows, BackupsOK, RunsSound, SessionsSound, BackupsWhole,
           BeginBackup \/ ReadTable \/ FinishBackup
    PROVE  ServiceKept
<1>1. UNCHANGED setupVars
  BY DEF BeginBackup, ReadTable, FinishBackup
<1>2. BanksGrow /\ RunsEvolve
  <2>1. \A r \in DOMAIN runs : SameDesign(runs[r], runs[r])
    BY DEF SameDesign
  <2> QED  BY <1>1, <2>1 DEF setupVars, BanksGrow, RunsEvolve, RunsSound, RunSound
<1>3. RunsSound'
  BY <1>1, <1>2, RunsKept DEF setupVars
<1>4. SessionsSound'
  BY <1>1, <1>2, SessionsKept DEF setupVars, RunsEvolve
<1>5. ASSUME NEW copy
      PROVE  (UnderWay(copy)' <=> UnderWay(copy)) /\ \A rows : Whole(copy, rows)' <=> Whole(copy, rows)
  BY <1>1 DEF setupVars, UnderWay, Whole, TrialsOf
<1>6. ASSUME BeginBackup PROVE BackupsWhole'
  <2>1. reading' = <<Select(Tables[1])>> /\ UNCHANGED archives
    BY <1>6 DEF BeginBackup
  <2>2. Len(reading') = 1
    BY <2>1, OneRow
  <2>3. ~(Len(reading') >= 3) /\ ~(Len(reading') >= 4)
    BY <2>2
  <2> QED  BY <1>5, <2>1, <2>3 DEF BackupsWhole
<1>7. ASSUME ReadTable PROVE BackupsWhole'
  <2> DEFINE k == Len(reading)
  <2>1. reading' = Append(reading, Select(Tables[k + 1])) /\ UNCHANGED archives /\ k < 4
    BY <1>7, TableNames DEF ReadTable
  <2>2. /\ k \in Nat /\ Len(reading') = k + 1 /\ \A i \in 1..k : reading'[i] = reading[i]
        /\ reading'[k + 1] = Select(Tables[k + 1])
    BY <2>1, TableAppend, TableSeq DEF BackupsOK
  <2> HIDE DEF k
  <2>3. k + 1 >= 3 => UnderWay(reading'[3])
    <3>1. CASE k = 2
      BY <2>2, <3>1, Selected, SelectWhole
    <3>2. CASE k = 3
      BY <2>2, <3>2 DEF BackupsWhole, k
    <3> QED  BY <2>1, <2>2, <3>1, <3>2
  <2>4. k + 1 >= 4 => Whole(reading'[3], reading'[4])
    <3>1. CASE k = 3
      BY <2>2, <3>1, Selected, SelectWhole DEF BackupsWhole, k
    <3> QED  BY <2>1, <2>2, <3>1
  <2> QED  BY <1>5, <2>1, <2>2, <2>3, <2>4 DEF BackupsWhole
<1>8. ASSUME FinishBackup PROVE BackupsWhole'
  <2>1. /\ \A a \in 1..Len(archives') :
               archives'[a] = Copy \/ \E b \in 1..Len(archives) : archives'[a] = archives[b]
        /\ Len(reading) = 4 /\ reading' = <<>> /\ Table(archives')
    BY <1>8, FinishArchives
  <2>2. DOMAIN archives' = 1..Len(archives') /\ DOMAIN archives = 1..Len(archives)
    BY <2>1, TableSeq DEF BackupsOK
  <2>3. UnderWay(Copy["sessions"]) /\ Whole(Copy["sessions"], Copy["trials"])
    BY <2>1, CopyTables DEF BackupsWhole
  <2>4. \A a \in DOMAIN archives' : /\ UnderWay(archives'[a]["sessions"])
                                    /\ Whole(archives'[a]["sessions"], archives'[a]["trials"])
    BY <2>1, <2>2, <2>3 DEF BackupsWhole
  <2>5. ~(Len(reading') >= 3) /\ ~(Len(reading') >= 4)
    BY <2>1, NoRows
  <2> QED  BY <1>5, <2>4, <2>5 DEF BackupsWhole
<1> QED  BY <1>3, <1>4, <1>6, <1>7, <1>8 DEF ServiceKept
-----------------------------------------------------------------------------
(* The invariant before a restore.                                         *)

\* No session has started and nothing is archived; a legacy row was promised
\* nothing.
LEMMA ServiceInit == Init => ServiceInv
<1> SUFFICES ASSUME Init PROVE ServiceInv
  OBVIOUS
<1>1. /\ sessions = <<>> /\ trials = {} /\ reading = <<>> /\ archives = <<>>
      /\ \A h \in Researchers : pc[h] = "idle"
  BY DEF Init, SetupInit
<1>2. BackupsWhole
  <2>1. ~(Len(reading) >= 3) /\ ~(Len(reading) >= 4)
    BY <1>1, NoRows
  <2>2. DOMAIN archives = {}
    BY <1>1, NoRows
  <2> QED  BY <2>1, <2>2 DEF BackupsWhole
<1>3. SessionsSound
  BY <1>1, NoRows DEF SessionsSound
<1>4. RunsSound
  <2>1. PICK form \in Forms : runs = IF WithLegacyRun THEN <<LegacyRun(form.base)>> ELSE <<>>
    BY DEF Init, SetupInit
  <2>2. ASSUME NEW r \in DOMAIN runs PROVE RunSound(runs[r])
    <3>1. WithLegacyRun
      BY <2>1, NoRows
    <3> DEFINE run == LegacyRun(form.base)  bank == LegacyBank
    <3>2. /\ run.sets = <<1>> /\ run.practice = NoBank /\ run.family = ""
          /\ run.promised = FALSE /\ run.status = "draft"
      BY DEF LegacyRun
    <3> HIDE DEF run, bank
    <3>3. runs = <<run>> /\ banks = <<bank>>
      BY <2>1, <3>1 DEF run, bank, Init, SetupInit
    <3>4. runs[r] = run /\ DOMAIN banks = {1}
      BY <3>3, OneRow
    <3>5. PracticeSets(run) = <<>>
      BY <3>2 DEF PracticeSets
    <3>6. SelectedBanks(run) = {1}
      <4>1. DOMAIN run.sets = {1} /\ run.sets[1] = 1
        <5> DEFINE bank1 == 1
        <5>1. run.sets = <<bank1>>
          BY <3>2
        <5> HIDE DEF bank1
        <5>2. DOMAIN run.sets = {1} /\ run.sets[1] = bank1
          BY <5>1, OneRow
        <5> QED  BY <5>2 DEF bank1
      <4>2. DOMAIN PracticeSets(run) = {}
        BY <3>5, NoRows
      <4>3. ToSet(run.sets) = {1} /\ ToSet(PracticeSets(run)) = {}
        BY <4>1, <4>2 DEF ToSet
      <4> QED  BY <4>3 DEF SelectedBanks
    <3> QED  BY <3>2, <3>4, <3>6 DEF RunSound, Given
  <2> QED  BY <1>1, <2>2 DEF RunsSound
<1> QED  BY <1>2, <1>3, <1>4 DEF ServiceInv

\* Requests and backups keep it, a restore ends it.
LEMMA ServiceNext == RowsInv /\ ServiceInv /\ [Next]_vars => ServiceInv'
<1> SUFFICES ASSUME RowsInv, ServiceInv, [Next]_vars PROVE ServiceInv'
  OBVIOUS
<1>1. ServiceRows /\ BackupsOK
  BY DEF RowsInv, ServiceRows
<1>2. CASE \E a \in DOMAIN archives : Restore(archives[a])
  BY <1>2 DEF Restore, ServiceInv
<1>3. ASSUME restored' = restored, ~restored => ServiceKept PROVE ServiceInv'
  BY <1>3 DEF ServiceInv, ServiceKept
<1>4. ASSUME ~restored PROVE RunsSound /\ SessionsSound /\ BackupsWhole
  BY <1>4 DEF ServiceInv
<1>5. CASE Setup /\ UNCHANGED backupVars
  <2>1. restored' = restored
    BY <1>5 DEF backupVars
  <2>2. ASSUME ~restored PROVE ServiceKept
    <3>1. ASSUME NEW h \in Researchers,
                 \/ \E form \in Forms : BeginCreate(h, form)
                 \/ FinishCreate(h) \/ FailRequest(h)
                 \/ \E r \in DOMAIN runs : ReadRun(h, r)
                 \/ ProbeSlug(h) \/ UpdateSlug(h)
          PROVE  ServiceKept
      BY <1>1, <1>4, <1>5, <2>2, <3>1, ResearcherServes
    <3>2. ASSUME \/ \E file \in Files : Upload(file)
                 \/ \E r \in DOMAIN runs : Activate(r) \/ Close(r) \/ CreateSession(r)
                 \/ \E s \in DOMAIN sessions : StartSession(s)
          PROVE  ServiceKept
      BY <1>1, <1>4, <1>5, <2>2, <3>2, StatementServes
    <3> QED  BY <1>5, <3>1, <3>2 DEF Setup
  <2> QED  BY <1>3, <2>1, <2>2
<1>6. CASE BeginBackup \/ ReadTable \/ FinishBackup
  <2>1. restored' = restored
    BY <1>6 DEF BeginBackup, ReadTable, FinishBackup
  <2>2. ASSUME ~restored PROVE ServiceKept
    BY <1>1, <1>4, <1>6, <2>2, BackupServes
  <2> QED  BY <1>3, <2>1, <2>2
<1>7. CASE UNCHANGED vars
  <2>1. /\ UNCHANGED <<banks, runs, sessions, trials, pc, frame>> /\ UNCHANGED backupVars
        /\ restored' = restored
    BY <1>7 DEF vars, backupVars
  <2>2. ASSUME ~restored PROVE ServiceKept
    <3>1. BanksGrow /\ RunsEvolve
      <4>1. \A r \in DOMAIN runs : SameDesign(runs[r], runs[r])
        BY DEF SameDesign
      <4> QED  BY <1>4, <2>1, <2>2, <4>1 DEF BanksGrow, RunsEvolve, RunsSound, RunSound
    <3>2. RunsSound'
      BY <1>4, <2>1, <2>2, <3>1, RunsKept
    <3>3. SessionsSound'
      BY <1>4, <2>1, <2>2, <3>1, SessionsKept DEF RunsEvolve
    <3>4. \A s : TrialsOf(s)' = TrialsOf(s)
      BY <2>1 DEF TrialsOf
    <3>5. BackupsWhole'
      BY <1>4, <2>1, <2>2, <3>4, BackupsKept
    <3> QED  BY <3>2, <3>3, <3>5 DEF ServiceKept
  <2> QED  BY <1>3, <2>1, <2>2
<1> QED  BY <1>2, <1>5, <1>6, <1>7 DEF Next

\* It is an invariant, with that of the rows.
LEMMA ServiceInvariant == Spec => [](RowsInv /\ ServiceInv)
BY RowsInvariant, ServiceInit, ServiceNext, PTL DEF Spec

\* What the preview of a run promised about its activation stays true until a
\* restore (preview_run, _validate_launchability).
THEOREM PromisesAreKept == Spec => []LaunchPromiseKeptBefore
<1>1. ServiceInv => LaunchPromiseKeptBefore
  BY DEF ServiceInv, RunsSound, RunSound, LaunchPromiseKeptBefore, LaunchPromiseKept
<1> QED  BY <1>1, ServiceInvariant, PTL

\* No session under way is in an archive without all of its trials
\* (TABLE_SPECS, create_logical_backup).
THEOREM ArchivesAreWhole == Spec => []ArchiveWhole
<1>1. ServiceInv => ArchiveWhole
  BY DEF ServiceInv, BackupsWhole, Whole, ArchiveWhole
<1> QED  BY <1>1, ServiceInvariant, PTL

-----------------------------------------------------------------------------
(* What a started session is served passes the integrity check.            *)

\* The items of a list of known banks.
LEMMA SlotPlaces ==
    ASSUME NEW sets, ToSet(sets) \subseteq DOMAIN banks
    PROVE  /\ \A slot \in Slots(sets) :
                  /\ slot[1] \in DOMAIN sets
                  /\ slot[2] \in DOMAIN banks[sets[slot[1]]].items
                  /\ ItemAt(sets, slot) = banks[sets[slot[1]]].items[slot[2]]
           /\ \A k \in DOMAIN sets : \A i \in DOMAIN banks[sets[k]].items :
                  /\ <<k, i>> \in Slots(sets)
                  /\ ItemAt(sets, <<k, i>>) = banks[sets[k]].items[i]
<1>1. \A k \in DOMAIN sets : sets[k] \in DOMAIN banks
  BY DEF ToSet
<1> QED  BY <1>1 DEF Slots, ItemAt

\* The places of a practice bank.
LEMMA PracticePlaces ==
    ASSUME NEW run
    PROVE  /\ run.practice # NoBank =>
                  DOMAIN PracticeSets(run) = {1} /\ PracticeSets(run)[1] = run.practice
           /\ run.practice = NoBank => DOMAIN PracticeSets(run) = {}
BY NoRows DEF PracticeSets

\* Every item of an activated run can be read back, and its trials are
\* attributed to one bank that holds the item.
LEMMA RowsIntact ==
    ASSUME BanksOK(banks), NEW run, IsRun(run), RunSound(run), Launchable(run),
           SoundDesign(run), NEW s, NEW t \in Snapshot(s, run)
    PROVE  /\ t.sources # {} /\ t.sources \subseteq ToSet(run.sets) \cup ToSet(PracticeSets(run))
           /\ ItemValid(t.item)
           /\ IF t.block = "practice" THEN run.practice # NoBank /\ t.sources = {run.practice}
              ELSE t.sources \subseteq ToSet(run.sets) /\ run.practice \notin t.sources
           /\ \E b \in t.sources : Holds(b, t.item.id)
<1> DEFINE P == PracticeSets(run)
<1>1. /\ ToSet(run.sets) \subseteq DOMAIN banks /\ ToSet(P) \subseteq DOMAIN banks
      /\ SelectedBanks(run) \subseteq DOMAIN banks
  BY RunBanks DEF RunSound
<1>2. ASSUME NEW b \in SelectedBanks(run), NEW i \in DOMAIN banks[b].items
      PROVE  ItemValid(banks[b].items[i])
  <2>1. IsBank(banks[b]) /\ banks[b].status \in RunCompatible
    BY <1>1, TableSeq DEF BanksOK, RunSound, Launchable
  <2> QED  BY <2>1 DEF IsBank, Usable
<1>3. /\ run.practice # NoBank => DOMAIN P = {1} /\ P[1] = run.practice
      /\ run.practice = NoBank => DOMAIN P = {}
  BY PracticePlaces
<1> HIDE DEF P
<1>4. CASE t \in TrialRows(s, run, P, "practice")
  <2>1. PICK slot \in Slots(P) :
            t = [session |-> s, slot |-> slot, item |-> ItemAt(P, slot), block |-> "practice",
                 sources |-> {SourceBank(run, ItemAt(P, slot).id)}]
    BY <1>4 DEF TrialRows
  <2>2. /\ slot[1] \in DOMAIN P /\ slot[2] \in DOMAIN banks[P[slot[1]]].items
        /\ ItemAt(P, slot) = banks[P[slot[1]]].items[slot[2]]
    BY <1>1, SlotPlaces
  <2>3. /\ run.practice # NoBank /\ slot[2] \in DOMAIN banks[run.practice].items
        /\ ItemAt(P, slot) = banks[run.practice].items[slot[2]]
        /\ run.practice \in ToSet(P)
    BY <1>3, <2>2 DEF ToSet
  <2>4. ItemValid(ItemAt(P, slot))
    BY <1>2, <2>3 DEF SelectedBanks, P
  <2>5. Holds(run.practice, ItemAt(P, slot).id)
    BY <2>3 DEF Holds
  <2>6. SourceBank(run, ItemAt(P, slot).id) = run.practice
    BY <2>3, <2>5 DEF SourceBank
  <2>7. /\ t.item = ItemAt(P, slot) /\ t.block = "practice" /\ t.sources = {run.practice}
    BY <2>1, <2>6
  <2> QED  BY <2>3, <2>4, <2>5, <2>7 DEF P
<1>5. CASE t \in TrialRows(s, run, run.sets, "main")
  <2>1. PICK slot \in Slots(run.sets) :
            t = [session |-> s, slot |-> slot, item |-> ItemAt(run.sets, slot), block |-> "main",
                 sources |-> {SourceBank(run, ItemAt(run.sets, slot).id)}]
    BY <1>5 DEF TrialRows
  <2> DEFINE id == ItemAt(run.sets, slot).id
             K == {k \in DOMAIN run.sets : Holds(run.sets[k], id)}
  <2>2. /\ slot[1] \in DOMAIN run.sets /\ slot[2] \in DOMAIN banks[run.sets[slot[1]]].items
        /\ ItemAt(run.sets, slot) = banks[run.sets[slot[1]]].items[slot[2]]
    BY <1>1, SlotPlaces
  <2>3. ItemValid(ItemAt(run.sets, slot))
    BY <1>2, <2>2 DEF SelectedBanks, ToSet
  <2>4. slot[1] \in K
    BY <2>2 DEF Holds
  <2>5. ~(run.practice # NoBank /\ Holds(run.practice, id))
    <3> SUFFICES ASSUME run.practice # NoBank, Holds(run.practice, id) PROVE FALSE
      OBVIOUS
    <3>1. PICK i \in DOMAIN banks[run.practice].items : banks[run.practice].items[i].id = id
      BY DEF Holds
    <3>2. <<1, i>> \in Slots(P) /\ ItemAt(P, <<1, i>>) = banks[run.practice].items[i]
      BY <1>1, <1>3, SlotPlaces
    <3> QED  BY <3>1, <3>2 DEF SoundDesign, P
  <2>6. Max(K) \in K
    <3>1. run.sets \in Seq(Nat)
      BY RunLists
    <3>2. Len(run.sets) \in Nat /\ K \in SUBSET (1..Len(run.sets)) /\ K # {}
      BY <2>4, <3>1
    <3> HIDE DEF K
    <3>3. PICK x \in K : \A y \in K : y <= x
      BY <3>2, GreatestOf
    <3>4. \A x1, y1 \in K : x1 \in Nat /\ y1 \in Nat
      BY <3>2
    <3>5. \A y \in K : x >= y
      BY <3>3, <3>4
    <3> QED  BY <3>5 DEF Max
  <2>7. SourceBank(run, id) = run.sets[Max(K)]
    BY <2>5 DEF SourceBank
  <2>8. /\ SourceBank(run, id) \in ToSet(run.sets) /\ Holds(SourceBank(run, id), id)
    BY <2>6, <2>7 DEF ToSet
  <2>9. run.practice # SourceBank(run, id)
    BY <2>8 DEF Launchable, NoOverlap
  <2>10. t.item = ItemAt(run.sets, slot) /\ t.block = "main" /\ t.sources = {SourceBank(run, id)}
    BY <2>1
  <2> QED  BY <2>3, <2>8, <2>9, <2>10
<1> QED  BY <1>4, <1>5 DEF Snapshot, P

\* Before a restore, a session of a run of sound design can be started and
\* then be played to its end (create_session, start_session,
\* _validate_snapshot_integrity).
THEOREM SessionsArePlayable == Spec => []SessionsPlayableBefore
<1>1. RowsInv /\ ServiceInv => SessionsPlayableBefore
  <2> SUFFICES ASSUME RowsInv, ServiceInv, ~restored,
                      NEW s \in DOMAIN sessions, SoundDesign(runs[sessions[s].run])
               PROVE  /\ sessions[s].status = "created" =>
                             /\ SnapshotPossible(runs[sessions[s].run])
                             /\ sessions[s].expected = ExpectedTrials(runs[sessions[s].run])
                      /\ sessions[s].status = "in_progress" => SnapshotIntact(s)
    <3>1. RowsInv => \A s \in DOMAIN sessions : sessions[s].status \in {"created", "in_progress"}
      BY TableSeq DEF RowsInv, SessionsOK, IsSession
    <3> QED  BY <3>1 DEF SessionsPlayableBefore, SessionsPlayable
  <2> DEFINE run == runs[sessions[s].run]
  <2>1. /\ sessions[s].run \in DOMAIN runs /\ run.status # "draft"
        /\ sessions[s].expected = ExpectedTrials(run)
        /\ TrialsOf(s) = IF sessions[s].status = "created" THEN {} ELSE Snapshot(s, run)
    BY DEF ServiceInv, SessionsSound, SessionSound
  <2>2. IsRun(run) /\ RunSound(run) /\ Launchable(run) /\ BanksOK(banks)
    BY <2>1, TableSeq DEF RowsInv, RunsOK, ServiceInv, RunsSound, RunSound
  <2> HIDE DEF run
  <2>3. SelectedBanks(run) \subseteq DOMAIN banks
    BY <2>2 DEF RunSound
  <2>4. SnapshotPossible(run)
    <3>1. ASSUME NEW b \in SelectedBanks(run)
          PROVE  /\ b \in DOMAIN banks /\ banks[b].family = run.family
                 /\ \A i \in DOMAIN banks[b].items : ItemValid(banks[b].items[i])
      <4>1. b \in DOMAIN banks /\ banks[b].family = run.family /\ banks[b].status \in RunCompatible
        BY <2>2, <2>3 DEF RunSound, Launchable
      <4>2. IsBank(banks[b])
        BY <2>2, <4>1, TableSeq DEF BanksOK
      <4> QED  BY <4>1, <4>2 DEF IsBank, Usable
    <3>2. ModeFits(run) /\ BlocksFilled(run) /\ run.nBlocks <= NConditions
      BY <2>2 DEF Launchable, SoundDesign, run
    <3> QED  BY <3>1, <3>2 DEF SnapshotPossible
  <2>5. ASSUME sessions[s].status = "in_progress" PROVE SnapshotIntact(s)
    <3>1. TrialsOf(s) = Snapshot(s, run)
      BY <2>1, <2>5
    <3>2. Cardinality(TrialsOf(s)) = sessions[s].expected
      BY <2>1, <2>2, <3>1, SnapshotCount
    <3>3. SoundDesign(run)
      BY DEF run
    <3>4. \A t \in TrialsOf(s) :
              /\ t.sources # {} /\ t.sources \subseteq ToSet(run.sets) \cup ToSet(PracticeSets(run))
              /\ ItemValid(t.item)
              /\ IF t.block = "practice" THEN run.practice # NoBank /\ t.sources = {run.practice}
                 ELSE t.sources \subseteq ToSet(run.sets) /\ run.practice \notin t.sources
              /\ \E b \in t.sources : Holds(b, t.item.id)
      BY <2>2, <3>1, <3>3, RowsIntact
    <3>5. ToSet(run.sets) \cup ToSet(PracticeSets(run)) \subseteq DOMAIN banks
      BY <2>3 DEF SelectedBanks
    <3> QED  BY <2>1, <3>2, <3>4, <3>5 DEF SnapshotIntact, run
  <2> QED  BY <2>1, <2>4, <2>5 DEF run
<1> QED  BY <1>1, ServiceInvariant, PTL

-----------------------------------------------------------------------------
(* The slugs and the invite links.                                         *)

\* What the links need of a row.
IsRow(row) == {"base", "slug"} \subseteq DOMAIN row /\ row.base \in Seq(Nat)

\* And of what a handler holds.
IsFrame(f) == {"run", "row"} \subseteq DOMAIN f /\ IsRow(f.row)

\* The types that the links need.
Shapes ==
    /\ DOMAIN pc = Researchers /\ DOMAIN frame = Researchers
    /\ \A h \in Researchers : IsFrame(frame[h])
    /\ \E S : runs \in Seq(S)
    /\ \A r \in DOMAIN runs : IsRow(runs[r])

\* A slug belongs to one run.
SlugsUnique ==
    \A q, r \in DOMAIN runs : runs[q].slug = runs[r].slug /\ runs[r].slug # NoSlug => q = r

\* An invite link has the slug of its run.
LinksCurrent ==
    \A invite \in invites :
        /\ invite[2] \in DOMAIN runs
        /\ invite[1] = runs[invite[2]].slug /\ invite[1] # NoSlug

\* A handler that is about to write a slug has chosen one.
SlugsChosen ==
    \A h \in Researchers : pc[h] \in {"insert", "update"} => frame[h].row.slug # NoSlug

\* A handler that gives a slug to a stored row.
Repairing(h) == pc[h] \in {"probe", "update"}

\* A row that is repaired has no slug yet, and one handler repairs it.
RepairsAlone ==
    \A h \in Researchers : Repairing(h) =>
        /\ frame[h].run \in DOMAIN runs /\ runs[frame[h].run].slug = NoSlug
        /\ \A g \in Researchers : Repairing(g) /\ frame[g].run = frame[h].run => g = h

\* The invariant of the links.
LinkInv ==
    ~restored => Shapes /\ SlugsUnique /\ LinksCurrent /\ SlugsChosen /\ RepairsAlone

-----------------------------------------------------------------------------

\* Append keeps a table a table, and keeps its rows.
LEMMA Appended ==
    ASSUME NEW S, NEW s \in Seq(S), NEW x
    PROVE  /\ Append(s, x) \in Seq(S \cup {x})
           /\ Len(s) \in Nat /\ DOMAIN s = 1..Len(s) /\ DOMAIN Append(s, x) = 1..(Len(s) + 1)
           /\ \A i \in 1..Len(s) : Append(s, x)[i] = s[i]
           /\ Append(s, x)[Len(s) + 1] = x
<1>1. s \in Seq(S \cup {x}) /\ x \in S \cup {x}
  OBVIOUS
<1> DEFINE T == S \cup {x}
<1> HIDE DEF T
<1> QED  BY <1>1 DEF T

\* An EXCEPT of one row gives a table again.
LEMMA Updated ==
    ASSUME NEW S, NEW s \in Seq(S), NEW r, NEW x
    PROVE  [q \in DOMAIN s |-> IF q = r THEN x ELSE s[q]] \in Seq(S \cup {x})
<1> DEFINE T == S \cup {x}
           t == [q \in DOMAIN s |-> IF q = r THEN x ELSE s[q]]
<1>1. Len(s) \in Nat /\ DOMAIN s = 1..Len(s)
  OBVIOUS
<1>2. \A q \in DOMAIN s : s[q] \in S
  OBVIOUS
<1>3. t \in [1..Len(s) -> T]
  BY <1>1, <1>2
<1> HIDE DEF T, t
<1>4. t \in Seq(T)
  BY <1>1, <1>3
<1> QED  BY <1>4 DEF T, t

\* The row of the initial frame has the shape of a run.
LEMMA EmptyRow == NoSlug \in Seq(Nat) /\ IsRow(LegacyRun(NoSlug)) /\ IsFrame(NoFrame)
<1>1. <<>> \in Seq(Nat)
  OBVIOUS
<1>2. NoSlug \in Seq(Nat)
  BY <1>1 DEF NoSlug
<1>3. IsRow(LegacyRun(NoSlug))
  BY <1>2 DEF IsRow, LegacyRun
<1> QED  BY <1>2, <1>3 DEF IsFrame, NoFrame

\* A numbered slug is not empty.
LEMMA SlugNotEmpty ==
    ASSUME NEW base \in Seq(Nat), base # <<>>
    PROVE  FreeSlug(base) # NoSlug
<1> DEFINE n == CHOOSE n \in 1..Len(runs) + 1 :
                   /\ ~SlugTaken(Slug(base, n))
                   /\ \A k \in 1..n - 1 : SlugTaken(Slug(base, k))
<1>1. FreeSlug(base) = Slug(base, n)
  BY DEF FreeSlug
<1> HIDE DEF n
<1>2. Append(base, n) # <<>>
  BY Appended
<1> QED  BY <1>1, <1>2 DEF Slug, NoSlug

\* The invariant holds before the first request (a legacy row has no slug).
LEMMA LinkInit == Init => LinkInv
<1> SUFFICES ASSUME Init
             PROVE  Shapes /\ SlugsUnique /\ LinksCurrent /\ SlugsChosen /\ RepairsAlone
  BY DEF LinkInv
<1>1. PICK form \in Forms : runs = IF WithLegacyRun THEN <<LegacyRun(form.base)>> ELSE <<>>
  BY DEF Init, SetupInit
<1>2. IsRow(LegacyRun(form.base)) /\ IsFrame(NoFrame)
  BY FormAssumption, EmptyRow DEF IsRow, LegacyRun
<1>3. /\ pc = [h \in Researchers |-> "idle"] /\ frame = [h \in Researchers |-> NoFrame]
      /\ invites = {}
  BY DEF Init, SetupInit
<1>4. \E S : runs \in Seq(S)
  <2> DEFINE row == LegacyRun(form.base)
  <2> HIDE DEF row
  <2>1. <<>> \in Seq({row}) /\ <<row>> \in Seq({row})
    OBVIOUS
  <2>2. runs = <<>> \/ runs = <<row>>
    BY <1>1 DEF row
  <2> QED  BY <2>1, <2>2
<1>5. \A r \in DOMAIN runs : IsRow(runs[r]) /\ r = 1
  <2>1. DOMAIN <<LegacyRun(form.base)>> = {1} /\ <<LegacyRun(form.base)>>[1] = LegacyRun(form.base)
    OBVIOUS
  <2> QED  BY <1>1, <1>2, <2>1
<1> QED  BY <1>2, <1>3, <1>4, <1>5
         DEF Shapes, SlugsUnique, LinksCurrent, SlugsChosen, RepairsAlone, Repairing

\* A request that leaves the slugs of the runs alone.
SlugsKept ==
    /\ \E S : runs' \in Seq(S)
    /\ DOMAIN runs' = DOMAIN runs
    /\ \A r \in DOMAIN runs : IsRow(runs'[r]) /\ runs'[r].slug = runs[r].slug

\* A transition changes no slug and no link (transition_run_status).
LEMMA StatusStep ==
    ASSUME Shapes, NEW r \in DOMAIN runs, NEW s, runs' = [runs EXCEPT ![r].status = s]
    PROVE  SlugsKept
<1>1. PICK S : runs \in Seq(S)
  BY DEF Shapes
<1> DEFINE row == [runs[r] EXCEPT !.status = s]
<1>2. IsRow(row) /\ row.slug = runs[r].slug
  BY DEF Shapes, IsRow
<1>3. /\ DOMAIN runs' = DOMAIN runs
      /\ \A q \in DOMAIN runs : runs'[q] = IF q = r THEN row ELSE runs[q]
  BY DEF Shapes
<1> HIDE DEF row
<1>4. runs' = [q \in DOMAIN runs |-> IF q = r THEN row ELSE runs[q]]
  BY <1>3 DEF row
<1>5. runs' \in Seq(S \cup {row})
  BY <1>1, <1>4, Updated
<1> QED  BY <1>2, <1>3, <1>5 DEF SlugsKept, Shapes

\* Every request, backup and restore keeps the link invariant.
LEMMA LinkNext == ~OverlappingRepairs /\ LinkInv /\ [Next]_vars => LinkInv'
<1> SUFFICES ASSUME ~OverlappingRepairs, LinkInv, [Next]_vars, ~restored'
             PROVE  (Shapes /\ SlugsUnique /\ LinksCurrent /\ SlugsChosen /\ RepairsAlone)'
  BY DEF LinkInv
<1> DEFINE Goal == (Shapes /\ SlugsUnique /\ LinksCurrent /\ SlugsChosen /\ RepairsAlone)'
<1>1. ~restored
  BY DEF Next, BeginBackup, ReadTable, FinishBackup, Restore, backupVars, vars
<1>2. Shapes /\ SlugsUnique /\ LinksCurrent /\ SlugsChosen /\ RepairsAlone
  BY <1>1 DEF LinkInv
<1>3. ASSUME SlugsKept, UNCHANGED <<invites, pc, frame>> PROVE Goal
  BY <1>2, <1>3 DEF SlugsKept, Shapes, SlugsUnique, LinksCurrent, SlugsChosen, RepairsAlone, Repairing
<1>4. ASSUME NEW h \in Researchers, NEW form \in Forms, BeginCreate(h, form) PROVE Goal
  <2>1. /\ pc' = [pc EXCEPT ![h] = "insert"] /\ UNCHANGED <<runs, invites>>
        /\ frame' = [frame EXCEPT ![h] = [run |-> 0, row |-> Created(form, FreeSlug(form.base))]]
        /\ form.base \in Seq(Nat) /\ form.base # <<>>
    BY <1>4, FormAssumption DEF BeginCreate, Previewed
  <2> DEFINE row == Created(form, FreeSlug(form.base))
  <2>2. IsRow(row) /\ row.slug = FreeSlug(form.base)
    BY <2>1 DEF Created, IsRow
  <2>3. row.slug # NoSlug
    BY <2>1, <2>2, SlugNotEmpty
  <2>4. ASSUME NEW g \in Researchers
        PROVE  /\ pc'[g] = IF g = h THEN "insert" ELSE pc[g]
               /\ frame'[g] = IF g = h THEN [run |-> 0, row |-> row] ELSE frame[g]
    BY <1>2, <2>1 DEF Shapes
  <2>5. DOMAIN pc' = Researchers /\ DOMAIN frame' = Researchers
    BY <1>2, <2>1 DEF Shapes
  <2>6. IsFrame([run |-> 0, row |-> row])
    BY <2>2 DEF IsFrame
  <2> HIDE DEF row
  <2>7. Shapes'
    BY <1>2, <2>1, <2>4, <2>5, <2>6 DEF Shapes
  <2>8. SlugsUnique' /\ LinksCurrent'
    BY <1>2, <2>1 DEF SlugsUnique, LinksCurrent
  <2>9. SlugsChosen'
    BY <1>2, <2>3, <2>4 DEF SlugsChosen
  <2>10. RepairsAlone'
    BY <1>2, <2>1, <2>4 DEF RepairsAlone, Repairing
  <2> QED  BY <2>7, <2>8, <2>9, <2>10
<1>5. ASSUME NEW h \in Researchers, FinishCreate(h) PROVE Goal
  <2> DEFINE row == frame[h].row
             new == Len(runs) + 1
  <2>1. /\ pc' = [pc EXCEPT ![h] = "idle"] /\ frame' = [frame EXCEPT ![h] = NoFrame]
        /\ runs' = Append(runs, row) /\ invites' = invites \cup {<<row.slug, new>>}
        /\ pc[h] = "insert" /\ ~SlugTaken(row.slug)
    BY <1>5 DEF FinishCreate
  <2>2. PICK S : runs \in Seq(S)
    BY <1>2 DEF Shapes
  <2>3. /\ runs' \in Seq(S \cup {row}) /\ Len(runs) \in Nat
        /\ DOMAIN runs = 1..Len(runs) /\ DOMAIN runs' = 1..new
        /\ \A r \in DOMAIN runs : runs'[r] = runs[r]
        /\ runs'[new] = row
    BY <2>1, <2>2, Appended
  <2>4. IsRow(row) /\ row.slug # NoSlug /\ \A r \in DOMAIN runs : runs[r].slug # row.slug
    BY <1>2, <2>1 DEF Shapes, IsFrame, SlugsChosen, SlugTaken
  <2>5. DOMAIN runs' = DOMAIN runs \cup {new} /\ new \notin DOMAIN runs
    BY <2>3
  <2>6. ASSUME NEW g \in Researchers
        PROVE  /\ pc'[g] = IF g = h THEN "idle" ELSE pc[g]
               /\ frame'[g] = IF g = h THEN NoFrame ELSE frame[g]
    BY <1>2, <2>1 DEF Shapes
  <2>7. IsFrame(NoFrame)
    BY EmptyRow
  <2>8. DOMAIN pc' = Researchers /\ DOMAIN frame' = Researchers
    BY <1>2, <2>1 DEF Shapes
  <2> HIDE DEF row, new
  <2>9. Shapes'
    BY <1>2, <2>3, <2>4, <2>5, <2>6, <2>7, <2>8 DEF Shapes
  <2>10. SlugsUnique'
    BY <1>2, <2>3, <2>4, <2>5 DEF SlugsUnique
  <2>11. LinksCurrent'
    BY <1>2, <2>1, <2>3, <2>4, <2>5 DEF LinksCurrent
  <2>12. SlugsChosen'
    BY <1>2, <2>6 DEF SlugsChosen
  <2>13. RepairsAlone'
    BY <1>2, <2>3, <2>5, <2>6 DEF RepairsAlone, Repairing
  <2> QED  BY <2>9, <2>10, <2>11, <2>12, <2>13
<1>6. ASSUME NEW h \in Researchers, FailRequest(h) PROVE Goal
  <2>1. /\ pc' = [pc EXCEPT ![h] = "idle"] /\ frame' = [frame EXCEPT ![h] = NoFrame]
        /\ UNCHANGED <<runs, invites>>
    BY <1>6 DEF FailRequest
  <2>2. ASSUME NEW g \in Researchers
        PROVE  /\ pc'[g] = IF g = h THEN "idle" ELSE pc[g]
               /\ frame'[g] = IF g = h THEN NoFrame ELSE frame[g]
    BY <1>2, <2>1 DEF Shapes
  <2>3. IsFrame(NoFrame)
    BY EmptyRow
  <2>4. DOMAIN pc' = Researchers /\ DOMAIN frame' = Researchers
    BY <1>2, <2>1 DEF Shapes
  <2>5. Shapes'
    BY <1>2, <2>1, <2>2, <2>3, <2>4 DEF Shapes
  <2>6. SlugsUnique' /\ LinksCurrent'
    BY <1>2, <2>1 DEF SlugsUnique, LinksCurrent
  <2>7. SlugsChosen'
    BY <1>2, <2>2 DEF SlugsChosen
  <2>8. RepairsAlone'
    BY <1>2, <2>1, <2>2 DEF RepairsAlone, Repairing
  <2> QED  BY <2>5, <2>6, <2>7, <2>8
<1>7. ASSUME NEW h \in Researchers, NEW r \in DOMAIN runs, ReadRun(h, r) PROVE Goal
  <2>1. /\ pc' = [pc EXCEPT ![h] = "probe"]
        /\ frame' = [frame EXCEPT ![h] = [run |-> r, row |-> runs[r]]]
        /\ UNCHANGED <<runs, invites>> /\ runs[r].slug = NoSlug
        /\ \A g \in Researchers : Repairing(g) => frame[g].run # r
    BY <1>7 DEF ReadRun, Repairing
  <2>2. ASSUME NEW g \in Researchers
        PROVE  /\ pc'[g] = IF g = h THEN "probe" ELSE pc[g]
               /\ frame'[g] = IF g = h THEN [run |-> r, row |-> runs[r]] ELSE frame[g]
    BY <1>2, <2>1 DEF Shapes
  <2>3. IsFrame([run |-> r, row |-> runs[r]])
    BY <1>2 DEF IsFrame, Shapes
  <2>4. DOMAIN pc' = Researchers /\ DOMAIN frame' = Researchers
    BY <1>2, <2>1 DEF Shapes
  <2>5. Shapes'
    BY <1>2, <2>1, <2>2, <2>3, <2>4 DEF Shapes
  <2>6. SlugsUnique' /\ LinksCurrent'
    BY <1>2, <2>1 DEF SlugsUnique, LinksCurrent
  <2>7. SlugsChosen'
    BY <1>2, <2>2 DEF SlugsChosen
  <2>8. RepairsAlone'
    BY <1>2, <2>1, <2>2 DEF RepairsAlone, Repairing
  <2> QED  BY <2>5, <2>6, <2>7, <2>8
<1>8. ASSUME NEW h \in Researchers, ProbeSlug(h) PROVE Goal
  <2> DEFINE slug == FreeSlug(frame[h].row.base)
             f == [frame[h] EXCEPT !.row.slug = slug]
  <2>1. /\ pc' = [pc EXCEPT ![h] = "update"] /\ frame' = [frame EXCEPT ![h] = f]
        /\ UNCHANGED <<runs, invites>> /\ pc[h] = "probe" /\ frame[h].row.base # <<>>
    BY <1>2, <1>8 DEF ProbeSlug, Shapes
  <2>2. slug # NoSlug
    BY <1>2, <2>1, SlugNotEmpty DEF Shapes, IsFrame, IsRow
  <2>3. IsFrame(f) /\ f.row.slug = slug /\ f.run = frame[h].run
    <3> HIDE DEF slug
    <3> QED  BY <1>2 DEF Shapes, IsFrame, IsRow
  <2> HIDE DEF f, slug
  <2>4. ASSUME NEW g \in Researchers
        PROVE  /\ pc'[g] = IF g = h THEN "update" ELSE pc[g]
               /\ frame'[g] = IF g = h THEN f ELSE frame[g]
    BY <1>2, <2>1 DEF Shapes
  <2>5. DOMAIN pc' = Researchers /\ DOMAIN frame' = Researchers
    BY <1>2, <2>1 DEF Shapes
  <2>6. Shapes'
    BY <1>2, <2>1, <2>3, <2>4, <2>5 DEF Shapes
  <2>7. SlugsUnique' /\ LinksCurrent'
    BY <1>2, <2>1 DEF SlugsUnique, LinksCurrent
  <2>8. SlugsChosen'
    BY <1>2, <2>2, <2>3, <2>4 DEF SlugsChosen
  <2>9. RepairsAlone'
    BY <1>2, <2>1, <2>3, <2>4 DEF RepairsAlone, Repairing
  <2> QED  BY <2>6, <2>7, <2>8, <2>9
<1>9. ASSUME NEW h \in Researchers, UpdateSlug(h) PROVE Goal
  <2> DEFINE r == frame[h].run
             slug == frame[h].row.slug
             row == [runs[r] EXCEPT !.slug = slug]
  <2>1. /\ pc' = [pc EXCEPT ![h] = "idle"] /\ frame' = [frame EXCEPT ![h] = NoFrame]
        /\ runs' = [runs EXCEPT ![r].slug = slug] /\ invites' = invites \cup {<<slug, r>>}
        /\ pc[h] = "update" /\ \A q \in DOMAIN runs \ {r} : runs[q].slug # slug
    BY <1>9 DEF UpdateSlug
  <2>2. r \in DOMAIN runs /\ runs[r].slug = NoSlug /\ slug # NoSlug
    BY <1>2, <2>1 DEF RepairsAlone, Repairing, SlugsChosen
  <2>3. IsRow(row) /\ row.slug = slug
    <3> HIDE DEF slug
    <3> QED  BY <1>2, <2>2 DEF Shapes, IsRow
  <2>4. DOMAIN runs' = DOMAIN runs /\ \A q \in DOMAIN runs : runs'[q] = IF q = r THEN row ELSE runs[q]
    BY <2>1, <2>2
  <2>5. PICK S : runs \in Seq(S)
    BY <1>2 DEF Shapes
  <2>6. runs' = [q \in DOMAIN runs |-> IF q = r THEN row ELSE runs[q]]
    BY <2>1, <2>2
  <2>7. runs' \in Seq(S \cup {row})
    <3> HIDE DEF row, r
    <3> QED  BY <2>5, <2>6, Updated
  <2>8. ASSUME NEW g \in Researchers
        PROVE  /\ pc'[g] = IF g = h THEN "idle" ELSE pc[g]
               /\ frame'[g] = IF g = h THEN NoFrame ELSE frame[g]
    BY <1>2, <2>1 DEF Shapes
  <2>9. IsFrame(NoFrame)
    BY EmptyRow
  <2>10. DOMAIN pc' = Researchers /\ DOMAIN frame' = Researchers
    BY <1>2, <2>1 DEF Shapes
  <2>11. \A g \in Researchers : g # h /\ Repairing(g) => frame[g].run # r
    BY <1>2, <2>1 DEF RepairsAlone, Repairing
  <2> HIDE DEF row, slug, r
  <2>12. Shapes'
    BY <1>2, <2>3, <2>4, <2>7, <2>8, <2>9, <2>10 DEF Shapes
  <2>13. SlugsUnique'
    BY <1>2, <2>1, <2>3, <2>4 DEF SlugsUnique
  <2>14. LinksCurrent'
    BY <1>2, <2>1, <2>2, <2>3, <2>4 DEF LinksCurrent
  <2>15. SlugsChosen'
    BY <1>2, <2>8 DEF SlugsChosen
  <2>16. RepairsAlone'
    BY <1>2, <2>4, <2>8, <2>11 DEF RepairsAlone, Repairing
  <2> QED  BY <2>12, <2>13, <2>14, <2>15, <2>16
<1>10. ASSUME NEW r \in DOMAIN runs, Activate(r) \/ Close(r) PROVE Goal
  <2>1. UNCHANGED <<invites, pc, frame>> /\ \E s : runs' = [runs EXCEPT ![r].status = s]
    BY <1>10 DEF Activate, Close
  <2> QED  BY <1>2, <1>3, <2>1, StatusStep
<1>11. ASSUME UNCHANGED <<runs, invites, pc, frame>> PROVE Goal
  <2>1. SlugsKept
    BY <1>2, <1>11 DEF SlugsKept, Shapes
  <2> QED  BY <1>3, <1>11, <2>1
<1>12. CASE Setup
  <2>1. ASSUME NEW file \in Files, Upload(file) PROVE UNCHANGED <<runs, invites, pc, frame>>
    BY <2>1 DEF Upload
  <2>2. ASSUME NEW r \in DOMAIN runs, CreateSession(r) PROVE UNCHANGED <<runs, invites, pc, frame>>
    BY <2>2 DEF CreateSession
  <2>3. ASSUME NEW s \in DOMAIN sessions, StartSession(s)
        PROVE  UNCHANGED <<runs, invites, pc, frame>>
    BY <2>3 DEF StartSession
  <2>4. CASE \E h \in Researchers : \E form \in Forms : BeginCreate(h, form)
    BY <1>4, <2>4
  <2>5. CASE \E h \in Researchers : FinishCreate(h) \/ FailRequest(h)
    BY <1>5, <1>6, <2>5
  <2>6. CASE \E h \in Researchers : \E r \in DOMAIN runs : ReadRun(h, r)
    BY <1>7, <2>6
  <2>7. CASE \E h \in Researchers : ProbeSlug(h) \/ UpdateSlug(h)
    BY <1>8, <1>9, <2>7
  <2>8. CASE \/ \E file \in Files : Upload(file)
             \/ \E r \in DOMAIN runs : CreateSession(r)
             \/ \E s \in DOMAIN sessions : StartSession(s)
    BY <1>11, <2>1, <2>2, <2>3, <2>8
  <2>9. CASE \E r \in DOMAIN runs : Activate(r) \/ Close(r)
    BY <1>10, <2>9
  <2> HIDE DEF Goal
  <2> QED  BY <1>12, <2>4, <2>5, <2>6, <2>7, <2>8, <2>9 DEF Setup
<1>13. CASE BeginBackup \/ ReadTable \/ FinishBackup \/ UNCHANGED vars
  BY <1>11, <1>13 DEF BeginBackup, ReadTable, FinishBackup, setupVars, vars
<1>14. ~(\E a \in DOMAIN archives : Restore(archives[a]))
  BY DEF Restore
<1> QED  BY <1>12, <1>13, <1>14 DEF Next

\* Every invite link that was answered to a researcher opens its run, however
\* the choices of slugs overlap, when no two requests repair one row at once
\* (_build_unique_public_slug, create_run, get_run).
THEOREM InvitesAlwaysResolve ==
    ASSUME ~OverlappingRepairs PROVE Spec => []InvitesResolveBefore
<1>1. LinkInv => InvitesResolveBefore
  <2> SUFFICES ASSUME LinkInv, ~restored, NEW invite \in invites
               PROVE  {r \in DOMAIN runs : runs[r].slug = invite[1]} = {invite[2]}
    BY DEF InvitesResolveBefore, InvitesResolve
  <2>1. /\ invite[2] \in DOMAIN runs
        /\ invite[1] = runs[invite[2]].slug /\ invite[1] # NoSlug
    BY DEF LinkInv, LinksCurrent
  <2>2. \A r \in DOMAIN runs : runs[r].slug = invite[1] => r = invite[2]
    BY <2>1 DEF LinkInv, SlugsUnique
  <2> QED  BY <2>1, <2>2
<1>2. LinkInv /\ [Next]_vars => LinkInv'
  BY LinkNext
<1> QED  BY LinkInit, <1>1, <1>2, PTL DEF Spec
==============================================================================
