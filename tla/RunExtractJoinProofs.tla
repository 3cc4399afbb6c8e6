------------------------ MODULE RunExtractJoinProofs ------------------------
(***************************************************************************)
(* Proofs about what TrialLog and RunExtract make of the answers of a      *)
(* session: the features a trial is routed by, what one report reads of    *)
(* several tables, and the warnings it derives.                            *)
(*                                                                         *)
(* On top of ExtractInv, which says what is stored and where a report is,  *)
(* the invariant says what the rows hold (Routed, Evidence) and how the    *)
(* tables of one load fit together although each was read at another       *)
(* moment (SeenJoins).                                                     *)
(***************************************************************************)
EXTENDS RunExtractProofs, FiniteSetTheorems, WellFoundedInduction

-----------------------------------------------------------------------------
(* What the rows hold.                                                     *)

\* The main blocks before the block of a trial.
BlocksBefore(t) == {b \in MainBlocks : b < Block[t]}

\* One row of session_trials: a trial is completed after it was served, and
\* served with the decision of its bucket, after every earlier trial.
RowOK(T, t) ==
    /\ T[t].done \in BOOLEAN
    /\ T[t].done => T[t].decision # None
    /\ T[t].decision = None => T[t].features = None
    /\ T[t].decision # None =>
           /\ T[t].risk \in Buckets
           /\ T[t].decision = Decision(Condition[t], T[t].risk)
           /\ T[t].features \in FeatureRows
           /\ \A u \in 1..(t - 1) : T[u].done

\* How many trials before t are looked at.
Considered(t) == IF t - 1 < HistoryWindow THEN t - 1 ELSE HistoryWindow

\* The trials before t whose errors and blind acceptances count.
Marked(t) == {u \in 1..(t - 1) : u >= t - MarkerWindow}

\* A wrong answer that accepts wrong advice without a click, in the summaries S.
Blind(S, u) == ~AdviceRight[u] /\ ~S[u].right /\ ~S[u].clicked

\* The features f of t are those of the summaries S; the blind acceptances are
\* all counted if no request was cut off.
Follow(f, t, S, whole) ==
    /\ f.considered = Considered(t)
    /\ f.errors = Cardinality({u \in Marked(t) : ~S[u].right})
    /\ f.latency = LatencyBucket([i \in 1..Considered(t) |-> S[t - i].latency])
    /\ f.blind <= Cardinality({u \in Marked(t) : Blind(S, u)})
    /\ whole => f.blind = Cardinality({u \in Marked(t) : Blind(S, u)})

\* What next_trial relies on and stores.
Routed ==
    HasRows => \A t \in Trials :
        /\ RowOK(trial, t)
        /\ trial[t].decision # None => BlocksBefore(t) \subseteq answered
        /\ trial[t].features # None => Follow(trial[t].features, t, summary, faults = 0)

\* The events and summaries of a completed trial agree, and those of the
\* request under way are its own.
Evidence ==
    /\ \A t \in Trials : summary[t] # None => summary[t].risk # None
    /\ \A t \in Done : log[t].response # None /\ log[t].finish = summary[t].latency
    /\ call.at \in Submitting => /\ trial[call.trial].decision # None
                                 /\ ~trial[call.trial].done
    /\ call.at \in {"logFinish", "summary", "complete"} => log[call.trial].response # None
    /\ call.at \in {"summary", "complete"} => log[call.trial].finish = call.payload.latency
    /\ call.at = "complete" => summary[call.trial].latency = call.payload.latency

\* Without a request cut off, a click is of the answer that counts.
ClicksFit ==
    faults = 0 =>
        /\ \A t \in Trials : log[t].click # None =>
               IF t \in Done THEN summary[t].clicked
               ELSE call.at \in Submitting /\ call.trial = t /\ call.payload.clicked
        /\ call.at = "logClick" => call.payload.clicked
        /\ call.at = "complete" => summary[call.trial].clicked = call.payload.clicked

\* The invariant of the answers.
AnswersInv == Routed /\ Evidence /\ ClicksFit

-----------------------------------------------------------------------------
(* What a report has read.                                                 *)

\* The trial rows that were read, if the session had any, are those of an
\* earlier moment.
Earlier(x) ==
    x.trials # None /\ x.trials # <<>> =>
        /\ HasRows
        /\ \A t \in Trials :
               /\ RowOK(x.trials, t)
               /\ x.trials[t].done => t \in Done
               /\ x.trials[t].decision # None =>
                      /\ trial[t].decision # None
                      /\ x.trials[t].features = trial[t].features

\* What a load read after the trial rows has all that they rely on.
Joins(x) ==
    /\ Earlier(x)
    /\ x.trials # None =>
           /\ x.summaries # None => \A t \in Completed(x) : x.summaries[t] = summary[t]
           /\ x.events # None => Completed(x) \subseteq x.events
           /\ x.questionnaires # None =>
                  \A t \in Trials : Rows(x)[t].decision # None =>
                      BlocksBefore(t) \subseteq x.questionnaires
    /\ x.summaries # None =>
           \A t \in Trials : x.summaries[t] # None => x.summaries[t].risk # None

\* So it is with what the report has read.
SeenJoins == Joins(reader.seen)

\* The trial rows are read before the other tables of their load.
TrialsFirst ==
    reader.todo # <<>> /\ Head(reader.todo)[2] = "trials" =>
        /\ reader.seen.summaries = None /\ reader.seen.events = None
        /\ reader.seen.questionnaires = None

\* What is added to the invariant of RunExtractProofs.
JoinInv == AnswersInv /\ SeenJoins /\ TrialsFirst

-----------------------------------------------------------------------------
(* Sums over a finite set.                                                 *)

\* A non-empty family of finite sets has a minimal member.
LEMMA MinimalMember ==
    ASSUME NEW D, IsFiniteSet(D), NEW T, T \subseteq SUBSET D, T # {}
    PROVE  \E t \in T : \A u \in T : u \subseteq t => u = t
<1> DEFINE R == StrictSubsetOrdering(D)
<1>1. IsWellFoundedOn(R, SUBSET D)
  BY FS_StrictSubsetOrderingWellFounded, FS_FiniteSubsetsOfFinite
<1>2. \E t \in T : \A u \in T : <<u, t>> \notin R
  <2> HIDE DEF R
  <2> QED  BY <1>1, WFMin
<1> QED  BY <1>2 DEF StrictSubsetOrdering

\* A family of disjoint subsets of W, one for each element of D.
Parts(D, W, U) ==
    /\ IsFiniteSet(W) /\ \A c \in D : U[c] \subseteq W
    /\ \A c, d \in D : c # d => U[c] \cap U[d] = {}

\* The size of the union of the members of a family that s names.
Total(U, s) == Cardinality(UNION {U[c] : c \in s})

\* A member adds its size to that of the others.
LEMMA TotalAdds ==
    ASSUME NEW D, NEW W, NEW U, Parts(D, W, U), NEW s \in SUBSET D, NEW x \in s
    PROVE  Total(U, s) = Cardinality(U[x]) + Total(U, s \ {x})
<1> DEFINE others == UNION {U[c] : c \in s \ {x}}
<1>1. others \subseteq W /\ U[x] \subseteq W /\ U[x] \cap others = {} /\ IsFiniteSet(W)
  BY DEF Parts
<1>2. UNION {U[c] : c \in s} = U[x] \cup others
  OBVIOUS
<1> HIDE DEF others
<1>3. IsFiniteSet(others) /\ IsFiniteSet(U[x])
  BY <1>1, FS_Subset
<1>4. Cardinality(U[x] \cup others)
          = Cardinality(U[x]) + Cardinality(others) - Cardinality(U[x] \cap others)
  BY <1>3, FS_Union
<1>5. Cardinality(U[x] \cap others) = 0
  BY <1>1, FS_EmptySet
<1>6. Cardinality(U[x]) \in Nat /\ Cardinality(others) \in Nat
  BY <1>3, FS_CardinalityType
<1>7. Cardinality(U[x] \cup others) = Cardinality(U[x]) + Cardinality(others)
  BY <1>4, <1>5, <1>6
<1> QED  BY <1>2, <1>7 DEF Total, others

\* One step of the sum: the value of an element, and the sum of the others.
SumStep(f, it) ==
    [s \in SUBSET DOMAIN f |-> IF s = {} THEN 0
                               ELSE LET x == CHOOSE x \in s : TRUE IN f[x] + it[s \ {x}]]

\* That is how SumFunction is defined.
LEMMA SumUnfolds ==
    ASSUME NEW f PROVE SumFunction(f) = (CHOOSE it : it = SumStep(f, it))[DOMAIN f]
BY DEF SumFunction, SumFunctionOnSet, FoldFunctionOnSet, MapThenFoldSet, SumStep

\* The sum of the sizes of disjoint sets is the size of their union.
LEMMA SumIsTotal ==
    ASSUME NEW D, IsFiniteSet(D), NEW W, NEW U, Parts(D, W, U), NEW f, f = [c \in D |-> Cardinality(U[c])]
    PROVE  SumFunction(f) = Total(U, D) /\ Total(U, D) \in Nat
<1> DEFINE sizes == [s \in SUBSET D |-> Total(U, s)]
           it == CHOOSE it : it = SumStep(f, it)
<1>1. DOMAIN f = D /\ \A c \in D : f[c] = Cardinality(U[c])
  OBVIOUS
<1>2. Total(U, {}) = 0
  <2>1. UNION {U[c] : c \in {}} = {}
    OBVIOUS
  <2> QED  BY <2>1, FS_EmptySet DEF Total
<1>3. \A s \in SUBSET D : \A x \in s : Total(U, s) = f[x] + Total(U, s \ {x})
  <2> SUFFICES ASSUME NEW s \in SUBSET D, NEW x \in s
               PROVE  Total(U, s) = f[x] + Total(U, s \ {x})
    OBVIOUS
  <2>1. Total(U, s) = Cardinality(U[x]) + Total(U, s \ {x})
    BY TotalAdds
  <2>2. x \in D
    OBVIOUS
  <2> QED  BY <1>1, <2>1, <2>2
<1>4. sizes = SumStep(f, sizes)
  <2>1. ASSUME NEW s \in SUBSET D
        PROVE  sizes[s] = IF s = {} THEN 0
                          ELSE LET x == CHOOSE x \in s : TRUE IN f[x] + sizes[s \ {x}]
    <3>1. CASE s = {}
      BY <1>2, <3>1
    <3>2. CASE s # {}
      <4> DEFINE x == CHOOSE x \in s : TRUE
      <4>1. x \in s
        BY <3>2
      <4>2. Total(U, s) = f[x] + Total(U, s \ {x}) /\ s \ {x} \in SUBSET D
        BY <1>3, <4>1
      <4> QED  BY <3>2, <4>2
    <3> QED  BY <3>1, <3>2
  <2> HIDE DEF sizes
  <2>2. SumStep(f, sizes) = [s \in SUBSET D |-> IF s = {} THEN 0
                             ELSE LET x == CHOOSE x \in s : TRUE IN f[x] + sizes[s \ {x}]]
    BY <1>1 DEF SumStep
  <2>3. sizes = [s \in SUBSET D |-> sizes[s]]
    BY DEF sizes
  <2> QED  BY <2>1, <2>2, <2>3
<1>5. it = SumStep(f, it)
  <2> HIDE DEF sizes
  <2> QED  BY <1>4
<1> HIDE DEF it, sizes
<1>6. \A s \in SUBSET D :
          it[s] = IF s = {} THEN 0
                  ELSE LET x == CHOOSE x \in s : TRUE IN f[x] + it[s \ {x}]
  <2> DEFINE next == SumStep(f, it)
  <2>1. \A s \in SUBSET D :
            next[s] = IF s = {} THEN 0
                      ELSE LET x == CHOOSE x \in s : TRUE IN f[x] + it[s \ {x}]
    BY <1>1 DEF SumStep
  <2>2. next = it
    BY <1>5
  <2> HIDE DEF next
  <2> QED  BY <2>1, <2>2
<1>7. \A s \in SUBSET D : it[s] = Total(U, s)
  <2> DEFINE wrong == {s \in SUBSET D : it[s] # Total(U, s)}
  <2> SUFFICES ASSUME wrong # {} PROVE FALSE
    OBVIOUS
  <2>1. PICK s \in wrong : \A u \in wrong : u \subseteq s => u = s
    <3>1. wrong \subseteq SUBSET D
      OBVIOUS
    <3> HIDE DEF wrong
    <3> QED  BY <3>1, MinimalMember
  <2>2. s \in SUBSET D /\ it[s] # Total(U, s)
    OBVIOUS
  <2>3. s # {}
    BY <1>2, <1>6, <2>2
  <2> DEFINE x == CHOOSE x \in s : TRUE
  <2>4. x \in s
    BY <2>3
  <2>5. it[s] = f[x] + it[s \ {x}]
    BY <1>6, <2>2, <2>3
  <2>6. Total(U, s) = f[x] + Total(U, s \ {x})
    BY <1>3, <2>2, <2>4
  <2> HIDE DEF x
  <2>7. s \ {x} \in wrong
    BY <2>2, <2>5, <2>6
  <2> QED  BY <2>1, <2>4, <2>7
<1>8. SumFunction(f) = it[D]
  BY <1>1, SumUnfolds DEF it
<1>9. Total(U, D) \in Nat
  <2>1. UNION {U[c] : c \in D} \in SUBSET W /\ IsFiniteSet(W)
    BY DEF Parts
  <2> QED  BY <2>1, FS_Subset, FS_CardinalityType DEF Total
<1> QED  BY <1>7, <1>8, <1>9

\* The sum of bounded numbers is a number.
LEMMA SumIsNumber ==
    ASSUME NEW D, IsFiniteSet(D), NEW most \in Nat, NEW f \in [D -> 0..most]
    PROVE  SumFunction(f) \in Nat
<1> DEFINE W == D \X (1..most)  U == [c \in D |-> {c} \X (1..f[c])]
<1>1. IsFiniteSet(W)
  <2>1. IsFiniteSet(1..most)
    BY FS_Interval
  <2> QED  BY <2>1, FS_Product
<1>2. \A c \in D : U[c] \subseteq W
  OBVIOUS
<1>3. Parts(D, W, U)
  <2>1. \A c, d \in D : c # d => U[c] \cap U[d] = {}
    OBVIOUS
  <2> HIDE DEF W, U
  <2> QED  BY <1>1, <1>2, <2>1 DEF Parts
<1>4. f = [c \in D |-> Cardinality(U[c])]
  <2>1. ASSUME NEW c \in D PROVE f[c] = Cardinality(U[c])
    <3>1. f[c] \in Nat
      OBVIOUS
    <3>2. IsFiniteSet(1..f[c]) /\ Cardinality(1..f[c]) = f[c]
      BY <3>1, FS_Interval
    <3>3. IsFiniteSet({c}) /\ Cardinality({c}) = 1
      BY FS_Singleton
    <3>4. Cardinality({c} \X (1..f[c])) = 1 * f[c]
      <4> DEFINE S == {c}  T == 1..f[c]
      <4>1. Cardinality(S \X T) = Cardinality(S) * Cardinality(T)
        <5>1. IsFiniteSet(S) /\ IsFiniteSet(T)
          BY <3>2, <3>3
        <5> HIDE DEF S, T
        <5> QED  BY <5>1, FS_Product
      <4> QED  BY <3>2, <3>3, <4>1
    <3> QED  BY <3>1, <3>4
  <2> HIDE DEF U
  <2> QED  BY <2>1
<1> HIDE DEF W, U
<1> QED  BY <1>3, <1>4, SumIsTotal

-----------------------------------------------------------------------------
(* The lagged features of a trial.                                         *)

\* The k-th of the first m numbers is k.
LEMMA NthOfFirst == ASSUME NEW m \in Nat, NEW k \in 1..m PROVE Nth(1..m, k) = k
<1>1. \A u \in 1..m : Cardinality({v \in 1..m : v < u}) = u - 1
  <2> SUFFICES ASSUME NEW u \in 1..m PROVE Cardinality({v \in 1..m : v < u}) = u - 1
    OBVIOUS
  <2>1. {v \in 1..m : v < u} = 1..(u - 1) /\ u - 1 \in Nat
    OBVIOUS
  <2>2. Cardinality(1..(u - 1)) = u - 1
    BY <2>1, FS_Interval
  <2> QED  BY <2>1, <2>2
<1>2. \A u \in 1..m : Cardinality({v \in 1..m : v < u}) = k - 1 <=> u = k
  BY <1>1
<1> QED  BY <1>2 DEF Nth

\* As many trials lie i before t as there are such i.
LEMMA MirroredCount ==
    ASSUME NEW t \in Nat, NEW A \in SUBSET (1..t)
    PROVE  Cardinality({t - i : i \in A}) = Cardinality(A)
<1> DEFINE B == {t - i : i \in A}  back == [i \in A |-> t - i]
<1>1. IsFiniteSet(A)
  <2>1. IsFiniteSet(1..t)
    BY FS_Interval
  <2> QED  BY <2>1, FS_Subset
<1>2. back \in [A -> B] /\ \A i \in A : back[i] = t - i
  OBVIOUS
<1>3. \A i, j \in A : back[i] = back[j] => i = j
  <2>1. \A i, j \in A : t - i = t - j => i = j
    <3>1. A \subseteq Nat
      OBVIOUS
    <3> QED  BY <3>1
  <2> QED  BY <1>2, <2>1
<1>4. \A b \in B : \E i \in A : back[i] = b
  OBVIOUS
<1> HIDE DEF back, B
<1>5. back \in Bijection(A, B)
  BY <1>2, <1>3, <1>4 DEF Bijection, Injection, Surjection, IsInjective
<1>6. ExistsBijection(A, B)
  BY <1>5 DEF ExistsBijection
<1> QED  BY <1>1, <1>6, FS_Bijection DEF B

\* The trials before t that are, the latest first.
LEMMA RecentIsLatest ==
    ASSUME NEW t \in Trials, Done = 1..(t - 1)
    PROVE  /\ Considered(t) \in Nat /\ Considered(t) <= t - 1
           /\ Recent(t) = [i \in 1..Considered(t) |-> t - i]
           /\ Len(Recent(t)) = Considered(t)
<1>1. t \in Nat \ {0} /\ HistoryWindow \in Nat
  BY TrialLogAssumption DEF Trials
<1>2. Done \ {t} = 1..(t - 1) /\ t - 1 \in Nat
  BY <1>1
<1>3. Cardinality(1..(t - 1)) = t - 1
  BY <1>1, <1>2, FS_Interval
<1>4. Considered(t) \in Nat /\ Considered(t) <= t - 1
  BY <1>1 DEF Considered
<1> DEFINE n == Considered(t)
<1>5. \A i \in 1..n : Nth(1..(t - 1), (t - 1) + 1 - i) = t - i
  <2> SUFFICES ASSUME NEW i \in 1..n PROVE Nth(1..(t - 1), (t - 1) + 1 - i) = t - i
    OBVIOUS
  <2>1. (t - 1) + 1 - i = t - i /\ t - i \in 1..(t - 1)
    BY <1>1, <1>4
  <2>2. Nth(1..(t - 1), t - i) = t - i
    BY <1>2, <2>1, NthOfFirst
  <2> QED  BY <2>1, <2>2
<1>6. Recent(t) = [i \in 1..n |-> Nth(1..(t - 1), (t - 1) + 1 - i)]
  BY <1>2, <1>3 DEF Recent, Considered
<1>7. Recent(t) = [i \in 1..n |-> t - i]
  BY <1>5, <1>6
<1> HIDE DEF n
<1>8. Recent(t) \in [1..n -> Int] /\ n \in Nat
  BY <1>1, <1>4, <1>7 DEF n
<1>9. Len(Recent(t)) = n
  BY <1>8
<1> QED  BY <1>4, <1>7, <1>9 DEF n

\* That is what FeaturesFollowAnswers says of every trial that was served.
LEMMA FollowUnfolds ==
    FeaturesFollowAnswers <=>
        \A t \in Trials : HasRows /\ trial[t].features # None =>
            Follow(trial[t].features, t, summary, faults = 0)
<1> DEFINE Wrong(t) == {u \in Marked(t) : ~AdviceRight[u] /\ ~summary[u].right /\ ~summary[u].clicked}
<1>1. \A t \in Trials : Wrong(t) = {u \in Marked(t) : Blind(summary, u)}
  BY DEF Blind
<1> QED  BY <1>1 DEF FeaturesFollowAnswers, Follow, Considered, Marked

\* Features that follow one table of summaries follow another that agrees with
\* it on the earlier trials.
LEMMA FollowKept ==
    ASSUME NEW f, NEW t \in Trials, NEW S, NEW R, NEW whole, NEW still,
           Follow(f, t, S, whole), \A u \in 1..(t - 1) : R[u] = S[u], still => whole
    PROVE  Follow(f, t, R, still)
<1>1. t \in Nat \ {0} /\ HistoryWindow \in Nat
  BY TrialLogAssumption DEF Trials
<1>2. Marked(t) \subseteq 1..(t - 1)
  BY DEF Marked
<1>3. {u \in Marked(t) : ~R[u].right} = {u \in Marked(t) : ~S[u].right}
  BY <1>2
<1>4. {u \in Marked(t) : Blind(R, u)} = {u \in Marked(t) : Blind(S, u)}
  BY <1>2 DEF Blind
<1>5. [i \in 1..Considered(t) |-> R[t - i].latency] = [i \in 1..Considered(t) |-> S[t - i].latency]
  <2>1. \A i \in 1..Considered(t) : t - i \in 1..(t - 1)
    BY <1>1 DEF Considered
  <2> QED  BY <2>1
<1> QED  BY <1>3, <1>4, <1>5 DEF Follow

\* What is remembered of a completed trial: its summary, and a click that the
\* summary may lack only after a request was cut off.
LEMMA RememberedIsSummary ==
    ASSUME LogInv, Evidence, ClicksFit, NEW u \in Done
    PROVE  /\ summary[u] \in SummaryRows
           /\ Remembered(u).error = ~summary[u].right
           /\ Remembered(u).latency = summary[u].latency /\ Remembered(u).latency # None
           /\ Remembered(u).blind \in BOOLEAN /\ (Remembered(u).blind => Blind(summary, u))
           /\ faults = 0 => Remembered(u).blind = Blind(summary, u)
<1>1. u \in Trials /\ HasRows /\ trial[u].done
  BY DEF Done
<1>2. summary[u] \in SummaryRows /\ summary[u] # None
  BY <1>1 DEF LogInv, Shapes, Stored, Recorded
<1>3. log[u].response # None /\ log[u].finish = summary[u].latency
  BY DEF Evidence
<1>4. /\ summary[u].right \in BOOLEAN /\ summary[u].clicked \in BOOLEAN
      /\ summary[u].latency \in Nat /\ summary[u].latency # None
  BY <1>2, NullAssumption DEF SummaryRows
<1>5. faults = 0 /\ log[u].click # None => summary[u].clicked
  BY <1>1 DEF ClicksFit
<1> DEFINE blind == ~AdviceRight[u] /\ ~summary[u].right
                    /\ ~(log[u].click # None \/ summary[u].clicked)
<1>6. /\ Remembered(u).error = ~summary[u].right /\ Remembered(u).blind = blind
      /\ Remembered(u).latency = summary[u].latency
  BY <1>2, <1>3, <1>4 DEF Remembered
<1>7. blind => Blind(summary, u)
  BY DEF Blind
<1>8. faults = 0 => (blind <=> Blind(summary, u))
  BY <1>5 DEF Blind
<1>9. blind \in BOOLEAN /\ Blind(summary, u) \in BOOLEAN
  BY DEF Blind
<1> HIDE DEF blind
<1> QED  BY <1>2, <1>4, <1>6, <1>7, <1>8, <1>9

\* What next_trial computes for the first pending trial are the features of
\* the answers that count.
LEMMA LaggedFollows ==
    ASSUME LogInv, Evidence, ClicksFit, NEW t \in Trials, Done = 1..(t - 1)
    PROVE  Lagged(t) \in FeatureRows /\ Follow(Lagged(t), t, summary, faults = 0)
<1> DEFINE n == Considered(t)
           records == [i \in 1..n |-> Remembered(t - i)]
           marked == {i \in 1..n : i <= MarkerWindow}
           timed == {i \in 1..n : records[i].latency # None}
           errors == {i \in marked : records[i].error}
           blind == {i \in marked : records[i].blind}
           latencies == [i \in 1..Cardinality(timed) |-> records[Nth(timed, i)].latency]
<1>1. /\ n \in Nat /\ n <= t - 1 /\ t \in Nat \ {0}
      /\ Recent(t) = [i \in 1..n |-> t - i] /\ Len(Recent(t)) = n
  BY RecentIsLatest, TrialLogAssumption DEF Trials
<1>2. /\ [i \in 1..Len(Recent(t)) |-> Remembered(Recent(t)[i])] = records
      /\ Len(records) = n
  <2>1. [i \in 1..Len(Recent(t)) |-> Remembered(Recent(t)[i])] = records
    BY <1>1
  <2>2. records \in Seq({records[i] : i \in 1..n})
    <3>1. records \in [1..n -> {records[i] : i \in 1..n}] /\ n \in Nat
      BY <1>1
    <3> HIDE DEF records
    <3> QED  BY <3>1
  <2>3. DOMAIN records = 1..n
    OBVIOUS
  <2> HIDE DEF records
  <2>4. Len(records) = n
    BY <1>1, <2>2, <2>3
  <2> QED  BY <2>1, <2>4
<1>3. Lagged(t) = [errors |-> Cardinality(errors), blind |-> Cardinality(blind),
                   latency |-> LatencyBucket(latencies), considered |-> n]
  <2> DEFINE recent == Recent(t)
             rows == [i \in 1..Len(recent) |-> Remembered(recent[i])]
  <2>1. rows = records /\ Len(rows) = n
    BY <1>2
  <2>2. Lagged(t) =
          [errors |-> Cardinality({i \in {i \in 1..Len(rows) : i <= MarkerWindow} : rows[i].error}),
           blind |-> Cardinality({i \in {i \in 1..Len(rows) : i <= MarkerWindow} : rows[i].blind}),
           latency |-> LatencyBucket(
               [i \in 1..Cardinality({j \in 1..Len(rows) : rows[j].latency # None}) |->
                    rows[Nth({j \in 1..Len(rows) : rows[j].latency # None}, i)].latency]),
           considered |-> Len(rows)]
    BY DEF Lagged
  <2> HIDE DEF rows, records
  <2> QED  BY <2>1, <2>2
<1>4. \A i \in 1..n : t - i \in Done
  BY <1>1
<1>5. \A i \in 1..n : /\ records[i].error = ~summary[t - i].right
                      /\ records[i].latency = summary[t - i].latency
                      /\ records[i].latency # None
                      /\ records[i].blind \in BOOLEAN
                      /\ records[i].blind => Blind(summary, t - i)
                      /\ faults = 0 => records[i].blind = Blind(summary, t - i)
  BY <1>4, RememberedIsSummary
<1>6. LatencyBucket(latencies) = LatencyBucket([i \in 1..n |-> summary[t - i].latency])
  <2>1. timed = 1..n
    BY <1>5
  <2>2. Cardinality(timed) = n
    <3>1. Cardinality(1..n) = n
      <4> HIDE DEF n
      <4> QED  BY <1>1, FS_Interval
    <3> HIDE DEF timed
    <3> QED  BY <2>1, <3>1
  <2>3. \A i \in 1..n : Nth(timed, i) = i
    BY <1>1, <2>1, NthOfFirst
  <2> HIDE DEF timed, records
  <2>4. latencies = [i \in 1..n |-> summary[t - i].latency]
    BY <1>5, <2>2, <2>3
  <2> QED  BY <2>4
<1>7. \A u : u \in Marked(t) <=> \E i \in marked : u = t - i
  <2>1. MarkerWindow \in Nat /\ HistoryWindow \in Nat /\ MarkerWindow <= HistoryWindow
    BY TrialLogAssumption
  <2>2. ASSUME NEW u \in Marked(t) PROVE t - u \in marked /\ u = t - (t - u)
    BY <1>1, <2>1, <2>2 DEF Marked, Considered
  <2>3. ASSUME NEW i \in marked PROVE t - i \in Marked(t)
    BY <1>1, <2>1, <2>3 DEF Marked
  <2> QED  BY <2>2, <2>3
<1>8. marked \subseteq 1..t
  BY <1>1
<1> HIDE DEF records, marked, n
<1>9. \A i \in marked : i \in 1..n
  BY DEF marked
<1>10. Cardinality(errors) = Cardinality({u \in Marked(t) : ~summary[u].right})
  <2>1. {t - i : i \in errors} = {u \in Marked(t) : ~summary[u].right}
    BY <1>5, <1>7, <1>9
  <2>2. Cardinality({t - i : i \in errors}) = Cardinality(errors)
    <3>1. errors \in SUBSET (1..t) /\ t \in Nat
      BY <1>1, <1>8
    <3> HIDE DEF errors
    <3> QED  BY <3>1, MirroredCount
  <2> QED  BY <2>1, <2>2
<1>11. /\ Cardinality(blind) <= Cardinality({u \in Marked(t) : Blind(summary, u)})
       /\ faults = 0 => Cardinality(blind) = Cardinality({u \in Marked(t) : Blind(summary, u)})
  <2> DEFINE early == {t - i : i \in blind}
  <2>1. early \subseteq {u \in Marked(t) : Blind(summary, u)}
    BY <1>5, <1>7, <1>9
  <2>2. faults = 0 => early = {u \in Marked(t) : Blind(summary, u)}
    BY <1>5, <1>7, <1>9
  <2>3. Cardinality(early) = Cardinality(blind)
    <3>1. blind \in SUBSET (1..t) /\ t \in Nat
      BY <1>1, <1>8
    <3> HIDE DEF blind
    <3> QED  BY <3>1, MirroredCount
  <2>4. IsFiniteSet({u \in Marked(t) : Blind(summary, u)})
    <3>1. {u \in Marked(t) : Blind(summary, u)} \in SUBSET (1..t) /\ t \in Nat
      BY <1>1 DEF Marked
    <3>2. IsFiniteSet(1..t)
      BY <3>1, FS_Interval
    <3> QED  BY <3>1, <3>2, FS_Subset
  <2> HIDE DEF early
  <2>5. Cardinality(early) <= Cardinality({u \in Marked(t) : Blind(summary, u)})
    BY <2>1, <2>4, FS_Subset
  <2> QED  BY <2>2, <2>3, <2>5
<1>12. Cardinality(errors) \in Nat /\ Cardinality(blind) \in Nat
  <2>1. errors \in SUBSET (1..t) /\ blind \in SUBSET (1..t) /\ t \in Nat
    BY <1>1, <1>8
  <2>2. IsFiniteSet(1..t)
    BY <2>1, FS_Interval
  <2> HIDE DEF errors, blind
  <2>3. IsFiniteSet(errors) /\ IsFiniteSet(blind)
    BY <2>1, <2>2, FS_Subset
  <2> QED  BY <2>3, FS_CardinalityType
<1>13. \A s : LatencyBucket(s) \in Levels
  BY DEF LatencyBucket, Levels
<1> HIDE DEF errors, blind, latencies
<1>14. Lagged(t) \in FeatureRows
  BY <1>1, <1>3, <1>12, <1>13 DEF FeatureRows, n
<1>15. Follow(Lagged(t), t, summary, faults = 0)
  BY <1>3, <1>6, <1>10, <1>11 DEF Follow, n
<1> QED  BY <1>14, <1>15

-----------------------------------------------------------------------------
(* The requests of the session.                                            *)

\* Served trials keep what they were served with, completed ones are final.
Final ==
    HasRows =>
        /\ HasRows'
        /\ \A t \in Trials : trial[t].decision # None =>
               trial'[t].decision # None /\ trial'[t].features = trial[t].features
        /\ \A t \in Done : t \in Done' /\ summary'[t] = summary[t]

\* The invariant of the answers holds at first.
LEMMA AnswersStart == LogInit => AnswersInv
<1> SUFFICES ASSUME LogInit PROVE AnswersInv
  OBVIOUS
<1>1. /\ ~HasRows /\ Done = {} /\ call.at = "idle"
      /\ \A t \in Trials : summary[t] = None /\ log[t].click = None
  BY DEF LogInit, HasRows, Done, Idle
<1> QED  BY <1>1 DEF AnswersInv, Routed, Evidence, ClicksFit, Submitting

\* Steps that leave the trials, the summaries and the events alone.
LEMMA OtherStepsKeepAnswers ==
    ASSUME AnswersInv, UNCHANGED <<trial, summary, log>>, answered \subseteq answered',
           faults' = faults \/ faults' # 0,
           \/ call' = call
           \/ call'.at \notin Submitting /\ (faults' # 0 \/ call.at \notin Submitting)
    PROVE  AnswersInv' /\ Final
<1> USE DEF AnswersInv, HasRows
<1>1. Done' = Done /\ (HasRows => HasRows')
  BY DEF Done
<1>2. Final
  BY <1>1 DEF Final
<1>3. Routed'
  <2> SUFFICES ASSUME HasRows', NEW t \in Trials
               PROVE  /\ RowOK(trial', t)
                      /\ trial'[t].decision # None => BlocksBefore(t) \subseteq answered'
                      /\ trial'[t].features # None =>
                             Follow(trial'[t].features, t, summary', faults' = 0)
    BY DEF Routed, RowOK
  <2>1. /\ RowOK(trial, t)
        /\ trial[t].decision # None => BlocksBefore(t) \subseteq answered
        /\ trial[t].features # None => Follow(trial[t].features, t, summary, faults = 0)
    BY DEF Routed
  <2>2. trial[t].features # None => Follow(trial[t].features, t, summary, faults' = 0)
    BY <2>1 DEF Follow
  <2> QED  BY <2>1, <2>2
<1>4. Evidence'
  BY <1>1 DEF Evidence, Submitting
<1>5. ClicksFit'
  BY <1>1 DEF ClicksFit, Submitting
<1> QED  BY <1>2, <1>3, <1>4, <1>5

\* start_session inserts rows that are pending.
LEMMA StartInsertKeepsAnswers == ASSUME AnswersInv, StartInsert PROVE AnswersInv' /\ Final
<1>1. /\ ~HasRows /\ Done = {} /\ call.at = "idle" /\ UNCHANGED <<summary, log, faults>>
      /\ \A t \in Trials : trial'[t] = Pending
      /\ call'.at = "start" \/ call'.at = call.at
  BY DEF StartInsert, Goto, HasRows, Done
<1>2. Done' = {} /\ call'.at \notin Submitting
  BY <1>1 DEF Done, Pending, StartInsert, Goto, Submitting
<1>3. Routed'
  <2>1. \A t \in Trials : /\ trial'[t].done = FALSE /\ trial'[t].decision = None
                          /\ trial'[t].features = None
    BY <1>1 DEF Pending
  <2> QED  BY <2>1 DEF Routed, RowOK
<1>4. Evidence'
  BY <1>1, <1>2 DEF AnswersInv, Evidence, Submitting
<1>5. ClicksFit'
  BY <1>1, <1>2 DEF AnswersInv, ClicksFit, Submitting
<1> QED  BY <1>1, <1>3, <1>4, <1>5 DEF AnswersInv, Final

\* The first pending trial is served when exactly the earlier ones are
\* completed, and every earlier block has its questionnaire.
LEMMA ServedInOrder ==
    ASSUME AnswersInv, NEW t \in Trials, Serve(t)
    PROVE  Done = 1..(t - 1) /\ BlocksBefore(t) \subseteq answered
<1> USE DEF AnswersInv
<1>1. HasRows /\ Full \subseteq answered /\ t \notin Done /\ \A u \in Trials \ Done : t <= u
  BY DEF Serve
<1>2. Trials = 1..NTrials /\ NTrials \in Nat /\ t \in Nat \ {0}
  BY TrialLogAssumption DEF Trials
<1>3. \A u \in Trials : u < t => u \in Done
  BY <1>1, <1>2
<1>4. ASSUME NEW u \in Done PROVE u < t
  <2>1. u \in Trials /\ trial[u].done
    BY DEF Done
  <2>2. \A v \in 1..(u - 1) : trial[v].done
    BY <1>1, <2>1 DEF Routed, RowOK
  <2>3. ~trial[t].done
    BY <1>1 DEF Done
  <2> QED  BY <1>2, <2>1, <2>2, <2>3
<1>5. Done = 1..(t - 1)
  BY <1>2, <1>3, <1>4 DEF Done
<1>6. ASSUME NEW b \in BlocksBefore(t) PROVE b \in Full
  <2>1. b \in MainBlocks /\ b < Block[t]
    BY DEF BlocksBefore
  <2>2. ASSUME NEW u \in Trials, Block[u] = b PROVE u \in Done
    <3>1. u < t \/ u = t \/ t < u
      BY <1>2
    <3>2. t < u => Block[t] <= Block[u]
      BY TrialLogAssumption
    <3>3. Block[t] \in Int /\ Block[u] \in Int
      BY TrialLogAssumption
    <3> QED  BY <1>3, <2>1, <2>2, <3>1, <3>2, <3>3
  <2> QED  BY <2>1, <2>2 DEF Full
<1> QED  BY <1>1, <1>5, <1>6

\* A row that is as the invariant says is one the table can hold.
LEMMA ServedRow ==
    ASSUME LogInv, HasRows, NEW t \in Trials, RowOK(trial, t) PROVE trial[t] \in TrialRows
<1>1. trial[t] = [done |-> trial[t].done, features |-> trial[t].features,
                  risk |-> trial[t].risk, decision |-> trial[t].decision]
  BY DEF LogInv, Shapes
<1>2. trial[t].risk \in Buckets \cup {None}
  BY DEF LogInv, LogTypeOK, Buckets
<1>3. trial[t].features \in FeatureRows \cup {None} /\ trial[t].done \in BOOLEAN
  BY DEF RowOK
<1>4. trial[t].decision \in Decisions \cup {None}
  <2>1. Condition[t] \in Conditions
    BY TrialLogAssumption
  <2> QED  BY <2>1 DEF RowOK, Decisions
<1> QED  BY <1>1, <1>2, <1>3, <1>4 DEF TrialRows

\* next_trial stores the features of the answers that count.
LEMMA ServeKeepsAnswers ==
    ASSUME LogInv, AnswersInv, NEW t \in Trials, Serve(t) PROVE AnswersInv' /\ Final
<1> USE DEF AnswersInv
<1>1. PICK f : f = Lagged(t)
  OBVIOUS
<1>2. PICK bucket : bucket = RiskBucket(t, f)
  OBVIOUS
<1>3. /\ HasRows /\ UNCHANGED <<summary, log, answered, call, faults>> /\ call.at = "idle"
      /\ bucket \in Buckets
      /\ trial' = [u \in Trials |-> trial'[u]]
      /\ trial'[t] = [done |-> trial[t].done, features |-> f, risk |-> bucket,
                      decision |-> Decision(Condition[t], bucket)]
      /\ \A u \in Trials \ {t} : trial'[u] = trial[u]
  BY <1>1, <1>2, ServeStores
<1>4. trial[t].decision = None /\ t \notin Done
  BY DEF Serve
<1>5. Done = 1..(t - 1) /\ BlocksBefore(t) \subseteq answered
  BY ServedInOrder
<1>6. f \in FeatureRows /\ Follow(f, t, summary, faults = 0)
  BY <1>1, <1>5, LaggedFollows
<1>7. Decision(Condition[t], bucket) \in Decisions /\ Decision(Condition[t], bucket) # None
  <2>1. Condition[t] \in Conditions
    BY TrialLogAssumption
  <2>2. Decision(Condition[t], bucket) \in Decisions
    BY <1>3, <2>1 DEF Decisions
  <2> QED  BY <2>2, DecisionAssumption
<1> DEFINE help == Decision(Condition[t], bucket)
<1>8. help \in Decisions /\ help # None
  BY <1>7
<1>9. trial'[t] = [done |-> trial[t].done, features |-> f, risk |-> bucket, decision |-> help]
  BY <1>3
<1> HIDE DEF help
<1>10. /\ RowOK(trial, t) /\ trial[t].done = FALSE
       /\ \A u \in Trials : RowOK(trial, u)
  <2>1. \A u \in Trials : RowOK(trial, u)
    BY <1>3 DEF Routed
  <2>2. trial[t].done \in BOOLEAN /\ ~trial[t].done
    BY <1>3, <1>4, <2>1 DEF RowOK, Done
  <2> QED  BY <2>1, <2>2
<1>11. HasRows'
  <2>1. \A u \in Trials : trial'[u] \in TrialRows
    <3>1. trial'[t] \in TrialRows
      <4>1. trial[t].done \in BOOLEAN
        BY <1>10
      <4> QED  BY <1>3, <1>6, <1>8, <1>9, <4>1 DEF TrialRows
    <3>2. ASSUME NEW u \in Trials \ {t} PROVE trial[u] \in TrialRows
      BY <1>3, <1>10, ServedRow
    <3> QED  BY <1>3, <3>1, <3>2
  <2>2. trial' \in [Trials -> TrialRows]
    <3>1. trial' = [u \in Trials |-> trial'[u]]
      BY <1>3
    <3> QED  BY <2>1, <3>1
  <2> QED  BY <2>2, DecisionAssumption DEF HasRows
<1>12. Done' = Done
  BY <1>3, <1>9, <1>10, <1>11 DEF Done
<1>13. Final
  BY <1>3, <1>4, <1>11, <1>12 DEF Final
<1>14. Routed'
  <2> SUFFICES ASSUME NEW u \in Trials
               PROVE  /\ RowOK(trial', u)
                      /\ trial'[u].decision # None => BlocksBefore(u) \subseteq answered
                      /\ trial'[u].features # None =>
                             Follow(trial'[u].features, u, summary, faults = 0)
    BY <1>3 DEF Routed, RowOK
  <2>1. \A v \in Trials : trial'[v].done = trial[v].done
    BY <1>3, <1>9
  <2>2. CASE u = t
    <3>1. \A v \in 1..(t - 1) : trial[v].done
      BY <1>5 DEF Done
    <3>2. 1..(t - 1) \subseteq Trials
      BY <1>5 DEF Done
    <3>3. RowOK(trial', t)
      BY <1>3, <1>6, <1>8, <1>9, <1>10, <2>1, <3>1, <3>2 DEF RowOK, help
    <3> QED  BY <1>5, <1>6, <1>9, <2>2, <3>3
  <2>3. CASE u # t
    <3>1. trial'[u] = trial[u]
      BY <1>3, <2>3
    <3>2. 1..(u - 1) \subseteq Trials
      BY TrialLogAssumption DEF Trials
    <3>3. /\ RowOK(trial, u)
          /\ trial[u].decision # None => BlocksBefore(u) \subseteq answered
          /\ trial[u].features # None => Follow(trial[u].features, u, summary, faults = 0)
      BY <1>3 DEF Routed
    <3>4. RowOK(trial', u)
      BY <2>1, <3>1, <3>2, <3>3 DEF RowOK
    <3> QED  BY <3>1, <3>3, <3>4
  <2> QED  BY <2>2, <2>3
<1>15. Evidence'
  BY <1>3, <1>12 DEF Evidence, Submitting
<1>16. ClicksFit'
  BY <1>3, <1>12 DEF ClicksFit, Submitting
<1> QED  BY <1>13, <1>14, <1>15, <1>16

\* submit_trial begins for a trial that was served and is not completed.
LEMMA SubmitKeepsAnswers ==
    ASSUME LogInv, AnswersInv, NEW t \in Trials, NEW p \in Payloads[t], SubmitTrial(t, p)
    PROVE  AnswersInv' /\ Final
<1> USE DEF AnswersInv
<1>1. /\ UNCHANGED <<status, trial, summary, log, answered, faults>> /\ call.at = "idle"
      /\ call'.at = (IF p.clicked THEN "logClick" ELSE "logResponse")
      /\ call'.trial = t /\ call'.payload = p
      /\ ~trial[t].done /\ trial[t].decision # None /\ HasRows
  BY DEF SubmitTrial, tables
<1>2. Done' = Done /\ HasRows' /\ t \notin Done
  BY <1>1 DEF Done, HasRows
<1>3. Final
  BY <1>1, <1>2 DEF Final
<1>4. Routed'
  BY <1>1 DEF Routed, RowOK, HasRows
<1>5. Evidence'
  BY <1>1, <1>2 DEF Evidence
<1>6. ClicksFit'
  BY <1>1, <1>2 DEF ClicksFit, Submitting
<1> QED  BY <1>3, <1>4, <1>5, <1>6

\* The request that is submitted is of a trial that is not completed.
LEMMA SubmittedIsPending ==
    ASSUME LogInv, AnswersInv, call.at \in Submitting
    PROVE  /\ HasRows /\ call.trial \in Trials /\ call.trial \notin Done
           /\ call.payload.right \in BOOLEAN /\ call.payload.clicked \in BOOLEAN
           /\ call.payload.latency \in Nat
<1>1. HasRows /\ call.trial \in Trials /\ call.payload \in Payloads[call.trial]
  BY DEF LogInv, Stored
<1>2. call.payload \in [right : BOOLEAN, clicked : BOOLEAN, latency : Nat]
  BY <1>1, TrialLogAssumption
<1>3. call.trial \notin Done
  BY DEF AnswersInv, Evidence, Done
<1> QED  BY <1>1, <1>2, <1>3

\* The events of a submission are of a trial that is not completed.
LEMMA LogEventKeepsAnswers ==
    ASSUME LogInv, AnswersInv,
           NEW from \in Submitting, NEW to \in {"logResponse", "logFinish", "summary"},
           NEW type \in {"click", "response", "finish"}, NEW value,
           LogEvent(from, type, value, to)
    PROVE  (\/ from = "logClick" /\ type = "click" /\ to = "logResponse"
            \/ from = "logResponse" /\ type = "response" /\ value = call.payload.right
               /\ to = "logFinish"
            \/ from = "logFinish" /\ type = "finish" /\ value = call.payload.latency
               /\ to = "summary")
           => AnswersInv' /\ Final
<1> DEFINE t == call.trial
<1>1. /\ call.at = from /\ UNCHANGED <<trial, summary, answered, faults>>
      /\ call'.at = to /\ call'.trial = t /\ call'.payload = call.payload
      /\ \A u \in Trials \ {t} : log'[u] = log[u]
      /\ log'[t].click = IF type = "click" THEN value ELSE log[t].click
      /\ log'[t].response = IF type = "response" THEN value ELSE log[t].response
      /\ log'[t].finish = IF type = "finish" THEN value ELSE log[t].finish
  <2>1. /\ call.at = from /\ UNCHANGED <<status, trial, summary, answered, faults>>
        /\ call' = [at |-> to, trial |-> call.trial, payload |-> call.payload]
        /\ HasRows /\ call.trial \in Trials /\ call.payload \in Payloads[call.trial]
    BY LogEventStores
  <2>2. /\ \A u \in Trials \ {call.trial} : log'[u] = log[u]
        /\ log'[call.trial] =
               [click |-> IF type = "click" THEN value ELSE log[call.trial].click,
                response |-> IF type = "response" THEN value ELSE log[call.trial].response,
                finish |-> IF type = "finish" THEN value ELSE log[call.trial].finish]
    BY LogEventStores
  <2>3. call'.at = to /\ call'.trial = t /\ call'.payload = call.payload
    BY <2>1
  <2>4. /\ log'[t].click = IF type = "click" THEN value ELSE log[t].click
        /\ log'[t].response = IF type = "response" THEN value ELSE log[t].response
        /\ log'[t].finish = IF type = "finish" THEN value ELSE log[t].finish
    BY <2>2
  <2> QED  BY <2>1, <2>2, <2>3, <2>4
<1> SUFFICES ASSUME \/ from = "logClick" /\ type = "click" /\ to = "logResponse"
                    \/ from = "logResponse" /\ type = "response" /\ value = call.payload.right
                       /\ to = "logFinish"
                    \/ from = "logFinish" /\ type = "finish" /\ value = call.payload.latency
                       /\ to = "summary"
             PROVE  AnswersInv' /\ Final
  OBVIOUS
<1>2. /\ HasRows /\ t \in Trials /\ t \notin Done
      /\ call.payload.right # None
  BY <1>1, SubmittedIsPending, NullAssumption
<1>3. Done' = Done /\ HasRows' /\ call.at \in Submitting /\ call'.at \in Submitting
  BY <1>1, <1>2 DEF Done, HasRows, Submitting
<1>4. Final
  BY <1>1, <1>3 DEF Final
<1>5. Routed'
  BY <1>1 DEF AnswersInv, Routed, RowOK, HasRows
<1> HIDE DEF t
<1>6. Evidence'
  <2>1. \A u \in Trials : summary'[u] # None => summary'[u].risk # None
    BY <1>1 DEF AnswersInv, Evidence
  <2>2. \A u \in Done : log'[u].response # None /\ log'[u].finish = summary'[u].latency
    BY <1>1, <1>2 DEF AnswersInv, Evidence, Done
  <2>3. trial'[t].decision # None /\ ~trial'[t].done
    BY <1>1, <1>3 DEF AnswersInv, Evidence, t
  <2>4. /\ to \in {"logFinish", "summary"} => log'[t].response # None
        /\ to = "summary" => log'[t].finish = call.payload.latency
        /\ to # "complete"
    BY <1>1, <1>2 DEF AnswersInv, Evidence, t
  <2> QED  BY <1>1, <1>3, <2>1, <2>2, <2>3, <2>4 DEF Evidence
<1>7. ClicksFit'
  <2> SUFFICES ASSUME faults = 0 PROVE ClicksFit'
    BY <1>1 DEF ClicksFit
  <2>1. \A u \in Done : log'[u].click # None => summary'[u].clicked
    BY <1>1, <1>2 DEF AnswersInv, ClicksFit, Done
  <2>2. \A u \in Trials \ Done : log[u].click # None => u = t /\ call.payload.clicked
    BY DEF AnswersInv, ClicksFit, t
  <2>3. type = "click" => call.payload.clicked
    BY <1>1 DEF AnswersInv, ClicksFit
  <2>4. \A u \in Trials \ Done : log'[u].click # None => u = t /\ call.payload.clicked
    BY <1>1, <2>2, <2>3
  <2>5. to # "logClick" /\ to # "complete"
    OBVIOUS
  <2> QED  BY <1>1, <1>3, <2>1, <2>4, <2>5 DEF ClicksFit
<1> QED  BY <1>4, <1>5, <1>6, <1>7 DEF AnswersInv

\* The summary is written of a trial that is not completed, so no features
\* rest on it.
LEMMA WriteSummaryKeepsAnswers ==
    ASSUME LogInv, AnswersInv, WriteSummary PROVE AnswersInv' /\ Final
<1> DEFINE t == call.trial
<1>1. /\ call'.at = "complete" /\ call'.trial = t /\ call'.payload = call.payload
      /\ call.at = "summary" /\ UNCHANGED <<trial, log, answered, faults>>
      /\ \A u \in Trials \ {t} : summary'[u] = summary[u]
      /\ summary'[t].clicked = call.payload.clicked
      /\ summary'[t].latency = call.payload.latency
      /\ summary'[t].risk = trial[t].risk
  BY WriteSummaryStores
<1>2. HasRows /\ t \in Trials /\ t \notin Done /\ call.at \in Submitting
  BY <1>1, SubmittedIsPending DEF Submitting
<1>3. Done' = Done /\ HasRows' /\ \A u \in Done : summary'[u] = summary[u]
  BY <1>1, <1>2 DEF Done, HasRows
<1>4. Final
  BY <1>1, <1>3 DEF Final
<1>5. trial[t].decision # None /\ ~trial[t].done
  BY <1>2 DEF AnswersInv, Evidence
<1>6. trial[t].risk # None
  BY <1>2, <1>5, DecisionAssumption DEF AnswersInv, Routed, RowOK
<1> HIDE DEF t
<1>7. Routed'
  <2> SUFFICES ASSUME NEW u \in Trials
               PROVE  /\ RowOK(trial, u)
                      /\ trial[u].decision # None => BlocksBefore(u) \subseteq answered
                      /\ trial[u].features # None =>
                             Follow(trial[u].features, u, summary', faults = 0)
    BY <1>1 DEF Routed, RowOK
  <2>1. /\ RowOK(trial, u)
        /\ trial[u].decision # None => BlocksBefore(u) \subseteq answered
        /\ trial[u].features # None => Follow(trial[u].features, u, summary, faults = 0)
    BY <1>2 DEF AnswersInv, Routed
  <2>2. ASSUME trial[u].features # None
        PROVE  Follow(trial[u].features, u, summary', faults = 0)
    <3>1. \A v \in 1..(u - 1) : trial[v].done
      BY <2>1, <2>2 DEF RowOK
    <3>2. 1..(u - 1) \subseteq Trials
      BY TrialLogAssumption DEF Trials
    <3>3. 1..(u - 1) \subseteq Done
      BY <1>2, <3>1, <3>2 DEF Done
    <3>4. \A v \in 1..(u - 1) : summary'[v] = summary[v]
      BY <1>3, <3>3
    <3> QED  BY <2>1, <2>2, <3>4, FollowKept
  <2> QED  BY <2>1, <2>2
<1>8. Evidence'
  <2>1. \A u \in Trials : summary'[u] # None => summary'[u].risk # None
    BY <1>1, <1>6 DEF AnswersInv, Evidence
  <2>2. \A u \in Done : log'[u].response # None /\ log'[u].finish = summary'[u].latency
    BY <1>1, <1>3 DEF AnswersInv, Evidence
  <2>3. log[t].response # None /\ log[t].finish = call.payload.latency
    BY <1>1 DEF AnswersInv, Evidence, t
  <2> QED  BY <1>1, <1>3, <1>5, <2>1, <2>2, <2>3 DEF Evidence
<1>9. ClicksFit'
  <2> SUFFICES ASSUME faults = 0 PROVE ClicksFit'
    BY <1>1 DEF ClicksFit
  <2>1. \A u \in Done : log[u].click # None => summary'[u].clicked
    BY <1>3 DEF AnswersInv, ClicksFit, Done
  <2>2. \A u \in Trials \ Done : log[u].click # None => u = t /\ call.payload.clicked
    BY DEF AnswersInv, ClicksFit, t
  <2> QED  BY <1>1, <1>3, <2>1, <2>2 DEF ClicksFit, Submitting
<1> QED  BY <1>4, <1>7, <1>8, <1>9 DEF AnswersInv

\* A trial is completed when its events and its summary are of one answer.
LEMMA WriteCompletedKeepsAnswers ==
    ASSUME LogInv, AnswersInv, WriteCompleted PROVE AnswersInv' /\ Final
<1> DEFINE t == call.trial
<1>1. /\ call'.at = "await" /\ call.at = "complete"
      /\ UNCHANGED <<summary, log, answered, faults>>
      /\ trial' = [u \in Trials |-> trial'[u]]
      /\ trial'[t] = [done |-> TRUE, features |-> trial[t].features, risk |-> trial[t].risk,
                      decision |-> trial[t].decision]
      /\ \A u \in Trials \ {t} : trial'[u] = trial[u]
  BY WriteCompletedStores
<1>2. HasRows /\ t \in Trials /\ t \notin Done /\ call.at \in Submitting
  BY <1>1, SubmittedIsPending DEF Submitting
<1>3. trial[t].decision # None /\ ~trial[t].done
  BY <1>2 DEF AnswersInv, Evidence
<1>4. /\ log[t].response # None /\ log[t].finish = summary[t].latency
      /\ faults = 0 => summary[t].clicked = call.payload.clicked
  BY <1>1 DEF AnswersInv, Evidence, ClicksFit
<1>5. \A u \in Trials : RowOK(trial, u)
  BY <1>2 DEF AnswersInv, Routed
<1> HIDE DEF t
<1>6. \A u \in Trials : /\ trial'[u].decision = trial[u].decision
                        /\ trial'[u].features = trial[u].features
                        /\ trial'[u].risk = trial[u].risk
                        /\ trial'[u].done = (IF u = t THEN TRUE ELSE trial[u].done)
  <2>1. /\ trial'[t].decision = trial[t].decision /\ trial'[t].features = trial[t].features
        /\ trial'[t].risk = trial[t].risk /\ trial'[t].done = TRUE
    BY <1>1
  <2>2. \A u \in Trials \ {t} : trial'[u] = trial[u]
    BY <1>1
  <2> QED  BY <2>1, <2>2
<1>7. HasRows'
  <2>1. \A u \in Trials : trial'[u] \in TrialRows
    <3>1. \A u \in Trials : trial[u] \in TrialRows
      BY <1>2, <1>5, ServedRow
    <3>2. trial'[t] \in TrialRows
      BY <1>1, <1>2, <3>1 DEF TrialRows
    <3> QED  BY <1>1, <3>1, <3>2
  <2>2. trial' \in [Trials -> TrialRows]
    <3>1. trial' = [u \in Trials |-> trial'[u]]
      BY <1>1
    <3> QED  BY <2>1, <3>1
  <2> QED  BY <2>2, DecisionAssumption DEF HasRows
<1>8. Done' = Done \cup {t}
  BY <1>2, <1>6, <1>7 DEF Done
<1>9. Final
  BY <1>1, <1>6, <1>7, <1>8 DEF Final
<1>10. Routed'
  <2> SUFFICES ASSUME NEW u \in Trials
               PROVE  /\ RowOK(trial', u)
                      /\ trial'[u].decision # None => BlocksBefore(u) \subseteq answered
                      /\ trial'[u].features # None =>
                             Follow(trial'[u].features, u, summary, faults = 0)
    BY <1>1 DEF Routed, RowOK
  <2>1. /\ RowOK(trial, u)
        /\ trial[u].decision # None => BlocksBefore(u) \subseteq answered
        /\ trial[u].features # None => Follow(trial[u].features, u, summary, faults = 0)
    BY <1>2 DEF AnswersInv, Routed
  <2>2. 1..(u - 1) \subseteq Trials
    BY TrialLogAssumption DEF Trials
  <2>3. RowOK(trial', u)
    BY <1>3, <1>6, <2>1, <2>2 DEF RowOK
  <2> QED  BY <1>6, <2>1, <2>3
<1>11. Evidence'
  <2>1. \A u \in Done' : log[u].response # None /\ log[u].finish = summary[u].latency
    BY <1>4, <1>8 DEF AnswersInv, Evidence
  <2> QED  BY <1>1, <2>1 DEF AnswersInv, Evidence, Submitting
<1>12. ClicksFit'
  <2> SUFFICES ASSUME faults = 0 PROVE ClicksFit'
    BY <1>1 DEF ClicksFit
  <2>1. \A u \in Done : log[u].click # None => summary[u].clicked
    BY DEF AnswersInv, ClicksFit, Done
  <2>2. \A u \in Trials \ Done : log[u].click # None => u = t /\ call.payload.clicked
    BY DEF AnswersInv, ClicksFit, t
  <2>3. \A u \in Trials : log[u].click # None => u \in Done' /\ summary[u].clicked
    BY <1>4, <1>8, <2>1, <2>2
  <2> QED  BY <1>1, <2>3 DEF ClicksFit
<1> QED  BY <1>9, <1>10, <1>11, <1>12 DEF AnswersInv

\* Every request keeps the invariant of the answers.
LEMMA AnswersStep == ASSUME LogInv, AnswersInv, LogNext PROVE AnswersInv' /\ Final
<1>1. CASE LogEvent("logClick", "click", TRUE, "logResponse")
  BY <1>1, LogEventKeepsAnswers DEF Submitting
<1>2. CASE LogEvent("logResponse", "response", call.payload.right, "logFinish")
  BY <1>2, LogEventKeepsAnswers DEF Submitting
<1>3. CASE LogEvent("logFinish", "finish", call.payload.latency, "summary")
  BY <1>3, LogEventKeepsAnswers DEF Submitting
<1>4. CASE \/ CreateSession \/ StartWrite \/ (\E b \in MainBlocks : SubmitQuestionnaire(b))
           \/ MarkAwaiting \/ FinalSubmit \/ CutOff
  <2>1. UNCHANGED <<trial, summary, log>> /\ answered \subseteq answered'
    BY <1>4 DEF CreateSession, StartWrite, SubmitQuestionnaire, MarkAwaiting, FinalSubmit,
       CutOff, tables
  <2>2. faults' = faults \/ faults' # 0
    <3>1. faults \in Nat
      BY TrialLogAssumption DEF LogInv, LogTypeOK
    <3> QED  BY <1>4, <3>1 DEF CreateSession, StartWrite, SubmitQuestionnaire, MarkAwaiting,
       FinalSubmit, CutOff
  <2>3. \/ call' = call
        \/ call'.at \notin Submitting /\ (faults' # 0 \/ call.at \notin Submitting)
    <3>1. faults \in Nat
      BY TrialLogAssumption DEF LogInv, LogTypeOK
    <3> QED  BY <1>4, <3>1 DEF CreateSession, StartWrite, SubmitQuestionnaire, MarkAwaiting,
       FinalSubmit, CutOff, Idle, Submitting
  <2> QED  BY <2>1, <2>2, <2>3, OtherStepsKeepAnswers
<1> QED
  BY <1>1, <1>2, <1>3, <1>4, StartInsertKeepsAnswers, ServeKeepsAnswers, SubmitKeepsAnswers,
     WriteSummaryKeepsAnswers, WriteCompletedKeepsAnswers DEF LogNext

-----------------------------------------------------------------------------
(* A report.                                                               *)

\* What is completed or decided in the trial rows that were read.
LEMMA RowsRead ==
    ASSUME NEW x, NEW t \in Trials, Rows(x)[t].done \/ Rows(x)[t].decision # None
    PROVE  x.trials # None /\ x.trials # <<>> /\ Rows(x) = x.trials
BY DEF Rows, Pending

\* The same, of all the trials that count as completed.
LEMMA CompletedRead ==
    ASSUME NEW x, NEW t \in Completed(x)
    PROVE  /\ t \in Trials /\ x.trials # None /\ x.trials # <<>> /\ x.trials[t].done
<1>1. t \in Trials /\ Rows(x)[t].done
  BY DEF Completed
<1>2. x.trials # None /\ x.trials # <<>> /\ Rows(x) = x.trials
  BY <1>1, RowsRead
<1> QED  BY <1>1, <1>2

\* A report that has read nothing yet.
LEMMA UnreadJoins ==
    ASSUME reader'.seen = Unread PROVE SeenJoins' /\ TrialsFirst'
<1>1. /\ Unread.trials = None /\ Unread.summaries = None /\ Unread.events = None
      /\ Unread.questionnaires = None
  BY DEF Unread, Tables
<1> QED  BY <1>1 DEF SeenJoins, Joins, Earlier, TrialsFirst

\* Nothing that was read is withdrawn by the requests.
LEMMA RequestsKeepJoins ==
    ASSUME SeenJoins, TrialsFirst, Final, reader' = reader PROVE SeenJoins' /\ TrialsFirst'
<1> DEFINE x == reader.seen
<1>1. TrialsFirst'
  BY DEF TrialsFirst
<1>2. x' = x
  OBVIOUS
<1>3. PICK y : y = x
  OBVIOUS
<1>4. Joins(y)
  BY <1>3 DEF SeenJoins
<1>5. Earlier(y)'
  BY <1>4 DEF Joins, Earlier, Final, RowOK
<1>6. \A t \in Completed(y) : t \in Done
  BY <1>4, CompletedRead DEF Joins, Earlier
<1>7. \A t \in Completed(y) : summary'[t] = summary[t] /\ HasRows
  BY <1>6 DEF Final, Done
<1>8. (Joins(y))'
  BY <1>4, <1>5, <1>7 DEF Joins, Completed, Rows
<1>9. (Joins(x))'
  BY <1>2, <1>3, <1>8 DEF Joins, Earlier, Completed, Rows
<1> QED  BY <1>1, <1>9 DEF SeenJoins

\* One table more is read.
LEMMA ReadJoins ==
    ASSUME LogInv, AnswersInv, NEW x, x = [table \in Tables |-> x[table]], Joins(x),
           NEW table \in Tables, NEW y, y = [x EXCEPT ![table] = Current(table)],
           table = "trials" => x.summaries = None /\ x.events = None /\ x.questionnaires = None
    PROVE  Joins(y)
<1>1. /\ \A other \in Tables \ {table} : y[other] = x[other]
      /\ y[table] = Current(table)
  OBVIOUS
<1>2. \A t \in Completed(x) : t \in Done
  BY CompletedRead DEF Joins, Earlier
<1>3. CASE table = "sessions"
  <2>1. /\ y.trials = x.trials /\ y.summaries = x.summaries /\ y.events = x.events
        /\ y.questionnaires = x.questionnaires
    BY <1>1, <1>3 DEF Tables
  <2> QED  BY <2>1 DEF Joins, Earlier, Completed, Rows
<1>4. CASE table = "trials"
  <2>1. /\ y.summaries = None /\ y.events = None /\ y.questionnaires = None
        /\ y.trials = IF HasRows THEN trial ELSE <<>>
    BY <1>1, <1>4 DEF Tables, Current
  <2>2. Earlier(y)
    BY <2>1 DEF Earlier, AnswersInv, Routed, Done
  <2> QED  BY <2>1, <2>2 DEF Joins
<1>5. CASE table = "summaries"
  <2>1. /\ y.trials = x.trials /\ y.summaries = summary /\ y.events = x.events
        /\ y.questionnaires = x.questionnaires
    BY <1>1, <1>5 DEF Tables, Current
  <2>2. \A t \in Trials : summary[t] # None => summary[t].risk # None
    BY DEF AnswersInv, Evidence
  <2> QED  BY <2>1, <2>2 DEF Joins, Earlier, Completed, Rows
<1>6. CASE table = "events"
  <2>1. /\ y.trials = x.trials /\ y.summaries = x.summaries /\ y.events = Evidenced
        /\ y.questionnaires = x.questionnaires
    BY <1>1, <1>6 DEF Tables, Current
  <2>2. ASSUME NEW t \in Completed(x) PROVE t \in Evidenced
    <3>1. t \in Trials /\ HasRows /\ trial[t].done
      BY <1>2 DEF Done
    <3>2. summary[t] \in SummaryRows
      BY <3>1 DEF LogInv, Shapes, Stored, Recorded
    <3>3. summary[t].latency # None
      BY <3>2, NullAssumption DEF SummaryRows
    <3>4. log[t].response # None /\ log[t].finish = summary[t].latency
      BY <1>2 DEF AnswersInv, Evidence
    <3> QED  BY <3>1, <3>3, <3>4 DEF Evidenced
  <2> QED  BY <2>1, <2>2 DEF Joins, Earlier, Completed, Rows
<1>7. CASE table = "questionnaires"
  <2>1. /\ y.trials = x.trials /\ y.summaries = x.summaries /\ y.events = x.events
        /\ y.questionnaires = answered
    BY <1>1, <1>7 DEF Tables, Current
  <2>2. ASSUME NEW t \in Trials, Rows(x)[t].decision # None
        PROVE  BlocksBefore(t) \subseteq answered
    <3>1. x.trials # None /\ x.trials # <<>> /\ Rows(x) = x.trials
      BY <2>2, RowsRead
    <3>2. HasRows /\ trial[t].decision # None
      BY <2>2, <3>1 DEF Joins, Earlier
    <3> QED  BY <3>2 DEF AnswersInv, Routed
  <2> QED  BY <2>1, <2>2 DEF Joins, Earlier, Completed, Rows
<1> QED  BY <1>3, <1>4, <1>5, <1>6, <1>7 DEF Tables

\* The trial rows are read right after the sessions.
LEMMA TrialsAfterSessions ==
    ASSUME ExtractInv, ReadsTable, Table # "sessions", Tail(reader.todo) # <<>>
    PROVE  Head(Tail(reader.todo))[2] # "trials"
<1>1. CASE \E k \in 1..14 : /\ At(Dashboard, k) /\ Exported(k)
                            /\ Head(reader.todo) = Dashboard[k]
                            /\ Left(Tail(reader.todo), Dashboard, k + 1)
  <2>1. PICK k \in 1..14 : /\ Head(reader.todo) = Dashboard[k]
                           /\ Left(Tail(reader.todo), Dashboard, k + 1)
    BY <1>1
  <2>2. k + 1 \in 1..15 /\ Len(Dashboard) \in 1..14 /\ Len(Dashboard) = 14
    BY DashboardPlan
  <2>3. k + 1 <= Len(Dashboard) /\ Head(Tail(reader.todo)) = Dashboard[k + 1]
    BY <2>1, <2>2, Advance
  <2>4. Dashboard[k][2] # "sessions" /\ k \in 1..13
    BY <2>1, <2>2, <2>3 DEF Table
  <2>5. k \in {3, 4, 5, 6} \cup 8..13
    BY <2>4, DashboardPlan
  <2>6. Dashboard[k + 1][2] # "trials"
    BY <2>5, DashboardPlan
  <2> QED  BY <2>3, <2>6
<1>2. CASE \E k \in 1..5 : /\ At(LoadRun("panel"), k)
                           /\ Head(reader.todo) = LoadRun("panel")[k]
                           /\ Left(Tail(reader.todo), LoadRun("panel"), k + 1)
  <2> DEFINE plan == LoadRun("panel")
  <2>1. PICK k \in 1..5 : /\ Head(reader.todo) = plan[k]
                          /\ Left(Tail(reader.todo), plan, k + 1)
    BY <1>2
  <2>2. /\ plan[1][2] = "sessions" /\ plan[2][2] = "trials" /\ plan[3][2] = "summaries"
        /\ plan[4][2] = "events" /\ plan[5][2] = "questionnaires"
    BY DEF LoadRun
  <2>3. k + 1 \in 1..15 /\ Len(plan) \in 1..14 /\ Len(plan) = 5
    BY ShortPlans
  <2> HIDE DEF plan
  <2>4. k + 1 <= Len(plan) /\ Head(Tail(reader.todo)) = plan[k + 1]
    BY <2>1, <2>3, Advance
  <2>5. plan[k][2] # "sessions" /\ k \in 1..4
    BY <2>1, <2>3, <2>4 DEF Table
  <2>6. k \in 2..4
    BY <2>2, <2>5
  <2>7. plan[k + 1][2] # "trials"
    BY <2>2, <2>6
  <2> QED  BY <2>4, <2>7
<1>3. CASE \E k \in 1..4 : /\ At(OwnExport, k)
                           /\ Head(reader.todo) = OwnExport[k]
                           /\ Left(Tail(reader.todo), OwnExport, k + 1)
  <2>1. PICK k \in 1..4 : Left(Tail(reader.todo), OwnExport, k + 1)
    BY <1>3
  <2>2. /\ OwnExport[1][2] = "sessions" /\ OwnExport[2][2] = "events"
        /\ OwnExport[3][2] = "summaries" /\ OwnExport[4][2] = "questionnaires"
    BY DEF OwnExport
  <2>3. k + 1 \in 1..15 /\ Len(OwnExport) \in 1..14 /\ Len(OwnExport) = 4
    BY ShortPlans
  <2>4. k + 1 <= Len(OwnExport) /\ Head(Tail(reader.todo)) = OwnExport[k + 1]
    BY <2>1, <2>3, Advance
  <2>5. k + 1 \in 1..4
    BY <2>3, <2>4
  <2>6. \A i \in 1..4 : OwnExport[i][2] # "trials"
    BY <2>2
  <2> QED  BY <2>4, <2>5, <2>6
<1>4. reader.todo # <<>>
  BY DEF ReadsTable
<1> QED  BY <1>1, <1>2, <1>3, <1>4, NextStatement

\* Reading a table keeps what is said of the report.
LEMMA ReadKeepsJoins ==
    ASSUME ExtractInv, AnswersInv, SeenJoins, TrialsFirst, ReadsTable
    PROVE  SeenJoins' /\ TrialsFirst'
<1>1. /\ Table \in Tables /\ (Table = "sessions" => reader.load # Load)
      /\ reader'.seen = Seen
  BY SessionsFirst DEF ReadsTable
<1>2. /\ Unread.trials = None /\ Unread.summaries = None /\ Unread.events = None
      /\ Unread.questionnaires = None /\ Unread = [table \in Tables |-> Unread[table]]
  BY DEF Unread, Tables
<1>3. Joins(Before) /\ Before = [table \in Tables |-> Before[table]]
  <2>1. Joins(Unread)
    BY <1>2 DEF Joins, Earlier
  <2>2. reader.seen = [table \in Tables |-> reader.seen[table]]
    BY DEF ExtractInv, ReaderInv, ReaderShape
  <2>3. CASE Before = Unread
    BY <1>2, <2>1, <2>3
  <2>4. CASE Before = reader.seen
    BY <2>2, <2>4 DEF SeenJoins
  <2> QED  BY <2>3, <2>4 DEF Before
<1>4. Table = "trials" =>
          Before.summaries = None /\ Before.events = None /\ Before.questionnaires = None
  BY <1>2 DEF TrialsFirst, Before, Table, ReadsTable
<1>5. Joins(Seen)
  <2>1. PICK x : x = Before
    OBVIOUS
  <2>2. PICK table : table = Table
    OBVIOUS
  <2>3. PICK y : y = [x EXCEPT ![table] = Current(table)]
    OBVIOUS
  <2>4. Joins(y)
    BY <1>1, <1>3, <1>4, <2>1, <2>2, <2>3, ReadJoins DEF ExtractInv
  <2> QED  BY <2>1, <2>2, <2>3, <2>4 DEF Seen
<1>6. SeenJoins'
  <2>1. PICK y : y = Seen
    OBVIOUS
  <2>2. UNCHANGED <<trial, summary>>
    BY DEF ReadsTable
  <2>3. Joins(y)'
    BY <1>5, <2>1, <2>2 DEF Joins, Earlier, Completed, Rows, HasRows, Done
  <2>4. reader'.seen = y
    BY <1>1, <2>1
  <2> QED  BY <2>3, <2>4 DEF SeenJoins, Joins, Earlier, Completed, Rows
<1>7. TrialsFirst'
  <2>1. CASE Table = "sessions"
    <3>1. Seen = [Unread EXCEPT !["sessions"] = Current("sessions")]
      BY <1>1, <2>1 DEF Seen, Before
    <3>2. Seen.summaries = None /\ Seen.events = None /\ Seen.questionnaires = None
      BY <1>2, <3>1
    <3> QED  BY <1>1, <3>2 DEF TrialsFirst
  <2>2. CASE Table # "sessions"
    <3>1. reader'.todo = Tail(reader.todo)
      BY <2>2 DEF ReadsTable
    <3>2. reader'.todo # <<>> => Head(reader'.todo)[2] # "trials"
      BY <2>2, <3>1, TrialsAfterSessions
    <3> QED  BY <3>2 DEF TrialsFirst
  <2> QED  BY <2>1, <2>2
<1> QED  BY <1>6, <1>7

-----------------------------------------------------------------------------
(* The invariant.                                                          *)

\* A report leaves the answers alone; one that dies counts as a fault.
LEMMA ReportsKeepAnswers ==
    ASSUME LogInv, AnswersInv, UNCHANGED <<tables, call>>,
           faults' = faults \/ faults' = faults + 1
    PROVE  AnswersInv'
<1>1. faults \in Nat
  BY TrialLogAssumption DEF LogInv, LogTypeOK
<1> QED  BY <1>1, OtherStepsKeepAnswers DEF tables

\* Whatever the participant and the researcher do, and wherever a request or a
\* report dies, the rows follow the answers and the tables of one load fit
\* together.
THEOREM JoinInvariant == Spec => []JoinInv
<1>1. RunInit => JoinInv
  <2> SUFFICES ASSUME RunInit PROVE JoinInv
    OBVIOUS
  <2>1. AnswersInv
    BY AnswersStart DEF RunInit
  <2>2. reader.seen = Unread /\ reader.todo = <<>>
    BY DEF RunInit, NoReader
  <2>3. /\ Unread.trials = None /\ Unread.summaries = None
    BY DEF Unread, Tables
  <2> QED  BY <2>1, <2>2, <2>3 DEF JoinInv, SeenJoins, Joins, Earlier, TrialsFirst
<1>2. ExtractInv /\ JoinInv /\ [Next]_vars => JoinInv'
  <2> SUFFICES ASSUME ExtractInv, JoinInv, [Next]_vars PROVE JoinInv'
    OBVIOUS
  <2> USE DEF JoinInv
  <2>1. LogInv
    BY DEF ExtractInv
  <2>2. CASE LogNext /\ UNCHANGED readerVars
    <3>1. AnswersInv' /\ Final
      BY <2>1, <2>2, AnswersStep
    <3> QED  BY <2>2, <3>1, RequestsKeepJoins DEF readerVars
  <2>3. ASSUME UNCHANGED <<tables, call>>, faults' = faults \/ faults' = faults + 1,
               reader'.seen = Unread
        PROVE  JoinInv'
    BY <2>1, <2>3, ReportsKeepAnswers, UnreadJoins
  <2>4. CASE \E r \in Reports : BeginReport(r)
    <3>1. UNCHANGED <<tables, call, faults>>
      BY <2>4 DEF BeginReport, logVars, tables
    <3>2. reader'.seen = Unread
      BY <2>4 DEF BeginReport, NoReader
    <3> QED  BY <2>3, <3>1, <3>2
  <2>5. CASE ReadTable
    <3>1. ReadsTable
      BY <2>5, ReadTableReads
    <3>2. UNCHANGED <<tables, call, faults>>
      BY <3>1 DEF ReadsTable, tables
    <3> QED  BY <2>1, <3>1, <3>2, ReportsKeepAnswers, ReadKeepsJoins
  <2>6. CASE (\E a \in Artifacts : WriteFile(a)) \/ WriteManifest
    <3>1. /\ reader' = [reader EXCEPT !.todo = Tail(@), !.seen = Unread]
          /\ UNCHANGED <<tables, call, faults>>
      BY <2>6 DEF WriteFile, WriteManifest, logVars, tables
    <3>2. reader'.seen = Unread
      BY <3>1, WritesReport
    <3> QED  BY <2>3, <3>1, <3>2
  <2>7. CASE EndReport \/ CutOffReport
    <3>1. /\ reader' = NoReader /\ UNCHANGED <<tables, call>>
          /\ faults' = faults \/ faults' = faults + 1
      BY <2>7 DEF EndReport, CutOffReport, logVars, tables
    <3>2. reader'.seen = Unread
      BY <3>1 DEF NoReader
    <3> QED  BY <2>3, <3>1, <3>2
  <2>8. ASSUME UNCHANGED <<tables, call, faults>>, reader' = reader
        PROVE  JoinInv'
    <3>1. UNCHANGED <<tables, call, faults>> /\ reader' = reader
      BY <2>8
    <3>2. AnswersInv' /\ Final
      <4>1. UNCHANGED <<trial, summary, log, answered, call, faults>>
        BY <3>1 DEF tables
      <4> QED  BY <4>1, OtherStepsKeepAnswers
    <3> QED  BY <3>1, <3>2, RequestsKeepJoins
  <2>9. CASE (\E a \in Artifacts : OpenFile(a)) \/ OpenManifest
    <3>1. UNCHANGED <<tables, call, faults>> /\ reader' = reader
      BY <2>9 DEF OpenFile, OpenManifest, logVars, tables
    <3> QED  BY <3>1, <2>8
  <2>10. CASE UNCHANGED vars
    <3>1. UNCHANGED <<tables, call, faults>> /\ reader' = reader
      BY <2>10 DEF vars, logVars, readerVars, tables
    <3> QED  BY <3>1, <2>8
  <2> QED  BY <2>2, <2>4, <2>5, <2>6, <2>7, <2>9, <2>10 DEF Next
<1> QED  BY <1>1, <1>2, ExtractInvariant, PTL DEF Spec

-----------------------------------------------------------------------------
(* What follows for the reports.                                           *)

\* The commission errors that the analysis counts are the trials in whose
\* summary wrong advice was followed.
FollowedWrong(x) == {t \in Summarised(x) : TrialLevel(x, t).followedWrong}

\* There are finitely many trials.
LEMMA TrialsFinite == ASSUME NEW S \in SUBSET Trials PROVE IsFiniteSet(S) /\ Cardinality(S) \in Nat
<1>1. IsFiniteSet(Trials)
  <2>1. NTrials \in Int
    BY TrialLogAssumption
  <2>2. IsFiniteSet(1..NTrials)
    BY <2>1, FS_Interval
  <2> QED  BY <2>2 DEF Trials
<1>2. IsFiniteSet(S)
  BY <1>1, FS_Subset
<1> QED  BY <1>2, FS_CardinalityType

\* Summed over the conditions, they are all counted, each once.
LEMMA CommissionsCounted ==
    ASSUME NEW x
    PROVE  SumFunction([c \in DOMAIN ConditionSummary(x) |-> ConditionSummary(x)[c].commissions])
               = Cardinality(FollowedWrong(x))
<1> DEFINE D == {Condition[t] : t \in Summarised(x)}
           U == [c \in D |-> {t \in FollowedWrong(x) : Condition[t] = c}]
           f == [c \in D |-> ConditionSummary(x)[c].commissions]
<1>1. Summarised(x) \subseteq Trials /\ FollowedWrong(x) \subseteq Trials
  BY DEF Summarised, FollowedWrong
<1>2. DOMAIN ConditionSummary(x) = D
  BY DEF ConditionSummary
<1>3. ASSUME NEW c \in D PROVE ConditionSummary(x)[c].commissions = Cardinality(U[c])
  <2>1. ConditionSummary(x)[c].commissions
            = Cardinality({t \in {t \in Summarised(x) : Condition[t] = c} :
                              TrialLevel(x, t).followedWrong})
    BY DEF ConditionSummary
  <2>2. U[c] = {t \in {t \in Summarised(x) : Condition[t] = c} : TrialLevel(x, t).followedWrong}
    BY DEF FollowedWrong
  <2> QED  BY <2>1, <2>2
<1>4. f = [c \in D |-> Cardinality(U[c])]
  BY <1>3
<1>5. Parts(D, Trials, U)
  <2>1. IsFiniteSet(Trials)
    BY TrialsFinite
  <2>2. \A c \in D : U[c] \subseteq Trials
    BY <1>1
  <2>3. \A c, d \in D : c # d => U[c] \cap U[d] = {}
    OBVIOUS
  <2> HIDE DEF U, D
  <2> QED  BY <2>1, <2>2, <2>3 DEF Parts
<1>6. IsFiniteSet(D)
  <2>1. D \subseteq Conditions
    BY <1>1, TrialLogAssumption
  <2>2. IsFiniteSet(Conditions)
    <3>1. /\ IsFiniteSet({"static_help"}) /\ IsFiniteSet({"monotone_help"})
          /\ IsFiniteSet({"cabdi_lite"})
      BY FS_Singleton
    <3>2. IsFiniteSet({"static_help"} \cup {"monotone_help"})
      BY <3>1, FS_Union
    <3>3. IsFiniteSet(({"static_help"} \cup {"monotone_help"}) \cup {"cabdi_lite"})
      BY <3>1, <3>2, FS_Union
    <3>4. Conditions = ({"static_help"} \cup {"monotone_help"}) \cup {"cabdi_lite"}
      BY DEF Conditions
    <3> QED  BY <3>3, <3>4
  <2> HIDE DEF D
  <2> QED  BY <2>1, <2>2, FS_Subset
<1>7. UNION {U[c] : c \in D} = FollowedWrong(x)
  <2>1. \A t \in FollowedWrong(x) : Condition[t] \in D
    BY DEF FollowedWrong
  <2>2. \A t \in FollowedWrong(x) : t \in U[Condition[t]]
    BY <2>1
  <2>3. \A c \in D : U[c] \subseteq FollowedWrong(x)
    OBVIOUS
  <2> HIDE DEF D, U
  <2> QED  BY <2>1, <2>2, <2>3
<1> HIDE DEF D, U, f
<1>8. SumFunction(f) = Total(U, D)
  BY <1>4, <1>5, <1>6, SumIsTotal
<1> QED  BY <1>2, <1>7, <1>8 DEF f, Total

\* The features that a trial was routed by follow the answers that count, for
\* any plan, any windows and any number of cut-off requests.
THEOREM FeaturesAlwaysFollow == Spec => []FeaturesFollowAnswers
<1>1. JoinInv => FeaturesFollowAnswers
  BY FollowUnfolds DEF JoinInv, AnswersInv, Routed
<1> QED  BY <1>1, JoinInvariant, PTL

\* Each completed trial of a run extract comes with its summary and events,
\* each served one with the questionnaires of the blocks before it, and every
\* blind acceptance it was routed by is a commission error of the analysis.
THEOREM ExtractAlwaysJoins == Spec => []ExtractJoins
<1>1. ExtractInv /\ JoinInv => ExtractJoins
  <2> DEFINE x == reader.seen
  <2> SUFFICES ASSUME ExtractInv, JoinInv, Fully(x)
               PROVE  /\ \A t \in Completed(x) : x.summaries[t] # None /\ t \in x.events
                      /\ \A t \in Trials : Rows(x)[t].decision # None =>
                             /\ {b \in MainBlocks : b < Block[t]} \subseteq x.questionnaires
                             /\ Rows(x)[t].features.blind
                                   <= SumFunction([c \in DOMAIN ConditionSummary(x) |->
                                                      ConditionSummary(x)[c].commissions])
    BY DEF ExtractJoins
  <2>1. /\ Joins(x) /\ x.trials # None /\ x.summaries # None /\ x.events # None
        /\ x.questionnaires # None
    BY DEF JoinInv, SeenJoins, Fully, Tables
  <2> HIDE DEF x
  <2>2. \A t \in Completed(x) :
            t \in Done /\ x.summaries[t] = summary[t] /\ summary[t] # None /\ t \in x.events
    <3>1. \A t \in Completed(x) : t \in Done /\ x.summaries[t] = summary[t] /\ t \in x.events
      BY <2>1, CompletedRead DEF Joins, Earlier
    <3>2. \A t \in Done : summary[t] # None
      BY DEF ExtractInv, LogInv, Stored, Recorded, Done
    <3> QED  BY <3>1, <3>2
  <2>3. ASSUME NEW t \in Trials, Rows(x)[t].decision # None
        PROVE  /\ {b \in MainBlocks : b < Block[t]} \subseteq x.questionnaires
               /\ Rows(x)[t].features.blind <= Cardinality(FollowedWrong(x))
    <3>1. x.trials # None /\ x.trials # <<>> /\ Rows(x) = x.trials
      BY <2>3, RowsRead
    <3>2. /\ RowOK(x.trials, t) /\ HasRows
          /\ trial[t].decision # None /\ x.trials[t].features = trial[t].features
      BY <2>1, <2>3, <3>1 DEF Joins, Earlier
    <3>3. trial[t].features \in FeatureRows /\ trial[t].features # None
      BY <3>2, NullAssumption DEF JoinInv, AnswersInv, Routed, RowOK
    <3>4. trial[t].features.blind <= Cardinality({u \in Marked(t) : Blind(summary, u)})
      BY <3>2, <3>3 DEF JoinInv, AnswersInv, Routed, Follow
    <3>5. {u \in Marked(t) : Blind(summary, u)} \subseteq FollowedWrong(x)
      <4> SUFFICES ASSUME NEW u \in Marked(t), Blind(summary, u) PROVE u \in FollowedWrong(x)
        OBVIOUS
      <4>1. u \in Trials /\ u \in 1..(t - 1)
        BY TrialLogAssumption DEF Trials, Marked
      <4>2. u \in Completed(x)
        BY <2>3, <3>1, <3>2, <4>1 DEF RowOK, Completed
      <4>3. u \in Summarised(x) /\ x.summaries[u] = summary[u]
        BY <2>1, <2>2, <4>1, <4>2 DEF Summarised
      <4>4. summary[u] \in SummaryRows
        <5>1. summary[u] # None
          BY <2>2, <4>2
        <5> QED  BY <4>1, <5>1 DEF ExtractInv, LogInv, Shapes
      <4>5. ~AdviceRight[u] /\ ~summary[u].right
        BY DEF Blind
      <4>6. AdviceRight[u] \in BOOLEAN /\ summary[u].right \in BOOLEAN
        BY <4>1, <4>4, TrialLogAssumption DEF SummaryRows
      <4>7. TrialLevel(x, u).followedWrong
        BY <4>3, <4>5, <4>6 DEF TrialLevel
      <4> QED  BY <4>3, <4>7 DEF FollowedWrong
    <3>6. FollowedWrong(x) \subseteq Trials
      BY DEF FollowedWrong, Summarised
    <3>7. /\ Cardinality({u \in Marked(t) : Blind(summary, u)}) <= Cardinality(FollowedWrong(x))
          /\ Cardinality({u \in Marked(t) : Blind(summary, u)}) \in Nat
          /\ Cardinality(FollowedWrong(x)) \in Nat
      <4>1. IsFiniteSet(FollowedWrong(x)) /\ Cardinality(FollowedWrong(x)) \in Nat
        BY <3>6, TrialsFinite
      <4>2. {u \in Marked(t) : Blind(summary, u)} \in SUBSET Trials
        BY <3>5, <3>6
      <4> QED  BY <3>5, <4>1, <4>2, TrialsFinite, FS_Subset
    <3>8. trial[t].features.blind \in Nat
      BY <3>3 DEF FeatureRows
    <3>9. trial[t].features.blind <= Cardinality(FollowedWrong(x))
      BY <3>4, <3>7, <3>8
    <3>10. BlocksBefore(t) \subseteq x.questionnaires
      BY <2>1, <2>3 DEF Joins
    <3> QED  BY <3>1, <3>2, <3>9, <3>10 DEF BlocksBefore
  <2> QED  BY <2>2, <2>3, CommissionsCounted
<1> QED  BY <1>1, ExtractInvariant, JoinInvariant, PTL

\* The budget of a decision, whatever the condition and the bucket.
LEMMA BudgetBounded ==
    ASSUME NEW c \in Conditions, NEW bucket \in Buckets
    PROVE  /\ BudgetSignature(c, bucket).components \in 0..9
           /\ BudgetSignature(c, bucket).display \in 0..9
           /\ BudgetSignature(c, bucket).interaction \in 0..9
           /\ BudgetSignature(c, bucket).provenance \in 0..9
           /\ BudgetSignature(c, bucket).steps \in 0..1
<1> DEFINE d == PolicyDecision(c, bucket)
<1>1. \/ d = Help(1, "inline", 0, "none", "none", 0)
      \/ d = Help(0, "none", 0, "none", "none", 0)
      \/ d = Help(1, "inline", 1, "soft_prompt", "none", 0)
      \/ d = Help(1, "inline", 0, "soft_prompt", "none", 0)
      \/ d = Help(1, "on_click", 0, "forced_checkbox", "medium", 1)
  <2>1. CASE c = "static_help"
    BY <2>1 DEF PolicyDecision
  <2>2. CASE c # "static_help" /\ bucket = "low"
    BY <2>2 DEF PolicyDecision
  <2>3. CASE c = "monotone_help" /\ bucket = "moderate"
    BY <2>3 DEF PolicyDecision
  <2>4. CASE c = "monotone_help" /\ bucket = "extreme"
    BY <2>4 DEF PolicyDecision
  <2>5. CASE c = "cabdi_lite" /\ bucket = "moderate"
    BY <2>5 DEF PolicyDecision
  <2>6. CASE c = "cabdi_lite" /\ bucket = "extreme"
    BY <2>6 DEF PolicyDecision
  <2> QED  BY <2>1, <2>2, <2>3, <2>4, <2>5, <2>6 DEF Conditions, Buckets
<1> HIDE DEF d
<1> DEFINE rationale == CASE d.rationale = "none" -> 0 [] d.rationale = "on_click" -> 1
                          [] d.rationale = "inline" -> 2
           verification == CASE d.verification = "none" -> 0
                             [] d.verification = "soft_prompt" -> 1
                             [] d.verification = "forced_checkbox" -> 2
           percent == IF d.compression = "medium" THEN 85 ELSE 100
           cues == d.confidence + (IF d.rationale # "none" THEN 1 ELSE 0) + d.evidence
           display == (2 + d.confidence + rationale + 2 * d.evidence) * percent
<1>2. /\ d.confidence \in 0..1 /\ d.evidence \in 0..1 /\ d.steps \in 0..1
      /\ d.rationale \in {"none", "on_click", "inline"}
      /\ d.verification \in {"none", "soft_prompt", "forced_checkbox"}
  BY <1>1 DEF Help
<1>3. BudgetSignature(c, bucket) =
          [components |-> 1 + cues, display |-> (display + 50) \div 100,
           interaction |-> d.steps + verification, provenance |-> cues, steps |-> d.steps]
  BY DEF BudgetSignature, d
<1>4. rationale \in 0..2
  BY <1>2
<1>5. verification \in 0..2
  BY <1>2
<1>6. cues \in 0..3
  BY <1>2
<1>7. percent \in 0..100
  OBVIOUS
<1> HIDE DEF rationale, verification, cues
<1>8. display \in 0..700
  <2>1. 2 + d.confidence + rationale + 2 * d.evidence \in 0..7
    BY <1>2, <1>4
  <2> DEFINE load == 2 + d.confidence + rationale + 2 * d.evidence
  <2>2. load \in 0..7
    BY <2>1
  <2>3. display = load * percent
    OBVIOUS
  <2> HIDE DEF load, display
  <2>4. percent = 85 \/ percent = 100
    OBVIOUS
  <2> HIDE DEF percent
  <2> QED  BY <2>2, <2>3, <2>4
<1> HIDE DEF display, percent
<1>9. (display + 50) \div 100 \in 0..9
  BY <1>8
<1> QED  BY <1>2, <1>3, <1>5, <1>6, <1>9

\* The budgets that a decision fixes equal their reference, and it asks for at
\* most one step.
LEMMA BudgetAsExpected ==
    ASSUME NEW x, Joins(x), x.trials # None, NEW c \in Conditions
    PROVE  BudgetFlags(x, c) \subseteq {"realized_steps"}
<1> DEFINE S == {t \in Completed(x) : Block[t] # -1 /\ Condition[t] = c}
           Own(k) == [t \in S |-> Rows(x)[t].decision.budget[k]]
           Expected(k) == [t \in S |-> BudgetSignature(c, Rows(x)[t].risk)[k]]
           Steps == [t \in S |-> IF t \in Summarised(x) /\ x.summaries[t].clicked THEN 1 ELSE 0]
<1>1. ASSUME NEW t \in S
      PROVE  /\ Rows(x)[t].risk \in Buckets
             /\ Rows(x)[t].decision.budget = BudgetSignature(c, Rows(x)[t].risk)
  <2>1. t \in Trials /\ x.trials # <<>> /\ x.trials[t].done
    BY CompletedRead
  <2>2. Rows(x) = x.trials
    BY <2>1 DEF Rows
  <2>3. x.trials[t].risk \in Buckets /\ x.trials[t].decision = Decision(Condition[t], x.trials[t].risk)
    BY <2>1 DEF Joins, Earlier, RowOK
  <2>4. Condition[t] = c
    OBVIOUS
  <2> QED  BY <2>2, <2>3, <2>4 DEF Decision
<1>2. S \subseteq Trials
  BY DEF Completed
<1>3. IsFiniteSet(S)
  BY <1>2, TrialsFinite
<1>4. ASSUME NEW k \in {"components", "display", "interaction", "provenance"}
      PROVE  ~Deviates(Own(k), Expected(k), FALSE)
  <2>1. Own(k) = Expected(k)
    BY <1>1
  <2>2. Expected(k) \in [S -> 0..9]
    <3>1. ASSUME NEW t \in S PROVE BudgetSignature(c, Rows(x)[t].risk)[k] \in 0..9
      <4>1. Rows(x)[t].risk \in Buckets
        BY <1>1
      <4> QED  BY <4>1, BudgetBounded
    <3> HIDE DEF S
    <3> QED  BY <3>1
  <2>3. PICK f : f = Expected(k)
    OBVIOUS
  <2>4. SumFunction(f) \in Nat
    <3>1. f \in [S -> 0..9] /\ 9 \in Nat
      BY <2>2, <2>3
    <3> HIDE DEF S, Expected
    <3> QED  BY <1>3, <3>1, SumIsNumber
  <2>5. ~Deviates(f, f, FALSE)
    BY <2>4 DEF Deviates
  <2> QED  BY <2>1, <2>3, <2>5
<1>5. ASSUME NEW t \in S PROVE ~(Own("steps")[t] > 1)
  <2>1. Own("steps")[t] = BudgetSignature(c, Rows(x)[t].risk).steps
    BY <1>1
  <2>2. BudgetSignature(c, Rows(x)[t].risk).steps \in 0..1
    BY <1>1, BudgetBounded
  <2> HIDE DEF Own
  <2> QED  BY <2>1, <2>2
<1>6. BudgetFlags(x, c) =
          {k \in {"components", "display", "interaction", "provenance"} :
              Deviates(Own(k), Expected(k), FALSE)}
          \cup {k \in {"realized_steps"} : Deviates(Steps, Expected("steps"), TRUE)}
          \cup {k \in {"hard_cap"} : \E t \in S : Own("steps")[t] > 1}
  BY DEF BudgetFlags
<1> HIDE DEF S, Own, Expected, Steps
<1> QED  BY <1>4, <1>5, <1>6

\* What the diagnostics warn of is there: only what the participant clicked is
\* out of tolerance, no summary lacks its bucket, and the counts differ only
\* for a practice trial or a summary whose trial was still pending.
THEOREM WarningsAlwaysTrue == Spec => []WarningsAreTrue
<1>1. ExtractInv /\ JoinInv => WarningsAreTrue
  <2> DEFINE x == reader.seen
             counted == {t \in Completed(x) : Block[t] # -1}
             flags == UNION {BudgetFlags(x, c) : c \in Conditions}
             differ == {w \in {"count_differs"} :
                           Cardinality(Summarised(x)) # Cardinality(counted)}
             lacking == {w \in {"missing_core_fields"} :
                            \E t \in Summarised(x) : x.summaries[t].risk = None}
  <2> SUFFICES ASSUME ExtractInv, JoinInv, Fully(x)
               PROVE  /\ Diagnose(x) \subseteq {"realized_steps", "count_differs"}
                      /\ "count_differs" \in Diagnose(x) =>
                             \E t \in Summarised(x) : Block[t] = -1 \/ t \notin Completed(x)
    BY DEF WarningsAreTrue
  <2>1. Joins(x) /\ x.trials # None /\ x.summaries # None
    BY DEF JoinInv, SeenJoins, Fully, Tables
  <2> HIDE DEF x
  <2>2. Diagnose(x) = flags \cup differ \cup lacking
    BY DEF Diagnose
  <2>3. flags \subseteq {"realized_steps"}
    BY <2>1, BudgetAsExpected
  <2>4. lacking = {}
    BY <2>1 DEF Joins, Summarised
  <2>5. ASSUME ~\E t \in Summarised(x) : Block[t] = -1 \/ t \notin Completed(x)
        PROVE  Summarised(x) = counted
    <3>1. Summarised(x) \subseteq counted
      BY <2>5
    <3>2. ASSUME NEW t \in Completed(x) PROVE t \in Summarised(x)
      <4>1. t \in Trials /\ t \in Done /\ x.summaries[t] = summary[t]
        BY <2>1, CompletedRead DEF Joins, Earlier
      <4>2. summary[t] # None
        BY <4>1 DEF ExtractInv, LogInv, Stored, Recorded, Done
      <4> QED  BY <2>1, <4>1, <4>2 DEF Summarised
    <3> QED  BY <3>1, <3>2
  <2> HIDE DEF flags, lacking, counted
  <2> QED  BY <2>2, <2>3, <2>4, <2>5
<1> QED  BY <1>1, ExtractInvariant, JoinInvariant, PTL
=============================================================================
