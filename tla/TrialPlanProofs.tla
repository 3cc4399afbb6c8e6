--------------------------- MODULE TrialPlanProofs ---------------------------
(***************************************************************************)
(* Proofs about TrialPlan for any banks, any number of blocks and any      *)
(* order of the pools.  The heart of the argument is arithmetic: the share *)
(* of wrong advice in a block is at most the size of the block, and what   *)
(* later blocks still need of each kind is exactly what is left of it.     *)
(***************************************************************************)
EXTENDS TrialPlan, FiniteSetTheorems, TLAPS

-----------------------------------------------------------------------------
(* Shares.                                                                 *)

\* Quotient and remainder.
LEMMA DivMod == ASSUME NEW t \in Nat, NEW n \in Nat \ {0}
  PROVE t \div n \in Nat /\ t % n \in 0..n-1 /\ t = (n * (t \div n)) + (t % n)
BY SMTT(30)
\* Division is monotone.
LEMMA DivMonotone == ASSUME NEW t \in Nat, NEW u \in Nat, NEW n \in Nat \ {0}, t <= u
  PROVE t \div n <= u \div n
BY DivMod, SMTT(30)

\* What the first k of n bins hold of t things, and what is left for the others.
Upto(t, n, k) == k * (t \div n) + Lesser(k, t % n)
Rest(t, n, k) == t - Upto(t, n, k)

\* The shares of the first k bins add up to Upto.
LEMMA EvenStep == ASSUME NEW t \in Nat, NEW n \in Nat \ {0}, NEW k \in Nat
  PROVE Even(t,n,k) \in Nat /\ Upto(t,n,k) \in Nat /\ Upto(t,n,k+1) = Upto(t,n,k) + Even(t,n,k)
<1> DEFINE q == t \div n
           r == t % n
<1>1. q \in Nat /\ r \in Nat BY DivMod
<1>2. (k+1) * q = k * q + q /\ k * q \in Nat BY <1>1
<1> HIDE DEF q, r
<1> QED BY <1>1, <1>2 DEF Even, Upto, Lesser, q, r

\* All bins together hold everything.
LEMMA UptoEnds == ASSUME NEW t \in Nat, NEW n \in Nat \ {0}
  PROVE Upto(t,n,0) = 0 /\ Upto(t,n,n) = t
BY DivMod DEF Upto, Lesser

\* Of more things, at least as many are left for the later bins.
LEMMA RestMonotone == ASSUME NEW t \in Nat, NEW u \in Nat, NEW n \in Nat \ {0}, NEW k \in 0..n, t <= u
  PROVE Rest(t,n,k) <= Rest(u,n,k)
<1> DEFINE tq == t \div n
           tr == t % n
           uq == u \div n
           ur == u % n
           w == n - k
<1>1. tq \in Nat /\ tr \in 0..n-1 /\ t = (n * tq) + tr BY DivMod
<1>2. uq \in Nat /\ ur \in 0..n-1 /\ u = (n * uq) + ur BY DivMod
<1>3. tq <= uq BY DivMonotone
<1>4. Upto(t,n,k) = (k * tq) + Lesser(k, tr) /\ Upto(u,n,k) = (k * uq) + Lesser(k, ur) BY DEF Upto
<1> HIDE DEF tq, tr, uq, ur
<1>5. w \in Nat /\ n * tq = (k * tq) + (w * tq) /\ n * uq = (k * uq) + (w * uq)
  BY <1>1, <1>2
<1>6. w * tq \in Nat /\ w * uq \in Nat /\ k * tq \in Nat /\ k * uq \in Nat BY <1>1, <1>2, <1>5
<1>7. tq = uq \/ (w * tq) + w <= w * uq
  <2>1. CASE tq < uq
    <3>1. PICK d \in Nat : uq = tq + 1 + d BY <1>1, <1>2, <2>1, uq - tq - 1 \in Nat
    <3>2. w * uq = (w * tq) + w + (w * d) /\ w * d \in Nat BY <3>1, <1>1, <1>5
    <3> QED BY <3>2, <1>5, <1>6
  <2> QED BY <2>1, <1>1, <1>2, <1>3
<1>8. Rest(t,n,k) = (w * tq) + (tr - Lesser(k, tr)) /\ Rest(u,n,k) = (w * uq) + (ur - Lesser(k, ur))
  BY <1>1, <1>2, <1>4, <1>5, <1>6 DEF Rest, Lesser
<1>9. tr - Lesser(k, tr) <= w /\ tr - Lesser(k,tr) \in Nat /\ ur - Lesser(k,ur) \in Nat BY <1>1, <1>2 DEF Lesser
<1>a. CASE tq = uq
  <2>1. tr <= ur BY <1>1, <1>2, <1>a
  <2>2. tr - Lesser(k, tr) <= ur - Lesser(k, ur) BY <2>1, <1>1, <1>2 DEF Lesser
  <2> QED BY <1>a, <2>2, <1>8, <1>9, <1>6
<1>b. CASE (w * tq) + w <= w * uq
  BY <1>b, <1>5, <1>6, <1>8, <1>9
<1> QED BY <1>7, <1>a, <1>b

\* A share of more things is at least as large.
LEMMA EvenMonotone == ASSUME NEW t \in Nat, NEW u \in Nat, NEW n \in Nat \ {0}, NEW k \in Nat, t <= u
  PROVE Even(t,n,k) <= Even(u,n,k)
<1> DEFINE tq == t \div n
           tr == t % n
           uq == u \div n
           ur == u % n
<1>1. tq \in Nat /\ tr \in 0..n-1 /\ t = (n * tq) + tr BY DivMod
<1>2. uq \in Nat /\ ur \in 0..n-1 /\ u = (n * uq) + ur BY DivMod
<1>3. tq <= uq BY DivMonotone
<1>4. Even(t,n,k) = tq + (IF k < tr THEN 1 ELSE 0) /\ Even(u,n,k) = uq + (IF k < ur THEN 1 ELSE 0) BY DEF Even
<1> HIDE DEF tq, tr, uq, ur
<1>5. CASE tq = uq
  <2>1. tr <= ur BY <1>1, <1>2, <1>5
  <2> QED BY <2>1, <1>1, <1>2, <1>4, <1>5
<1>6. CASE tq < uq
  BY <1>1, <1>2, <1>4, <1>6
<1> QED BY <1>1, <1>2, <1>3, <1>5, <1>6

\* Two shares of the same things differ by at most one.
LEMMA EvenSpread ==
    ASSUME NEW t \in Nat, NEW n \in Nat \ {0}, NEW j \in Nat, NEW k \in Nat
    PROVE  Even(t, n, j) <= Even(t, n, k) + 1
BY DivMod DEF Even

-----------------------------------------------------------------------------
(* The invariant.                                                          *)

NWrong == Cardinality(WrongItems)
NRight == Cardinality(CorrectItems)

\* What is left of each kind is what the rest of this block and the later
\* blocks need.
Supply ==
    /\ inBlock <= BlockSize(block)
    /\ Cardinality(wrongLeft) =
           Rest(NWrong, nBlocks, block) - Lesser(inBlock, BlockWrong(block))
    /\ Cardinality(correctLeft) =
           Rest(Total, nBlocks, block) - Rest(NWrong, nBlocks, block)
               - (inBlock - Lesser(inBlock, BlockWrong(block)))

\* The plan holds exactly the items that are no longer in a pool.
Placed ==
    /\ {plan[k].item : k \in DOMAIN plan} =
           (PracticeItems \ practiceLeft) \cup (WrongItems \ wrongLeft)
               \cup (CorrectItems \ correctLeft)
    /\ Len(plan) = Cardinality(PracticeItems) - Cardinality(practiceLeft)
                       + Upto(Total, nBlocks, block) + inBlock

\* The blocks so far show their share of wrong advice.
Spread ==
    \A b \in Blocks :
        WrongIn(b) = IF b < block THEN Even(NWrong, nBlocks, b)
                     ELSE IF b = block THEN Lesser(inBlock, BlockWrong(b)) ELSE 0

Phases ==
    /\ phase = "practice" => block = 0 /\ inBlock = 0
    /\ phase # "practice" => practiceLeft = {}
    /\ phase = "done" => block + 1 = nBlocks /\ inBlock = BlockSize(block)

PlanInv == TypeOK /\ Supply /\ Placed /\ Spread /\ Phases

-----------------------------------------------------------------------------
(* What the invariant rests on.                                            *)

\* The banks are split into items with wrong and with right advice, and all
\* wrong advice is shown.
LEMMA Kinds ==
    /\ IsFiniteSet(WrongItems) /\ IsFiniteSet(CorrectItems)
    /\ NWrong \in Nat /\ NRight \in Nat /\ Total = NWrong + NRight
    /\ WrongTotal(Total, NWrong, NRight) = NWrong
<1>1. WrongItems \subseteq MainItems /\ CorrectItems \subseteq MainItems
  BY DEF WrongItems, CorrectItems
<1>2. IsFiniteSet(WrongItems) /\ IsFiniteSet(CorrectItems)
  BY <1>1, BankAssumption, FS_Subset
<1>3. NWrong \in Nat /\ NRight \in Nat
  BY <1>2, FS_CardinalityType DEF NWrong, NRight
<1>4. Total = NWrong + NRight
  <2>1. WrongItems \cup CorrectItems = MainItems /\ WrongItems \cap CorrectItems = {}
    BY DEF WrongItems, CorrectItems
  <2>2. Cardinality(WrongItems \cup CorrectItems) = NWrong + NRight - Cardinality({})
    BY <1>2, <2>1, FS_Union DEF NWrong, NRight
  <2>3. Cardinality(WrongItems \cup CorrectItems) = Total
    BY <2>1, Zenon DEF Total
  <2> QED  BY <2>2, <2>3, <1>3, FS_EmptySet
<1>5. WrongTotal(Total, NWrong, NRight) = NWrong
  <2>1. Total - NRight = NWrong /\ Total \in Nat /\ NWrong <= Total
    BY <1>3, <1>4
  <2>2. Total \div 3 \in Nat
    BY <2>1, DivMod
  <2> QED  BY <2>1, <2>2, <1>3 DEF WrongTotal, Lesser, Greater
<1> QED  BY <1>2, <1>3, <1>4, <1>5

\* No block is asked for more wrong advice than it has trials.
LEMMA Quotas ==
    ASSUME TypeOK, NEW b \in Blocks
    PROVE  /\ BlockSize(b) \in Nat /\ BlockSize(b) = Even(Total, nBlocks, b)
           /\ BlockWrong(b) = Even(NWrong, nBlocks, b)
           /\ BlockWrong(b) \in Nat /\ BlockWrong(b) <= BlockSize(b)
<1>1. nBlocks \in Nat \ {0} /\ b \in Nat
  BY DEF TypeOK, Blocks
<1>2. Total \in Nat /\ NWrong \in Nat /\ NWrong <= Total
  BY Kinds
<1>3. Even(NWrong, nBlocks, b) <= Even(Total, nBlocks, b)
  BY <1>1, <1>2, EvenMonotone
<1>4. Even(NWrong, nBlocks, b) \in Nat /\ Even(Total, nBlocks, b) \in Nat
  BY <1>1, <1>2, EvenStep
<1>5. BlockWrong(b) = Lesser(Even(NWrong, nBlocks, b), BlockSize(b))
  BY Kinds DEF BlockWrong, NWrong, NRight
<1> QED  BY <1>3, <1>4, <1>5 DEF BlockSize, Lesser

\* What a block and the blocks after it need.
LEMMA Needs ==
    ASSUME TypeOK, NEW b \in Blocks
    PROVE  /\ Rest(Total, nBlocks, b) = BlockSize(b) + Rest(Total, nBlocks, b + 1)
           /\ Rest(NWrong, nBlocks, b) = BlockWrong(b) + Rest(NWrong, nBlocks, b + 1)
           /\ Rest(NWrong, nBlocks, b + 1) \in Nat /\ Rest(Total, nBlocks, b + 1) \in Nat
           /\ Rest(NWrong, nBlocks, b + 1) <= Rest(Total, nBlocks, b + 1)
           /\ Upto(Total, nBlocks, b + 1) = Upto(Total, nBlocks, b) + BlockSize(b)
           /\ Upto(Total, nBlocks, b) \in Nat
<1>1. nBlocks \in Nat \ {0} /\ b \in Nat /\ b + 1 \in 0..nBlocks
  BY DEF TypeOK, Blocks
<1>2. Total \in Nat /\ NWrong \in Nat /\ NWrong <= Total
  BY Kinds
<1>3. /\ Upto(Total, nBlocks, b) \in Nat /\ Upto(NWrong, nBlocks, b) \in Nat
      /\ Upto(Total, nBlocks, b + 1) = Upto(Total, nBlocks, b) + BlockSize(b)
      /\ Upto(NWrong, nBlocks, b + 1) = Upto(NWrong, nBlocks, b) + BlockWrong(b)
  BY <1>1, <1>2, EvenStep, Quotas
<1>4. Rest(NWrong, nBlocks, b + 1) <= Rest(Total, nBlocks, b + 1)
  BY <1>1, <1>2, RestMonotone
<1>5. 0 <= Rest(NWrong, nBlocks, b + 1)
  <2>1. Rest(0, nBlocks, b + 1) <= Rest(NWrong, nBlocks, b + 1)
    BY <1>1, <1>2, RestMonotone
  <2>2. Upto(0, nBlocks, b + 1) = 0
    <3>1. 0 \div nBlocks = 0 /\ 0 % nBlocks = 0
      BY <1>1
    <3>2. (b + 1) * 0 = 0
      BY <1>1
    <3> QED  BY <1>1, <3>1, <3>2 DEF Upto, Lesser
  <2> QED  BY <2>1, <2>2 DEF Rest
<1>6. BlockSize(b) \in Nat /\ BlockWrong(b) \in Nat
  BY Quotas
<1> QED  BY <1>2, <1>3, <1>4, <1>5, <1>6 DEF Rest

\* What one more trial changes in the plan.
LEMMA OneMore ==
    ASSUME TypeOK, NEW i \in Items, NEW b \in Practice .. nBlocks - 1, NEW index \in Nat,
           Place(i, b, index), UNCHANGED config
    PROVE  /\ plan' \in Seq([item : Items, block : Practice .. nBlocks' - 1, index : Nat])
           /\ Len(plan') = Len(plan) + 1
           /\ {plan'[k].item : k \in DOMAIN plan'} = {plan[k].item : k \in DOMAIN plan} \cup {i}
           /\ \A c \in Blocks : WrongIn(c)' = WrongIn(c) + (IF c = b /\ ~correct[i] THEN 1 ELSE 0)
<1> DEFINE new == [item |-> i, block |-> b, index |-> index]
           n == Len(plan) + 1
           Trial == [item : Items, block : Practice .. nBlocks - 1, index : Nat]
<1>1. plan \in Seq(Trial) /\ new \in Trial /\ plan' = Append(plan, new) /\ nBlocks' = nBlocks
  BY DEF TypeOK, Place, config
<1>2. /\ plan' \in Seq(Trial) /\ Len(plan') = n
      /\ DOMAIN plan = 1..Len(plan) /\ DOMAIN plan' = 1..n
      /\ plan'[n] = new /\ Len(plan) \in Nat
      /\ \A k \in 1..Len(plan) : plan'[k] = plan[k]
  <2> HIDE DEF Trial, new
  <2> QED  BY <1>1
<1>3. {plan'[k].item : k \in DOMAIN plan'} = {plan[k].item : k \in DOMAIN plan} \cup {i}
  <2>1. DOMAIN plan' = DOMAIN plan \cup {n} /\ plan'[n].item = i
    BY <1>2
  <2> QED  BY <2>1, <1>2
<1>4. ASSUME NEW c \in Blocks
      PROVE  WrongIn(c)' = WrongIn(c) + (IF c = b /\ ~correct[i] THEN 1 ELSE 0)
  <2> DEFINE Old == {k \in DOMAIN plan : plan[k].block = c /\ ~correct[plan[k].item]}
             New == {k \in DOMAIN plan' : plan'[k].block = c /\ ~correct[plan'[k].item]}
  <2>1. WrongIn(c) = Cardinality(Old) /\ WrongIn(c)' = Cardinality(New)
    BY DEF WrongIn, config
  <2>2. IsFiniteSet(Old) /\ n \notin Old /\ Cardinality(Old) \in Nat
    <3>1. IsFiniteSet(1..Len(plan))
      <4>1. Len(plan) \in Int
        BY <1>2
      <4> QED  BY <4>1, FS_Interval
    <3>2. Old \subseteq 1..Len(plan)
      BY <1>2
    <3>3. IsFiniteSet(Old)
      BY <3>1, <3>2, FS_Subset
    <3>4. n \notin Old
      BY <3>2, <1>2
    <3> QED  BY <3>3, <3>4, FS_CardinalityType
  <2>3. New = IF c = b /\ ~correct[i] THEN Old \cup {n} ELSE Old
    <3>1. plan'[n].block = b /\ plan'[n].item = i
      BY <1>2
    <3>2. n \in New <=> (c = b /\ ~correct[i])
      BY <3>1, <1>2
    <3>3. \A k \in 1..Len(plan) : k \in New <=> k \in Old
      BY <1>2
    <3>4. \A k \in New \cup Old : k \in 1..Len(plan) \/ k = n
      BY <1>2
    <3>5. Old \subseteq 1..Len(plan)
      BY <1>2
    <3> HIDE DEF Old, New, n
    <3>6. CASE c = b /\ ~correct[i]
      <4>1. New = Old \cup {n}
        BY <3>2, <3>3, <3>4, <3>6
      <4> QED  BY <4>1, <3>6
    <3>7. CASE ~(c = b /\ ~correct[i])
      <4>1. n \notin New
        BY <3>2, <3>7
      <4>2. \A k : k \in New <=> k \in Old
        BY <4>1, <3>3, <3>4, <3>5
      <4>3. New = Old
        BY <4>2
      <4> QED  BY <4>3, <3>7
    <3> QED  BY <3>6, <3>7
  <2>4. Cardinality(Old \cup {n}) = Cardinality(Old) + 1
    BY <2>2, FS_AddElement
  <2> HIDE DEF Old, New
  <2> QED  BY <2>1, <2>2, <2>3, <2>4
<1> QED  BY <1>1, <1>2, <1>3, <1>4

-----------------------------------------------------------------------------
(* Every step keeps the invariant.                                         *)

\* The invariant holds before the first item is placed.
LEMMA PlanInit == Init => PlanInv
<1> SUFFICES ASSUME Init PROVE PlanInv
  OBVIOUS
<1>1. nBlocks \in Nat \ {0} /\ 0 \in Blocks
  BY BankAssumption DEF Init, Blocks
<1>2. TypeOK
  BY <1>1 DEF Init, TypeOK
<1>3. BlockWrong(0) \in Nat /\ BlockSize(0) \in Nat
  BY <1>1, <1>2, Quotas
<1>4. /\ Rest(Total, nBlocks, 0) = Total /\ Rest(NWrong, nBlocks, 0) = NWrong
      /\ Upto(Total, nBlocks, 0) = 0
  BY <1>1, Kinds, UptoEnds DEF Rest
<1>5. Supply
  BY <1>3, <1>4, Kinds DEF Init, Supply, Lesser, NWrong, NRight
<1>6. Placed
  <2>1. Cardinality(PracticeItems) \in Nat
    BY BankAssumption, FS_CardinalityType
  <2> QED  BY <2>1, <1>4 DEF Init, Placed
<1>7. Spread
  <2> SUFFICES ASSUME NEW b \in Blocks PROVE WrongIn(b) = 0 /\ ~(b < 0)
    BY <1>3 DEF Init, Spread, Lesser
  <2>1. {k \in DOMAIN plan : plan[k].block = b /\ ~correct[plan[k].item]} = {}
    BY DEF Init
  <2> QED  BY <2>1, FS_EmptySet DEF WrongIn, Blocks
<1>8. Phases
  BY DEF Init, Phases
<1> QED  BY <1>2, <1>5, <1>6, <1>7, <1>8 DEF PlanInv

\* Placing a practice item keeps the invariant (_build_practice_trials).
LEMMA PlacePracticeStep == PlanInv /\ PlacePractice => PlanInv'
<1> SUFFICES ASSUME PlanInv, PlacePractice PROVE PlanInv'
  OBVIOUS
<1>1. PICK i \in practiceLeft : Place(i, Practice, Len(plan)) /\ practiceLeft' = practiceLeft \ {i}
  BY DEF PlacePractice, Easiest
<1>2. UNCHANGED <<config, wrongLeft, correctLeft, block, inBlock, phase>> /\ phase = "practice"
  BY DEF PlacePractice
<1>3. TypeOK /\ i \in PracticeItems /\ i \in Items
  BY <1>1 DEF PlanInv, TypeOK, Items
<1>4. /\ plan' \in Seq([item : Items, block : Practice .. nBlocks' - 1, index : Nat])
      /\ Len(plan') = Len(plan) + 1
      /\ {plan'[k].item : k \in DOMAIN plan'} = {plan[k].item : k \in DOMAIN plan} \cup {i}
      /\ \A c \in Blocks : WrongIn(c)' = WrongIn(c) + (IF c = Practice /\ ~correct[i] THEN 1 ELSE 0)
  <2>1. Len(plan) \in Nat /\ Practice \in Practice .. nBlocks - 1
    BY <1>3 DEF TypeOK, Practice
  <2> QED  BY <1>1, <1>2, <1>3, <2>1, OneMore
<1>5. TypeOK'
  BY <1>1, <1>2, <1>3, <1>4 DEF TypeOK, config, WrongItems, CorrectItems, Blocks
<1>6. Supply'
  BY <1>2 DEF PlanInv, Supply, config, NWrong, NRight, WrongItems, CorrectItems, BlockSize, BlockWrong
<1>7. Placed'
  <2>1. Cardinality(practiceLeft') = Cardinality(practiceLeft) - 1 /\ Cardinality(practiceLeft) \in Nat
    <3>1. IsFiniteSet(practiceLeft)
      BY <1>3, BankAssumption, FS_Subset DEF TypeOK
    <3> QED  BY <3>1, <1>1, FS_RemoveElement, FS_CardinalityType
  <2>2. /\ Cardinality(PracticeItems) \in Nat /\ Len(plan) \in Nat
        /\ Upto(Total, nBlocks, block) \in Nat /\ inBlock \in Nat
    BY <1>3, Needs, BankAssumption, FS_CardinalityType DEF TypeOK
  <2>3. Len(plan') = (Cardinality(PracticeItems) - Cardinality(practiceLeft)
                       + Upto(Total, nBlocks, block) + inBlock)'
    <3>1. Len(plan) = Cardinality(PracticeItems) - Cardinality(practiceLeft)
                       + Upto(Total, nBlocks, block) + inBlock
      BY DEF PlanInv, Placed
    <3>2. Upto(Total, nBlocks, block)' = Upto(Total, nBlocks, block) /\ inBlock' = inBlock
      BY <1>2 DEF config
    <3> QED  BY <3>1, <3>2, <2>1, <2>2, <1>4
  <2>4. PracticeItems \ practiceLeft' = (PracticeItems \ practiceLeft) \cup {i}
    BY <1>1, <1>3
  <2>5. WrongItems' = WrongItems /\ CorrectItems' = CorrectItems
    BY <1>2 DEF config, WrongItems, CorrectItems
  <2> QED  BY <2>3, <2>4, <2>5, <1>2, <1>4 DEF PlanInv, Placed
<1>8. Spread'
  <2> SUFFICES ASSUME NEW c \in Blocks PROVE WrongIn(c)' = WrongIn(c)
    BY <1>2 DEF PlanInv, Spread, config, Blocks, NWrong, WrongItems, CorrectItems, BlockWrong, BlockSize
  <2>1. c # Practice /\ WrongIn(c) \in Nat
    <3>1. WrongIn(c) = IF c < block THEN Even(NWrong, nBlocks, c)
                       ELSE IF c = block THEN Lesser(inBlock, BlockWrong(c)) ELSE 0
      BY DEF PlanInv, Spread
    <3>2. Even(NWrong, nBlocks, c) \in Nat /\ BlockWrong(c) \in Nat /\ inBlock \in Nat
      BY <1>3, Quotas DEF TypeOK
    <3> QED  BY <3>1, <3>2 DEF Blocks, Practice, Lesser
  <2> QED  BY <2>1, <1>4
<1>9. Phases'
  BY <1>2 DEF PlanInv, Phases, config, BlockSize
<1> QED  BY <1>5, <1>6, <1>7, <1>8, <1>9 DEF PlanInv

\* Placing an item with wrong advice keeps it (_allocate_main_sequence).
LEMMA PlaceWrongStep == PlanInv /\ PlaceWrong => PlanInv'
<1> SUFFICES ASSUME PlanInv, PlaceWrong PROVE PlanInv'
  OBVIOUS
<1>1. PICK i \in wrongLeft : Place(i, block, inBlock) /\ wrongLeft' = wrongLeft \ {i}
  BY DEF PlaceWrong, Balanced
<1>2. /\ UNCHANGED <<config, practiceLeft, correctLeft, block, phase>> /\ phase = "main"
      /\ inBlock' = inBlock + 1 /\ inBlock < BlockWrong(block)
  BY DEF PlaceWrong
<1>3. TypeOK /\ i \in WrongItems /\ i \in Items /\ inBlock \in Nat /\ block \in Blocks
  BY <1>1 DEF PlanInv, TypeOK, Items, WrongItems, CorrectItems
<1>4. BlockWrong(block) \in Nat /\ BlockSize(block) \in Nat /\ BlockWrong(block) <= BlockSize(block)
  BY <1>3, Quotas
<1>5. /\ plan' \in Seq([item : Items, block : Practice .. nBlocks' - 1, index : Nat])
      /\ Len(plan') = Len(plan) + 1
      /\ {plan'[k].item : k \in DOMAIN plan'} = {plan[k].item : k \in DOMAIN plan} \cup {i}
      /\ \A c \in Blocks : WrongIn(c)' = WrongIn(c) + (IF c = block /\ ~correct[i] THEN 1 ELSE 0)
  <2>1. block \in Practice .. nBlocks - 1
    BY <1>3 DEF TypeOK, Blocks, Practice
  <2> QED  BY <1>1, <1>2, <1>3, <2>1, OneMore
<1>6. /\ Lesser(inBlock, BlockWrong(block)) = inBlock
      /\ Lesser(inBlock + 1, BlockWrong(block)) = inBlock + 1
  BY <1>2, <1>3, <1>4 DEF Lesser
<1>7. /\ BlockWrong(block)' = BlockWrong(block) /\ BlockSize(block)' = BlockSize(block)
      /\ WrongItems' = WrongItems /\ CorrectItems' = CorrectItems
      /\ NWrong' = NWrong /\ Blocks' = Blocks /\ nBlocks' = nBlocks /\ block' = block
  BY <1>2 DEF config, BlockWrong, BlockSize, NWrong, WrongItems, CorrectItems, Blocks
<1>8. TypeOK'
  BY <1>1, <1>2, <1>3, <1>5, <1>7 DEF TypeOK, config
<1>9. Supply'
  <2>1. Cardinality(wrongLeft') = Cardinality(wrongLeft) - 1
    <3>1. IsFiniteSet(wrongLeft)
      BY <1>3, Kinds, FS_Subset DEF TypeOK
    <3> QED  BY <3>1, <1>1, FS_RemoveElement
  <2>2. /\ Cardinality(wrongLeft) = Rest(NWrong, nBlocks, block) - Lesser(inBlock, BlockWrong(block))
        /\ Cardinality(correctLeft) = Rest(Total, nBlocks, block) - Rest(NWrong, nBlocks, block)
                                          - (inBlock - Lesser(inBlock, BlockWrong(block)))
    BY DEF PlanInv, Supply
  <2>3. Rest(Total, nBlocks, block) \in Nat /\ Rest(NWrong, nBlocks, block) \in Nat
    BY <1>3, <1>4, Needs
  <2>4. /\ Cardinality(wrongLeft') = Rest(NWrong, nBlocks, block)
                                         - Lesser(inBlock + 1, BlockWrong(block))
        /\ Cardinality(correctLeft') = Rest(Total, nBlocks, block) - Rest(NWrong, nBlocks, block)
                                          - (inBlock + 1 - Lesser(inBlock + 1, BlockWrong(block)))
    <3>1. correctLeft' = correctLeft
      BY <1>2
    <3> QED  BY <1>3, <1>4, <1>6, <2>1, <2>2, <2>3, <3>1
  <2>5. inBlock + 1 <= BlockSize(block)
    BY <1>2, <1>3, <1>4
  <2>6. (inBlock <= BlockSize(block))'
    BY <1>2, <1>7, <2>5
  <2>7. (Cardinality(wrongLeft) = Rest(NWrong, nBlocks, block)
                                      - Lesser(inBlock, BlockWrong(block)))'
    BY <1>2, <1>7, <2>4
  <2>8. (Cardinality(correctLeft) = Rest(Total, nBlocks, block) - Rest(NWrong, nBlocks, block)
                                        - (inBlock - Lesser(inBlock, BlockWrong(block))))'
    BY <1>2, <1>3, <1>4, <1>6, <1>7, <2>3, <2>4
  <2> QED  BY <2>6, <2>7, <2>8 DEF Supply
<1>10. Placed'
  <2>1. Len(plan') = Cardinality(PracticeItems) - Cardinality(practiceLeft)
                         + Upto(Total, nBlocks, block) + (inBlock + 1)
    <3>1. Len(plan) = Cardinality(PracticeItems) - Cardinality(practiceLeft)
                         + Upto(Total, nBlocks, block) + inBlock
      BY DEF PlanInv, Placed
    <3>2. /\ Cardinality(PracticeItems) \in Nat /\ Cardinality(practiceLeft) \in Nat
          /\ Upto(Total, nBlocks, block) \in Nat
      <4>1. IsFiniteSet(practiceLeft)
        BY <1>3, BankAssumption, FS_Subset DEF TypeOK
      <4> QED  BY <4>1, <1>3, Needs, BankAssumption, FS_CardinalityType
    <3> QED  BY <3>1, <3>2, <1>3, <1>5
  <2>2. WrongItems \ wrongLeft' = (WrongItems \ wrongLeft) \cup {i}
    BY <1>1, <1>3
  <2>3. {plan[k].item : k \in DOMAIN plan} =
           (PracticeItems \ practiceLeft) \cup (WrongItems \ wrongLeft)
               \cup (CorrectItems \ correctLeft)
    BY DEF PlanInv, Placed
  <2> QED  BY <2>1, <2>2, <2>3, <1>2, <1>5, <1>7 DEF Placed
<1>11. Spread'
  <2> SUFFICES ASSUME NEW c \in Blocks
               PROVE  WrongIn(c)' = IF c < block THEN Even(NWrong, nBlocks, c)
                                    ELSE IF c = block THEN Lesser(inBlock + 1, BlockWrong(block)) ELSE 0
    BY <1>2, <1>7 DEF Spread
  <2>1. WrongIn(c) = IF c < block THEN Even(NWrong, nBlocks, c)
                     ELSE IF c = block THEN Lesser(inBlock, BlockWrong(c)) ELSE 0
    BY DEF PlanInv, Spread
  <2>2. ~correct[i]
    BY <1>3 DEF WrongItems, CorrectItems
  <2>3. Even(NWrong, nBlocks, c) \in Nat /\ c \in Nat /\ block \in Nat
    BY <1>3, Quotas DEF Blocks
  <2>4. WrongIn(c)' = WrongIn(c) + (IF c = block /\ ~correct[i] THEN 1 ELSE 0)
    BY <1>5
  <2> QED  BY <2>1, <2>2, <2>3, <2>4, <1>3, <1>4, <1>6
<1>12. Phases'
  BY <1>2 DEF PlanInv, Phases
<1> QED  BY <1>8, <1>9, <1>10, <1>11, <1>12 DEF PlanInv

\* Placing an item with right advice keeps it (_allocate_main_sequence).
LEMMA PlaceCorrectStep == PlanInv /\ PlaceCorrect => PlanInv'
<1> SUFFICES ASSUME PlanInv, PlaceCorrect PROVE PlanInv'
  OBVIOUS
<1>1. PICK i \in correctLeft : Place(i, block, inBlock) /\ correctLeft' = correctLeft \ {i}
  BY DEF PlaceCorrect, Balanced
<1>2. /\ UNCHANGED <<config, practiceLeft, wrongLeft, block, phase>> /\ phase = "main"
      /\ inBlock' = inBlock + 1 /\ inBlock >= BlockWrong(block) /\ inBlock < BlockSize(block)
  BY DEF PlaceCorrect
<1>3. TypeOK /\ i \in CorrectItems /\ i \in Items /\ inBlock \in Nat /\ block \in Blocks
  BY <1>1 DEF PlanInv, TypeOK, Items, WrongItems, CorrectItems
<1>4. BlockWrong(block) \in Nat /\ BlockSize(block) \in Nat /\ BlockWrong(block) <= BlockSize(block)
  BY <1>3, Quotas
<1>5. /\ plan' \in Seq([item : Items, block : Practice .. nBlocks' - 1, index : Nat])
      /\ Len(plan') = Len(plan) + 1
      /\ {plan'[k].item : k \in DOMAIN plan'} = {plan[k].item : k \in DOMAIN plan} \cup {i}
      /\ \A c \in Blocks : WrongIn(c)' = WrongIn(c) + (IF c = block /\ ~correct[i] THEN 1 ELSE 0)
  <2>1. block \in Practice .. nBlocks - 1
    BY <1>3 DEF TypeOK, Blocks, Practice
  <2> QED  BY <1>1, <1>2, <1>3, <2>1, OneMore
<1>6. /\ Lesser(inBlock, BlockWrong(block)) = BlockWrong(block)
      /\ Lesser(inBlock + 1, BlockWrong(block)) = BlockWrong(block)
  BY <1>2, <1>3, <1>4 DEF Lesser
<1>7. /\ BlockWrong(block)' = BlockWrong(block) /\ BlockSize(block)' = BlockSize(block)
      /\ WrongItems' = WrongItems /\ CorrectItems' = CorrectItems
      /\ NWrong' = NWrong /\ Blocks' = Blocks /\ nBlocks' = nBlocks /\ block' = block
  BY <1>2 DEF config, BlockWrong, BlockSize, NWrong, WrongItems, CorrectItems, Blocks
<1>8. TypeOK'
  BY <1>1, <1>2, <1>3, <1>5, <1>7 DEF TypeOK, config
<1>9. Supply'
  <2>1. Cardinality(correctLeft') = Cardinality(correctLeft) - 1
    <3>1. IsFiniteSet(correctLeft)
      BY <1>3, Kinds, FS_Subset DEF TypeOK
    <3> QED  BY <3>1, <1>1, FS_RemoveElement
  <2>2. /\ Cardinality(wrongLeft) = Rest(NWrong, nBlocks, block) - Lesser(inBlock, BlockWrong(block))
        /\ Cardinality(correctLeft) = Rest(Total, nBlocks, block) - Rest(NWrong, nBlocks, block)
                                          - (inBlock - Lesser(inBlock, BlockWrong(block)))
    BY DEF PlanInv, Supply
  <2>3. Rest(Total, nBlocks, block) \in Nat /\ Rest(NWrong, nBlocks, block) \in Nat
    BY <1>3, <1>4, Needs
  <2>4. /\ Cardinality(wrongLeft') = Rest(NWrong, nBlocks, block)
                                         - Lesser(inBlock + 1, BlockWrong(block))
        /\ Cardinality(correctLeft') = Rest(Total, nBlocks, block) - Rest(NWrong, nBlocks, block)
                                          - (inBlock + 1 - Lesser(inBlock + 1, BlockWrong(block)))
    <3>1. wrongLeft' = wrongLeft
      BY <1>2
    <3> QED  BY <1>3, <1>4, <1>6, <2>1, <2>2, <2>3, <3>1
  <2>5. inBlock + 1 <= BlockSize(block)
    BY <1>2, <1>3, <1>4
  <2>6. (inBlock <= BlockSize(block))'
    BY <1>2, <1>7, <2>5
  <2>7. (Cardinality(wrongLeft) = Rest(NWrong, nBlocks, block)
                                      - Lesser(inBlock, BlockWrong(block)))'
    BY <1>2, <1>7, <2>4
  <2>8. (Cardinality(correctLeft) = Rest(Total, nBlocks, block) - Rest(NWrong, nBlocks, block)
                                        - (inBlock - Lesser(inBlock, BlockWrong(block))))'
    BY <1>2, <1>3, <1>4, <1>6, <1>7, <2>3, <2>4
  <2> QED  BY <2>6, <2>7, <2>8 DEF Supply
<1>10. Placed'
  <2>1. Len(plan') = Cardinality(PracticeItems) - Cardinality(practiceLeft)
                         + Upto(Total, nBlocks, block) + (inBlock + 1)
    <3>1. Len(plan) = Cardinality(PracticeItems) - Cardinality(practiceLeft)
                         + Upto(Total, nBlocks, block) + inBlock
      BY DEF PlanInv, Placed
    <3>2. /\ Cardinality(PracticeItems) \in Nat /\ Cardinality(practiceLeft) \in Nat
          /\ Upto(Total, nBlocks, block) \in Nat
      <4>1. IsFiniteSet(practiceLeft)
        BY <1>3, BankAssumption, FS_Subset DEF TypeOK
      <4> QED  BY <4>1, <1>3, Needs, BankAssumption, FS_CardinalityType
    <3> QED  BY <3>1, <3>2, <1>3, <1>5
  <2>2. CorrectItems \ correctLeft' = (CorrectItems \ correctLeft) \cup {i}
    BY <1>1, <1>3
  <2>3. {plan[k].item : k \in DOMAIN plan} =
           (PracticeItems \ practiceLeft) \cup (WrongItems \ wrongLeft)
               \cup (CorrectItems \ correctLeft)
    BY DEF PlanInv, Placed
  <2> QED  BY <2>1, <2>2, <2>3, <1>2, <1>5, <1>7 DEF Placed
<1>11. Spread'
  <2> SUFFICES ASSUME NEW c \in Blocks
               PROVE  WrongIn(c)' = IF c < block THEN Even(NWrong, nBlocks, c)
                                    ELSE IF c = block THEN Lesser(inBlock + 1, BlockWrong(block)) ELSE 0
    BY <1>2, <1>7 DEF Spread
  <2>1. WrongIn(c) = IF c < block THEN Even(NWrong, nBlocks, c)
                     ELSE IF c = block THEN Lesser(inBlock, BlockWrong(c)) ELSE 0
    BY DEF PlanInv, Spread
  <2>2. correct[i]
    BY <1>3 DEF WrongItems, CorrectItems
  <2>3. Even(NWrong, nBlocks, c) \in Nat /\ c \in Nat /\ block \in Nat
    BY <1>3, Quotas DEF Blocks
  <2>4. WrongIn(c)' = WrongIn(c) + (IF c = block /\ ~correct[i] THEN 1 ELSE 0)
    BY <1>5
  <2> QED  BY <2>1, <2>2, <2>3, <2>4, <1>3, <1>4, <1>6
<1>12. Phases'
  BY <1>2 DEF PlanInv, Phases
<1> QED  BY <1>8, <1>9, <1>10, <1>11, <1>12 DEF PlanInv

\* A full block leaves what the later blocks need.
LEMMA NextBlockStep == PlanInv /\ NextBlock => PlanInv'
<1> SUFFICES ASSUME PlanInv, NextBlock PROVE PlanInv'
  OBVIOUS
<1>1. /\ phase = "main" /\ inBlock = BlockSize(block) /\ block + 1 < nBlocks
      /\ block' = block + 1 /\ inBlock' = 0
      /\ UNCHANGED <<config, practiceLeft, wrongLeft, correctLeft, plan, phase>>
  BY DEF NextBlock
<1>2. TypeOK /\ block \in Blocks /\ block + 1 \in Blocks /\ block \in Nat
  BY <1>1 DEF PlanInv, TypeOK, Blocks
<1>3. /\ BlockWrong(block) \in Nat /\ BlockSize(block) \in Nat
      /\ BlockWrong(block) <= BlockSize(block) /\ BlockWrong(block) = Even(NWrong, nBlocks, block)
      /\ BlockWrong(block + 1) \in Nat /\ BlockSize(block + 1) \in Nat
  BY <1>2, Quotas
<1>4. /\ WrongItems' = WrongItems /\ CorrectItems' = CorrectItems
      /\ NWrong' = NWrong /\ Blocks' = Blocks /\ nBlocks' = nBlocks
      /\ \A c \in Blocks : /\ BlockWrong(c)' = BlockWrong(c) /\ BlockSize(c)' = BlockSize(c)
                             /\ WrongIn(c)' = WrongIn(c)
  BY <1>1 DEF config, BlockWrong, BlockSize, NWrong, WrongItems, CorrectItems, Blocks, WrongIn
<1>5. TypeOK'
  BY <1>1, <1>2, <1>4 DEF TypeOK, config
<1>6. Supply'
  <2>1. Lesser(inBlock, BlockWrong(block)) = BlockWrong(block)
    BY <1>1, <1>3 DEF Lesser
  <2>2. Lesser(0, BlockWrong(block + 1)) = 0
    BY <1>3 DEF Lesser
  <2>3. /\ Cardinality(wrongLeft) = Rest(NWrong, nBlocks, block + 1)
        /\ Cardinality(correctLeft) = Rest(Total, nBlocks, block + 1)
                                          - Rest(NWrong, nBlocks, block + 1)
    BY <1>1, <1>2, <1>3, <2>1, Needs DEF PlanInv, Supply
  <2> DEFINE b == block + 1
  <2>5. block' = b /\ BlockWrong(block)' = BlockWrong(b) /\ BlockSize(block)' = BlockSize(b)
    BY <1>1, <1>4 DEF BlockWrong, BlockSize, config, WrongItems, CorrectItems
  <2>6. Rest(NWrong, nBlocks, b) \in Nat /\ Rest(Total, nBlocks, b) \in Nat
    BY <1>2, Needs
  <2> QED  BY <1>1, <1>3, <1>4, <2>2, <2>3, <2>5, <2>6 DEF Supply
<1>7. Placed'
  <2>1. Upto(Total, nBlocks, block + 1) = Upto(Total, nBlocks, block) + inBlock
        /\ Upto(Total, nBlocks, block) \in Nat
    BY <1>1, <1>2, Needs
  <2>2. Len(plan) = Cardinality(PracticeItems) - Cardinality(practiceLeft)
                         + Upto(Total, nBlocks, block + 1) + 0
    <3>1. /\ Cardinality(PracticeItems) \in Nat /\ Cardinality(practiceLeft) \in Nat
      <4>1. IsFiniteSet(practiceLeft)
        BY <1>2, BankAssumption, FS_Subset DEF TypeOK
      <4> QED  BY <4>1, BankAssumption, FS_CardinalityType
    <3> QED  BY <3>1, <2>1, <1>1, <1>3 DEF PlanInv, Placed
  <2> QED  BY <2>2, <1>1, <1>4 DEF PlanInv, Placed
<1>8. Spread'
  <2> SUFFICES ASSUME NEW c \in Blocks
               PROVE  WrongIn(c) = IF c < block + 1 THEN Even(NWrong, nBlocks, c)
                                   ELSE IF c = block + 1 THEN Lesser(0, BlockWrong(c)) ELSE 0
    BY <1>1, <1>4 DEF Spread
  <2>1. WrongIn(c) = IF c < block THEN Even(NWrong, nBlocks, c)
                     ELSE IF c = block THEN Lesser(inBlock, BlockWrong(c)) ELSE 0
    BY DEF PlanInv, Spread
  <2>2. c \in Nat /\ BlockWrong(c) \in Nat
    BY <1>2, Quotas DEF Blocks
  <2>3. CASE c < block
    BY <2>1, <2>2, <2>3, <1>2
  <2>4. CASE c = block
    BY <2>1, <2>4, <1>1, <1>2, <1>3 DEF Lesser
  <2>5. CASE c > block
    BY <2>1, <2>2, <2>5, <1>2 DEF Lesser
  <2> QED  BY <2>2, <2>3, <2>4, <2>5, <1>2
<1>9. Phases'
  BY <1>1 DEF PlanInv, Phases
<1> QED  BY <1>5, <1>6, <1>7, <1>8, <1>9 DEF PlanInv

\* The plan is never starved: when a pool is empty, nothing is needed of it.
LEMMA StarveNever == PlanInv => NeverStarved
<1> SUFFICES ASSUME PlanInv, Starved PROVE FALSE
  BY DEF NeverStarved
<1>1. TypeOK /\ inBlock \in Nat /\ block \in Blocks /\ inBlock < BlockSize(block)
  BY DEF PlanInv, TypeOK, Starved
<1>2. /\ BlockWrong(block) \in Nat /\ BlockSize(block) \in Nat
      /\ BlockWrong(block) <= BlockSize(block)
  BY <1>1, Quotas
<1>3. CASE inBlock < BlockWrong(block)
  <2>1. Cardinality(wrongLeft) = 0
    BY <1>3, FS_EmptySet DEF Starved
  <2>2. Cardinality(wrongLeft) = Rest(NWrong, nBlocks, block) - inBlock
    BY <1>1, <1>2, <1>3 DEF PlanInv, Supply, Lesser
  <2> QED  BY <2>1, <2>2, <1>1, <1>2, <1>3, Needs
<1>4. CASE inBlock >= BlockWrong(block)
  <2>1. Cardinality(correctLeft) = 0
    BY <1>1, <1>2, <1>4, FS_EmptySet DEF Starved
  <2>2. Cardinality(correctLeft) = Rest(Total, nBlocks, block) - Rest(NWrong, nBlocks, block)
                                      - (inBlock - BlockWrong(block))
    BY <1>1, <1>2, <1>4 DEF PlanInv, Supply, Lesser
  <2> QED  BY <2>1, <2>2, <1>1, <1>2, <1>4, Needs
<1> QED  BY <1>1, <1>2, <1>3, <1>4

\* The steps that only change the phase.
LEMMA PhaseStep == PlanInv /\ (BeginMain \/ Finish) => PlanInv'
<1> SUFFICES ASSUME PlanInv, BeginMain \/ Finish PROVE PlanInv'
  OBVIOUS
<1>1. UNCHANGED <<config, practiceLeft, wrongLeft, correctLeft, block, inBlock, plan>>
  BY DEF BeginMain, Finish
<1>2. Phases' /\ phase' \in {"main", "unassigned", "done"}
  <2>1. CASE BeginMain
    BY <2>1 DEF BeginMain, PlanInv, Phases
  <2>2. CASE Finish
    BY <2>2 DEF Finish, PlanInv, Phases, BlockSize, config
  <2> QED  BY <2>1, <2>2
<1>3. TypeOK'
  BY <1>1, <1>2 DEF PlanInv, TypeOK, config, WrongItems, CorrectItems, Blocks
<1>4. Supply' /\ Placed' /\ Spread'
  BY <1>1 DEF PlanInv, Supply, Placed, Spread, config, WrongItems, CorrectItems, Blocks, NWrong,
              BlockSize, BlockWrong, WrongIn
<1> QED  BY <1>2, <1>3, <1>4 DEF PlanInv

\* A stutter keeps the invariant.
LEMMA PlanUnchanged == PlanInv /\ UNCHANGED vars => PlanInv'
<1> SUFFICES ASSUME PlanInv, UNCHANGED vars PROVE PlanInv'
  OBVIOUS
<1>1. TypeOK'
  BY DEF PlanInv, vars, TypeOK, WrongItems, CorrectItems, Blocks
<1>2. Supply'
  BY DEF PlanInv, vars, Supply, WrongItems, CorrectItems, NWrong, BlockSize, BlockWrong
<1>3. Placed'
  BY DEF PlanInv, vars, Placed, WrongItems, CorrectItems
<1>4. Spread'
  BY DEF PlanInv, vars, Spread, WrongItems, CorrectItems, Blocks, NWrong, BlockSize, BlockWrong,
         WrongIn
<1>5. Phases'
  BY DEF PlanInv, vars, Phases, BlockSize
<1> QED  BY <1>1, <1>2, <1>3, <1>4, <1>5 DEF PlanInv

\* The inductive invariant of the plan under construction.
THEOREM PlanInvariant == Spec => []PlanInv
<1>1. PlanInv /\ [Next]_vars => PlanInv'
  BY PlacePracticeStep, PlaceWrongStep, PlaceCorrectStep, NextBlockStep, PhaseStep, PlanUnchanged
     DEF Next, Over
<1> QED  BY PlanInit, <1>1, PTL DEF Spec

-----------------------------------------------------------------------------
(* The results.                                                            *)

\* Every plan under construction is well typed (_build_main_trials).
THEOREM TypeCorrect == Spec => []TypeOK
<1>1. PlanInv => TypeOK
  BY DEF PlanInv
<1> QED  BY PlanInvariant, <1>1, PTL

\* "insufficient stimulus supply" is never raised for a session's own banks.
THEOREM SupplySuffices == Spec => []NeverStarved
<1> QED  BY PlanInvariant, StarveNever, PTL

\* A finished plan shows every item of the banks exactly once.
THEOREM AllItemsOnce == Spec => []EveryItemOnce
<1>1. PlanInv => EveryItemOnce
  <2> SUFFICES ASSUME PlanInv, phase = "done"
               PROVE  /\ Len(plan) = Cardinality(Items)
                      /\ {plan[k].item : k \in DOMAIN plan} = Items
    BY DEF EveryItemOnce
  <2>1. /\ TypeOK /\ block \in Blocks /\ nBlocks \in Nat \ {0} /\ practiceLeft = {}
        /\ block + 1 = nBlocks /\ inBlock = BlockSize(block)
    BY DEF PlanInv, Phases, TypeOK
  <2>2. /\ BlockWrong(block) \in Nat /\ BlockSize(block) \in Nat
        /\ BlockWrong(block) <= BlockSize(block)
    BY <2>1, Quotas
  <2>3. Rest(NWrong, nBlocks, nBlocks) = 0 /\ Rest(Total, nBlocks, nBlocks) = 0
    BY <2>1, Kinds, UptoEnds DEF Rest
  <2>4. Cardinality(wrongLeft) = 0 /\ Cardinality(correctLeft) = 0
    <3>1. Lesser(inBlock, BlockWrong(block)) = BlockWrong(block)
      BY <2>1, <2>2 DEF Lesser
    <3> QED  BY <2>1, <2>2, <2>3, <3>1, Needs DEF PlanInv, Supply
  <2>5. wrongLeft = {} /\ correctLeft = {}
    <3>1. IsFiniteSet(wrongLeft) /\ IsFiniteSet(correctLeft)
      BY <2>1, Kinds, FS_Subset DEF TypeOK
    <3> QED  BY <2>4, <3>1, FS_EmptySet
  <2>6. {plan[k].item : k \in DOMAIN plan} = Items
    <3>1. PracticeItems \cup WrongItems \cup CorrectItems = Items
      BY DEF Items, WrongItems, CorrectItems
    <3> QED  BY <3>1, <2>1, <2>5 DEF PlanInv, Placed
  <2>7. Len(plan) = Cardinality(PracticeItems) + Total
    <3>1. Upto(Total, nBlocks, block) + inBlock = Total
      BY <2>1, Kinds, Needs, UptoEnds
    <3>2. Cardinality(PracticeItems) \in Nat /\ Cardinality({}) = 0
      BY BankAssumption, FS_CardinalityType, FS_EmptySet
    <3>3. Upto(Total, nBlocks, block) \in Nat /\ inBlock \in Nat /\ Total \in Nat
      BY <2>1, Needs, Kinds DEF TypeOK
    <3>4. Len(plan) = Cardinality(PracticeItems) - Cardinality(practiceLeft)
                         + Upto(Total, nBlocks, block) + inBlock
      BY DEF PlanInv, Placed
    <3> QED  BY <3>1, <3>2, <3>3, <3>4, <2>1
  <2>8. Cardinality(Items) = Total + Cardinality(PracticeItems)
    <3>1. Cardinality(MainItems \cup PracticeItems) =
             Cardinality(MainItems) + Cardinality(PracticeItems) - Cardinality(MainItems \cap PracticeItems)
      BY BankAssumption, FS_Union
    <3>2. Cardinality(MainItems \cap PracticeItems) = 0
      <4>1. Cardinality(MainItems \cap PracticeItems) = Cardinality({})
        BY BankAssumption, Zenon
      <4> QED  BY <4>1, FS_EmptySet
    <3>3. Total \in Nat /\ Cardinality(PracticeItems) \in Nat
      BY BankAssumption, Kinds, FS_CardinalityType
    <3> QED  BY <3>1, <3>2, <3>3 DEF Items, Total
  <2>9. Total \in Nat /\ Cardinality(PracticeItems) \in Nat
    BY BankAssumption, Kinds, FS_CardinalityType
  <2> QED  BY <2>6, <2>7, <2>8, <2>9
<1> QED  BY PlanInvariant, <1>1, PTL

\* Wrong advice is spread evenly over the blocks of a finished plan.
THEOREM AdviceIsSpread == Spec => []AdviceSpread
<1>1. PlanInv => AdviceSpread
  <2> SUFFICES ASSUME PlanInv, phase = "done", NEW a \in Blocks, NEW b \in Blocks
               PROVE  WrongIn(a) <= WrongIn(b) + 1
    BY DEF AdviceSpread
  <2>1. /\ TypeOK /\ block \in Blocks /\ nBlocks \in Nat \ {0}
        /\ block + 1 = nBlocks /\ inBlock = BlockSize(block)
    BY DEF PlanInv, Phases, TypeOK
  <2>2. ASSUME NEW c \in Blocks PROVE WrongIn(c) = Even(NWrong, nBlocks, c)
    <3>1. /\ BlockWrong(block) \in Nat /\ BlockSize(block) \in Nat
          /\ BlockWrong(block) <= BlockSize(block)
          /\ BlockWrong(block) = Even(NWrong, nBlocks, block)
      BY <2>1, Quotas
    <3>2. c < block \/ c = block
      BY <2>1 DEF Blocks
    <3>3. Lesser(inBlock, BlockWrong(block)) = Even(NWrong, nBlocks, block)
      BY <2>1, <3>1 DEF Lesser
    <3>4. WrongIn(c) = IF c < block THEN Even(NWrong, nBlocks, c)
                       ELSE IF c = block THEN Lesser(inBlock, BlockWrong(c)) ELSE 0
      BY DEF PlanInv, Spread
    <3> QED  BY <3>2, <3>3, <3>4
  <2>3. a \in Nat /\ b \in Nat
    BY DEF Blocks
  <2> QED  BY <2>1, <2>2, <2>3, Kinds, EvenSpread
<1> QED  BY PlanInvariant, <1>1, PTL
=============================================================================
