------------------------------ MODULE TrialPlan ------------------------------
(***************************************************************************)
(* How the trial plan of a session is built from the banks of its run:     *)
(* build_trial_plan as the live flow calls it, with as many practice       *)
(* trials as the practice bank has items and as many main trials as the    *)
(* main banks have, spread over the blocks.  One step places one item.     *)
(*                                                                         *)
(* The pools are shuffled with a seed derived from the participant, so any *)
(* order may come up: where the code takes the first item with the best    *)
(* score, the model takes any item with the best score.  The flow asks for *)
(* exactly as many trials as there are items, hence require_unique is TRUE *)
(* and no item is ever reused.                                             *)
(***************************************************************************)
EXTENDS Integers, Sequences, FiniteSets

CONSTANTS
    MainItems,      \* items of the run's main banks
    PracticeItems,  \* items of its practice bank
    MaxBlocks,      \* bound on n_blocks
    NConditions     \* length of a row of latin_square_orders.yaml

ASSUME BankAssumption ==
    /\ IsFiniteSet(MainItems) /\ IsFiniteSet(PracticeItems)
    /\ MainItems \cap PracticeItems = {}
    /\ MaxBlocks \in Nat /\ NConditions \in Nat

VARIABLES
    correct,       \* item -> model_correct
    difficulty,    \* item -> difficulty_prior
    nBlocks,       \* n_blocks of the run's execution config
    practiceLeft, wrongLeft, correctLeft,  \* items not placed yet
    block,         \* block being filled, from 0
    inBlock,       \* len(block)
    plan,          \* the trials so far
    phase

config == <<correct, difficulty, nBlocks>>
vars == <<correct, difficulty, nBlocks, practiceLeft, wrongLeft, correctLeft,
          block, inBlock, plan, phase>>

Items == MainItems \cup PracticeItems
Levels == {"low", "medium", "high"}
Rank == [low |-> 0, medium |-> 1, high |-> 2]
Practice == -1

-----------------------------------------------------------------------------
(* Shares.                                                                 *)

Lesser(a, b) == IF a <= b THEN a ELSE b
Greater(a, b) == IF a >= b THEN a ELSE b

\* Mutants: the remainder is lost; all of it goes to the first bin.
EvenTruncated(total, bins, b) == total \div bins
EvenFirst(total, bins, b) == total \div bins + (IF b = 0 THEN total % bins ELSE 0)

\* Bin b of total things over bins bins; the first bins take the remainder.
Even(total, bins, b) == total \div bins + (IF b < total % bins THEN 1 ELSE 0)

\* Mutant: capped at the share although the bank has no more right advice.
WrongTotalCapped(total, wrong, right) == Lesser(total \div 3, wrong)

\* A third of the trials shows wrong advice, or fewer if the bank has fewer,
\* or more if it has not enough items with right advice.
WrongTotal(total, wrong, right) ==
    Lesser(Greater(Greater(0, total - right), Lesser(total \div 3, Lesser(wrong, total))),
           Lesser(wrong, total))

Total == Cardinality(MainItems)
WrongItems == {i \in MainItems : ~correct[i]}
CorrectItems == MainItems \ WrongItems
Blocks == 0 .. nBlocks - 1

BlockSize(b) == Even(Total, nBlocks, b)
BlockWrong(b) ==
    Lesser(Even(WrongTotal(Total, Cardinality(WrongItems), Cardinality(CorrectItems)),
                nBlocks, b),
           BlockSize(b))
LevelTarget(level) == Even(BlockSize(block), 3, Rank[level])

-----------------------------------------------------------------------------
(* Choices.                                                                *)

InBlock(level) ==
    Cardinality({k \in DOMAIN plan : /\ plan[k].block = block
                                     /\ difficulty[plan[k].item] = level})
Deficit(i) == LevelTarget(difficulty[i]) - InBlock(difficulty[i])

\* The level the block lacks most.
Balanced(pool) == {i \in pool : \A j \in pool : Deficit(j) <= Deficit(i)}

\* Practice shows right advice first, and easier items first.
NotAfter(i, j) ==
    \/ correct[i] /\ ~correct[j]
    \/ correct[i] = correct[j] /\ Rank[difficulty[i]] <= Rank[difficulty[j]]
Easiest(pool) == {i \in pool : \A j \in pool : NotAfter(i, j)}

Place(i, b, index) == plan' = Append(plan, [item |-> i, block |-> b, index |-> index])

-----------------------------------------------------------------------------

\* validate_non_empty_main_blocks: at least one item for every block.
Init ==
    /\ correct \in [Items -> BOOLEAN]
    /\ difficulty \in [Items -> Levels]
    /\ nBlocks \in 1..MaxBlocks
    /\ nBlocks <= Total
    /\ practiceLeft = PracticeItems
    /\ wrongLeft = WrongItems
    /\ correctLeft = CorrectItems
    /\ block = 0
    /\ inBlock = 0
    /\ plan = <<>>
    /\ phase = "practice"

PlacePractice ==
    /\ phase = "practice"
    /\ \E i \in Easiest(practiceLeft) :
           /\ Place(i, Practice, Len(plan))
           /\ practiceLeft' = practiceLeft \ {i}
    /\ UNCHANGED <<config, wrongLeft, correctLeft, block, inBlock, phase>>

BeginMain ==
    /\ phase = "practice"
    /\ practiceLeft = {}
    /\ phase' = "main"
    /\ UNCHANGED <<config, practiceLeft, wrongLeft, correctLeft, block, inBlock, plan>>

PlaceWrong ==
    /\ phase = "main"
    /\ inBlock < BlockWrong(block)
    /\ \E i \in Balanced(wrongLeft) :
           /\ Place(i, block, inBlock)
           /\ wrongLeft' = wrongLeft \ {i}
    /\ inBlock' = inBlock + 1
    /\ UNCHANGED <<config, practiceLeft, correctLeft, block, phase>>

PlaceCorrect ==
    /\ phase = "main"
    /\ inBlock >= BlockWrong(block)
    /\ inBlock < BlockSize(block)
    /\ \E i \in Balanced(correctLeft) :
           /\ Place(i, block, inBlock)
           /\ correctLeft' = correctLeft \ {i}
    /\ inBlock' = inBlock + 1
    /\ UNCHANGED <<config, practiceLeft, wrongLeft, block, phase>>

\* Mutant: one block too many.
NextBlockBeyond ==
    /\ phase = "main"
    /\ inBlock = BlockSize(block)
    /\ block + 1 <= nBlocks
    /\ block' = block + 1
    /\ inBlock' = 0
    /\ UNCHANGED <<config, practiceLeft, wrongLeft, correctLeft, plan, phase>>

NextBlock ==
    /\ phase = "main"
    /\ inBlock = BlockSize(block)
    /\ block + 1 < nBlocks
    /\ block' = block + 1
    /\ inBlock' = 0
    /\ UNCHANGED <<config, practiceLeft, wrongLeft, correctLeft, plan, phase>>

\* "insufficient stimulus supply for configured main trials": the next trial
\* is to come from an empty pool.  The code raises, so no step leads on.
Starved ==
    /\ phase = "main"
    /\ inBlock < BlockSize(block)
    /\ IF inBlock < BlockWrong(block) THEN wrongLeft = {} ELSE correctLeft = {}

\* The blocks get the conditions of the participant's Latin-square row, and a
\* block beyond the row an IndexError.
Finish ==
    /\ phase = "main"
    /\ inBlock = BlockSize(block)
    /\ block + 1 = nBlocks
    /\ phase' = IF nBlocks <= NConditions THEN "done" ELSE "unassigned"
    /\ UNCHANGED <<config, practiceLeft, wrongLeft, correctLeft, block, inBlock, plan>>

\* build_trial_plan has returned or raised.
Over == phase \in {"done", "unassigned"} /\ UNCHANGED vars

Next ==
    \/ PlacePractice \/ BeginMain \/ PlaceWrong \/ PlaceCorrect
    \/ NextBlock \/ Finish \/ Over

Spec == Init /\ [][Next]_vars

-----------------------------------------------------------------------------
(* Properties.                                                             *)

\* The type invariant of the plan under construction (_build_main_trials).
TypeOK ==
    /\ correct \in [Items -> BOOLEAN]
    /\ difficulty \in [Items -> Levels]
    /\ nBlocks \in Nat \ {0}
    /\ practiceLeft \subseteq PracticeItems
    /\ wrongLeft \subseteq WrongItems
    /\ correctLeft \subseteq CorrectItems
    /\ block \in Blocks
    /\ inBlock \in Nat
    /\ plan \in Seq([item : Items, block : Practice .. nBlocks - 1, index : Nat])
    /\ phase \in {"practice", "main", "unassigned", "done"}

\* The quotas computed from the whole bank never ask a block for an item that
\* is no longer there: _pop_balanced_candidate always finds one.
NeverStarved == ~Starved

\* A finished plan shows every item of the run's banks exactly once, which is
\* what expected_trial_count counts.
EveryItemOnce ==
    phase = "done" =>
        /\ Len(plan) = Cardinality(Items)
        /\ {plan[k].item : k \in DOMAIN plan} = Items

\* Wrong advice is spread over the blocks as evenly as it can be, whatever the
\* order of the pools and the difficulties (_main_wrong_targets).
WrongIn(b) == Cardinality({k \in DOMAIN plan : plan[k].block = b /\ ~correct[plan[k].item]})
AdviceSpread ==
    phase = "done" =>
        \A a, b \in Blocks : WrongIn(a) <= WrongIn(b) + 1
=============================================================================
