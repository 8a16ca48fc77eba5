---------------------------- MODULE CoinsSelection ----------------------------
(***************************************************************************)
(* CCoinsSelectionAlgorithmBase and its Sliding Window and Branch & Bound *)
(* solvers (src/src/coinsselectionalgorithm.hpp).  The constructor sorts  *)
(* the coins by descending amount; StartSolvingAsync runs Solve() on a    *)
(* thread; StopSolving raises stopRequested and joins the thread.  The    *)
(* repository holds the header only: the solving routines follow the      *)
(* strategies the header documents, one loop iteration (Sliding Window)   *)
(* or one SolveRecursive entry (Branch & Bound) per step, the stop flag   *)
(* sampled at each.  The recursion is an explicit stack of the            *)
(* SolveRecursive arguments plus the tempSelection of that call.          *)
(***************************************************************************)
EXTENDS Integers, FiniteSets, SequencesExt

CONSTANTS
    Problems,   \* constructor inputs: [amountsAndSizes, targetAmount, targetAmountPlusOffset, availableTotalSize]
    Types       \* algorithm types constructed

VARIABLES
    type, amounts, sizes, targetAmount, targetAmountPlusOffset, availableTotalSize,
    isRunning,              \* std::atomic<bool>
    stopRequested,          \* std::atomic<bool>
    solvingThread,          \* "none", "starting", "solving", "finished", "joined"
    hasCompleted,
    optimalSelection, optimalTotalAmount, optimalTotalSize, optimalTotalSelection,
    stack,                  \* Branch & Bound: pending SolveRecursive calls, top first
    sw,                     \* Sliding Window: loop index, window, found, ended
    caller                  \* "constructed", "started", "stopping", "stopped"

inputs == <<type, amounts, sizes, targetAmount, targetAmountPlusOffset, availableTotalSize>>
outputs == <<optimalSelection, optimalTotalAmount, optimalTotalSize, optimalTotalSelection>>
vars == <<inputs, isRunning, stopRequested, solvingThread, hasCompleted, outputs, stack, sw, caller>>

Contract == INSTANCE CoinsSelectionContract
                WITH status <- caller,
                     worker <- CASE solvingThread = "none" -> "none"
                                 [] solvingThread \in {"starting", "solving"} -> "busy"
                                 [] OTHER -> "done",
                     completed <- hasCompleted,
                     result <- IF solvingThread \in {"finished", "joined"}
                               THEN [optimalSelection |-> optimalSelection,
                                     optimalTotalAmount |-> optimalTotalAmount,
                                     optimalTotalSize |-> optimalTotalSize,
                                     optimalTotalSelection |-> optimalTotalSelection]
                               ELSE [optimalSelection |-> {}, optimalTotalAmount |-> 0,
                                     optimalTotalSize |-> 0, optimalTotalSelection |-> 0]

n == Len(amounts)

------------------------------------------------------------------------------
(* PrepareAmounts / PrepareSizes: the pairs sorted by descending amount,  *)
(* equal amounts keeping their order, each size following its amount.    *)
RECURSIVE SortDescending(_)
SortDescending(s) ==
    IF s = <<>> THEN <<>>
    ELSE LET sorted == SortDescending(Front(s))
             k == Cardinality({i \in 1..Len(sorted) : sorted[i][1] >= Last(s)[1]})
         IN SubSeq(sorted, 1, k) \o <<Last(s)>> \o SubSeq(sorted, k + 1, Len(sorted))

(* PrepareCumulativeAmountsForward: amounts summed from an index to the end. *)
CumulativeAmountsForward(i) == MapThenSumSet(LAMBDA j : amounts[j], i..n)

SetOutputs(r) ==
    /\ optimalSelection' = r.optimalSelection
    /\ optimalTotalAmount' = r.optimalTotalAmount
    /\ optimalTotalSize' = r.optimalTotalSize
    /\ optimalTotalSelection' = r.optimalTotalSelection

RootCall == [currentIndex |-> 1, tempTotalSize |-> 0, tempTotalAmount |-> 0,
             tempTotalSelection |-> 0, tempSelection |-> {}]

------------------------------------------------------------------------------
(* Branch & Bound, one SolveRecursive(currentIndex, tempTotalSize,        *)
(* tempTotalAmount, tempTotalSelection) call.                             *)
(* backtracking (1): an upper limit is already broken. *)
Backtrack1(f) ==
    f.tempTotalSize > availableTotalSize \/ f.tempTotalAmount > targetAmountPlusOffset

(* Mutant: the reachable amount must exceed the target, not reach it. *)
Backtrack2_AtTarget(f) ==
    f.tempTotalAmount + CumulativeAmountsForward(f.currentIndex) <= targetAmount

(* backtracking (2): even every remaining coin cannot reach the target. *)
Backtrack2(f) ==
    f.tempTotalAmount + CumulativeAmountsForward(f.currentIndex) < targetAmount

(* Mutant: ties on the selection count are cut without the amount test. *)
Bounding_NoTieBreak(f) ==
    /\ optimalTotalSelection > 0
    /\ f.tempTotalSelection + (n + 1 - f.currentIndex) <= optimalTotalSelection

(* bounding: even every remaining coin cannot beat the temporary optimum, *)
(* ties going to the lower total amount.                                  *)
Bounding(f) ==
    LET reach == f.tempTotalSelection + (n + 1 - f.currentIndex)
    IN /\ optimalTotalSelection > 0
       /\ \/ reach < optimalTotalSelection
          \/ /\ reach = optimalTotalSelection
             /\ f.tempTotalAmount + CumulativeAmountsForward(f.currentIndex) >= optimalTotalAmount

(* Mutant: a new optimum keeps the previous total size. *)
LeafOutputs_StaleSize(f) ==
    [optimalSelection |-> f.tempSelection, optimalTotalAmount |-> f.tempTotalAmount,
     optimalTotalSize |-> optimalTotalSize, optimalTotalSelection |-> f.tempTotalSelection]

(* A leaf that survived the cuts is the new temporary optimum. *)
LeafOutputs(f) ==
    [optimalSelection |-> f.tempSelection, optimalTotalAmount |-> f.tempTotalAmount,
     optimalTotalSize |-> f.tempTotalSize, optimalTotalSelection |-> f.tempTotalSelection]

(* The two branches of coin i: excluding it first, then including it. *)
Branches(f) ==
    LET i == f.currentIndex
    IN <<[f EXCEPT !.currentIndex = i + 1],
         [currentIndex |-> i + 1, tempTotalSize |-> f.tempTotalSize + sizes[i],
          tempTotalAmount |-> f.tempTotalAmount + amounts[i],
          tempTotalSelection |-> f.tempTotalSelection + 1,
          tempSelection |-> f.tempSelection \cup {i}]>>

SolveRecursive ==
    /\ solvingThread = "solving"
    /\ type = "BRANCH_AND_BOUND"
    /\ stack # <<>>
    /\ ~stopRequested
    /\ LET f == Head(stack) IN
       IF Backtrack1(f) \/ Backtrack2(f) \/ Bounding(f)
       THEN /\ stack' = Tail(stack) /\ UNCHANGED outputs
       ELSE IF f.currentIndex = n + 1
       THEN /\ stack' = Tail(stack) /\ SetOutputs(LeafOutputs(f))
       ELSE /\ stack' = Branches(f) \o Tail(stack) /\ UNCHANGED outputs
    /\ UNCHANGED <<inputs, isRunning, stopRequested, solvingThread, hasCompleted, sw, caller>>

------------------------------------------------------------------------------
(* Sliding Window, one iteration: the next coin, from the lowest amount   *)
(* up, is pushed into the window.                                         *)
WindowAmount(w) == MapThenSumSet(LAMBDA i : amounts[i], ToSet(w))
WindowSize(w) == MapThenSumSet(LAMBDA i : sizes[i], ToSet(w))
OverLimits(w) == WindowAmount(w) > targetAmountPlusOffset \/ WindowSize(w) > availableTotalSize

(* Mutant: a single coin is popped, whatever remains. *)
PopSmallest_Once(w) == IF w # <<>> /\ OverLimits(w) THEN Tail(w) ELSE w

(* Pop the smallest coins until both upper limits hold. *)
RECURSIVE PopSmallest(_)
PopSmallest(w) == IF w # <<>> /\ OverLimits(w) THEN PopSmallest(Tail(w)) ELSE w

SlidingWindowStep ==
    /\ solvingThread = "solving"
    /\ type = "SLIDING_WINDOW"
    /\ sw.i >= 1 /\ ~sw.ended
    /\ ~stopRequested
    /\ LET pushed == Append(sw.window, sw.i)
           popped == PopSmallest(pushed)
       IN sw' = IF ~sw.found
                THEN [sw EXCEPT !.i = @ - 1, !.window = popped,
                                !.found = WindowAmount(popped) >= targetAmount]
                ELSE IF OverLimits(pushed)
                THEN [sw EXCEPT !.i = @ - 1, !.ended = TRUE]
                ELSE [sw EXCEPT !.i = @ - 1, !.window = pushed]
    /\ UNCHANGED <<inputs, isRunning, stopRequested, solvingThread, hasCompleted, outputs, stack, caller>>

------------------------------------------------------------------------------
(* The solving thread. *)
WorkLeft ==
    IF type = "BRANCH_AND_BOUND" THEN stack # <<>> ELSE sw.i >= 1 /\ ~sw.ended

(* Mutant: the window loop starts at problemDimension, not maxIndex. *)
Reset_FromDimension ==
    /\ solvingThread = "starting"
    /\ solvingThread' = "solving"
    /\ hasCompleted' = FALSE
    /\ SetOutputs(Contract!NoSelection)
    /\ stack' = <<RootCall>>
    /\ sw' = [i |-> n + 1, window |-> <<>>, found |-> FALSE, ended |-> FALSE]
    /\ UNCHANGED <<inputs, isRunning, stopRequested, caller>>

(* Reset(), the first thing Solve() does. *)
Reset ==
    /\ solvingThread = "starting"
    /\ solvingThread' = "solving"
    /\ hasCompleted' = FALSE
    /\ SetOutputs(Contract!NoSelection)
    /\ stack' = <<RootCall>>
    /\ sw' = [i |-> n, window |-> <<>>, found |-> FALSE, ended |-> FALSE]
    /\ UNCHANGED <<inputs, isRunning, stopRequested, caller>>

(* The search is over: Sliding Window sets the best selection set. *)
SolveCompleted ==
    /\ solvingThread = "solving"
    /\ ~WorkLeft
    /\ solvingThread' = "finished"
    /\ hasCompleted' = TRUE
    /\ isRunning' = FALSE
    /\ IF type = "SLIDING_WINDOW"
       THEN SetOutputs(IF sw.found THEN Contract!Selection(ToSet(sw.window)) ELSE Contract!NoSelection)
       ELSE UNCHANGED outputs
    /\ UNCHANGED <<inputs, stopRequested, stack, sw, caller>>

(* Mutant: a stopped routine reports itself completed. *)
SolveStopped_MarksCompleted ==
    /\ solvingThread = "solving"
    /\ WorkLeft
    /\ stopRequested
    /\ solvingThread' = "finished"
    /\ hasCompleted' = TRUE
    /\ isRunning' = FALSE
    /\ UNCHANGED <<inputs, stopRequested, outputs, stack, sw, caller>>

(* Mutant: the stop flag is seen but the loop is not left. *)
SolveStopped_KeepsLooping ==
    /\ solvingThread = "solving"
    /\ WorkLeft
    /\ stopRequested
    /\ UNCHANGED vars

(* The stop flag is seen at a loop iteration or recursion entry. *)
SolveStopped ==
    /\ solvingThread = "solving"
    /\ WorkLeft
    /\ stopRequested
    /\ solvingThread' = "finished"
    /\ isRunning' = FALSE
    /\ UNCHANGED <<inputs, stopRequested, hasCompleted, outputs, stack, sw, caller>>

------------------------------------------------------------------------------
(* The caller. *)
StartSolvingAsync ==
    /\ caller = "constructed"
    /\ caller' = "started"
    /\ isRunning' = TRUE
    /\ stopRequested' = FALSE
    /\ solvingThread' = "starting"
    /\ UNCHANGED <<inputs, hasCompleted, outputs, stack, sw>>

(* StopSolving: raise the flag, then join the thread if there is one. *)
StopSolving ==
    /\ caller \in {"constructed", "started"}
    /\ caller' = "stopping"
    /\ stopRequested' = TRUE
    /\ UNCHANGED <<inputs, isRunning, solvingThread, hasCompleted, outputs, stack, sw>>

StopSolvingJoin ==
    /\ caller = "stopping"
    /\ solvingThread \in {"none", "finished"}
    /\ caller' = "stopped"
    /\ solvingThread' = IF solvingThread = "finished" THEN "joined" ELSE "none"
    /\ UNCHANGED <<inputs, isRunning, stopRequested, hasCompleted, outputs, stack, sw>>

Init ==
    /\ \E p \in Problems, t \in Types :
           LET sorted == SortDescending(p.amountsAndSizes) IN
           /\ type = t
           /\ amounts = [i \in 1..Len(sorted) |-> sorted[i][1]]
           /\ sizes = [i \in 1..Len(sorted) |-> sorted[i][2]]
           /\ targetAmount = p.targetAmount
           /\ targetAmountPlusOffset = p.targetAmountPlusOffset
           /\ availableTotalSize = p.availableTotalSize
    /\ isRunning = FALSE
    /\ stopRequested = FALSE
    /\ solvingThread = "none"
    /\ hasCompleted = FALSE
    /\ optimalSelection = {} /\ optimalTotalAmount = 0
    /\ optimalTotalSize = 0 /\ optimalTotalSelection = 0
    /\ stack = <<>>
    /\ sw = [i |-> 0, window |-> <<>>, found |-> FALSE, ended |-> FALSE]
    /\ caller = "constructed"

Worker == Reset \/ SolveRecursive \/ SlidingWindowStep \/ SolveCompleted \/ SolveStopped

Next == StartSolvingAsync \/ StopSolving \/ StopSolvingJoin \/ Worker

(* The solving thread is scheduled, and a joining caller wakes once it    *)
(* has ended.                                                             *)
Spec == Init /\ [][Next]_vars /\ WF_vars(Worker) /\ WF_vars(StopSolvingJoin)

------------------------------------------------------------------------------
TypeOK ==
    /\ type \in {"SLIDING_WINDOW", "BRANCH_AND_BOUND"}
    /\ isRunning \in BOOLEAN /\ stopRequested \in BOOLEAN /\ hasCompleted \in BOOLEAN
    /\ solvingThread \in {"none", "starting", "solving", "finished", "joined"}
    /\ caller \in {"constructed", "started", "stopping", "stopped"}
    /\ optimalSelection \subseteq 1..n
    /\ optimalTotalAmount \in Nat /\ optimalTotalSize \in Nat /\ optimalTotalSelection \in 0..n
    /\ sw.i \in 0..n /\ IsInjective(sw.window) /\ ToSet(sw.window) \subseteq 1..n

(* At every moment, including after a stop, the output variables        *)
(* describe one selection, and a non-empty one is admissible: the        *)
(* incumbent Branch & Bound copies at a leaf and the window Sliding      *)
(* Window sets after popping coins.                                      *)
ResultAdmissible ==
    /\ [optimalSelection |-> optimalSelection, optimalTotalAmount |-> optimalTotalAmount,
        optimalTotalSize |-> optimalTotalSize, optimalTotalSelection |-> optimalTotalSelection]
           = Contract!Selection(optimalSelection)
    /\ optimalSelection # {} => Contract!Admissible(optimalSelection)

(* A completed Branch & Bound run found a selection with the most coins  *)
(* and, among those, the least amount, or none when no subset is         *)
(* admissible, despite its backtracking and bounding cuts.               *)
BranchAndBoundOptimal ==
    hasCompleted /\ type = "BRANCH_AND_BOUND" =>
        IF Contract!AdmissibleSelections = {} THEN optimalSelection = {}
        ELSE optimalSelection \in Contract!OptimalSelections

(* Once StopSolving has raised the flag it returns: the solving thread   *)
(* leaves its loop and is joined.                                         *)
StopSolvingReturns == caller = "stopping" ~> caller = "stopped"

(* The solver keeps the caller's contract: it gives up only after a      *)
(* stop was requested, and a completed run reports the promised result.  *)
ContractSpec == Contract!Spec

==============================================================================
