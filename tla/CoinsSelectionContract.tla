------------------------ MODULE CoinsSelectionContract ------------------------
(***************************************************************************)
(* What a coins-selection solver of src/src/coinsselectionalgorithm.hpp   *)
(* promises its caller, without how it searches.  The caller constructs   *)
(* the solver over sorted amounts and sizes, may start the solving        *)
(* routine on a thread and may stop it, which joins the thread.  The      *)
(* routine ends either completed, with the promised selection, or         *)
(* stopped on request, with whatever admissible selection it had, or      *)
(* none.  Branch & Bound promises an optimal selection: most coins, then  *)
(* least amount; Sliding Window promises an admissible one or none.       *)
(*                                                                         *)
(* A selection is a set of indices into the sorted arrays.                *)
(***************************************************************************)
EXTENDS Integers, FiniteSets, SequencesExt

VARIABLES
    type,                    \* "SLIDING_WINDOW" or "BRANCH_AND_BOUND"
    amounts, sizes,          \* the sorted input arrays
    targetAmount, targetAmountPlusOffset, availableTotalSize,
    status,                  \* the caller: "constructed", "started", "stopping", "stopped"
    worker,                  \* the solving thread: "none", "busy", "done"
    completed,               \* hasCompleted as the caller may read it
    result                   \* the output variables once the thread is done

inputs == <<type, amounts, sizes, targetAmount, targetAmountPlusOffset, availableTotalSize>>
vars == <<inputs, status, worker, completed, result>>

------------------------------------------------------------------------------
(* Reference definitions, by enumeration of every subset. *)
Indices == 1..Len(amounts)

AmountOf(sel) == MapThenSumSet(LAMBDA i : amounts[i], sel)
SizeOf(sel) == MapThenSumSet(LAMBDA i : sizes[i], sel)

(* The output variables describing a selection. *)
Selection(sel) == [optimalSelection |-> sel, optimalTotalAmount |-> AmountOf(sel),
                   optimalTotalSize |-> SizeOf(sel), optimalTotalSelection |-> Cardinality(sel)]

NoSelection == Selection({})

Admissible(sel) ==
    /\ targetAmount <= AmountOf(sel)
    /\ AmountOf(sel) <= targetAmountPlusOffset
    /\ SizeOf(sel) <= availableTotalSize

AdmissibleSelections == {sel \in SUBSET Indices : Admissible(sel)}

(* Most coins, then least amount. *)
Better(s1, s2) ==
    \/ Cardinality(s1) > Cardinality(s2)
    \/ Cardinality(s1) = Cardinality(s2) /\ AmountOf(s1) < AmountOf(s2)

OptimalSelections ==
    {s \in AdmissibleSelections : \A t \in AdmissibleSelections : ~Better(t, s)}

(* The results a completed routine may report. *)
Promised ==
    IF AdmissibleSelections = {} THEN {NoSelection}
    ELSE IF type = "BRANCH_AND_BOUND" THEN {Selection(s) : s \in OptimalSelections}
    ELSE {Selection(s) : s \in AdmissibleSelections} \cup {NoSelection}

(* The results a stopped routine may report. *)
Tolerated == {Selection(s) : s \in AdmissibleSelections} \cup {NoSelection}

------------------------------------------------------------------------------
Init ==
    /\ status = "constructed"
    /\ worker = "none"
    /\ completed = FALSE
    /\ result = NoSelection

StartSolvingAsync ==
    /\ status = "constructed"
    /\ status' = "started"
    /\ worker' = "busy"
    /\ completed' = FALSE
    /\ result' = NoSelection
    /\ UNCHANGED inputs

StopSolving ==
    /\ status \in {"constructed", "started"}
    /\ status' = "stopping"
    /\ UNCHANGED <<inputs, worker, completed, result>>

Complete ==
    /\ worker = "busy"
    /\ worker' = "done"
    /\ completed' = TRUE
    /\ result' \in Promised
    /\ UNCHANGED <<inputs, status>>

(* The routine gives up only once a stop was requested. *)
Abort ==
    /\ worker = "busy"
    /\ status = "stopping"
    /\ worker' = "done"
    /\ completed' = FALSE
    /\ result' \in Tolerated
    /\ UNCHANGED <<inputs, status>>

Join ==
    /\ status = "stopping"
    /\ worker # "busy"
    /\ status' = "stopped"
    /\ UNCHANGED <<inputs, worker, completed, result>>

Next == StartSolvingAsync \/ StopSolving \/ Complete \/ Abort \/ Join

Spec == /\ Init /\ [][Next]_vars
        /\ WF_vars(Complete \/ Abort) /\ WF_vars(Join)

==============================================================================
