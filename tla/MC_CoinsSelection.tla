-------------------------- MODULE MC_CoinsSelection --------------------------
(* Every constructor input of up to three coins with amounts 1..3 and     *)
(* sizes 1..2, against targets, offsets and size limits that make exact   *)
(* targets, ties on the selection count and size cuts occur, plus the     *)
(* five-coin example on which Sliding Window and Branch & Bound differ,   *)
(* and a four-coin one whose least-amount optimum {1, 4} lies in a        *)
(* subtree entered after an equal-count optimum {2, 3} was found.         *)
EXTENDS CoinsSelection

MCCoins == UNION {[1..k -> (1..3) \X (1..2)] : k \in 0..3}

MCProblems ==
    {[amountsAndSizes |-> c, targetAmount |-> t, targetAmountPlusOffset |-> t + o,
      availableTotalSize |-> z] : c \in MCCoins, t \in {3, 4}, o \in {0, 1}, z \in {2, 3}}
    \cup {[amountsAndSizes |-> <<<<10, 1>>, <<9, 1>>, <<6, 1>>, <<5, 1>>, <<5, 1>>>>,
           targetAmount |-> 15, targetAmountPlusOffset |-> 20, availableTotalSize |-> 5],
          [amountsAndSizes |-> <<<<3, 1>>, <<3, 2>>, <<2, 1>>, <<1, 2>>>>,
           targetAmount |-> 4, targetAmountPlusOffset |-> 5, availableTotalSize |-> 3]}

MCTypes == {"SLIDING_WINDOW", "BRANCH_AND_BOUND"}
==============================================================================
