CONSTANTS
    Problems <- MCProblems
    Types <- MCTypes

SPECIFICATION Spec
CHECK_DEADLOCK FALSE

INVARIANTS
    TypeOK
    ResultAdmissible
    BranchAndBoundOptimal

PROPERTIES
    StopSolvingReturns
    ContractSpec
