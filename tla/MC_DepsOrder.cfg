CONSTANTS
    G = G   T1 = T1   T2 = T2   T3 = T3   T4 = T4   T5 = T5   S = S
    NoHash = NoHash
    TxHashes = {T1, T2, T3, T4, T5}
    CertHashes = {}
    GenesisHashes = {G}
    ScIds = {S}
    Entry <- MCEntry
    InitChain <- MCInitChain
    MaxSeq = 6
    MaxEpoch = 0
    MayInterrupt = FALSE
    MaxBlockLen = 2

SPECIFICATION SpecDeps
CHECK_DEADLOCK FALSE

PROPERTIES
    RemovedDescendantsFirst
