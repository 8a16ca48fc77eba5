CONSTANTS
    G = G   T1 = T1   T2 = T2   T3 = T3
    NoHash = NoHash
    TxHashes = {T1, T2, T3}
    CertHashes = {}
    GenesisHashes = {G}
    ScIds = {}
    Entry <- MCEntry
    InitChain <- MCInitChain
    MaxSeq = 4
    MaxEpoch = 0
    MayInterrupt = TRUE
    MaxBlockLen = 1

SPECIFICATION Spec

INVARIANTS
    IndexesConsistent
    CheckNeverAsserts
    FullyNotifiedMeansHandled

PROPERTIES
    PoolContract
