CONSTANTS
    G = G   T5 = T5   T6 = T6   C1 = C1   C2 = C2   C3 = C3   C4 = C4   A = A
    NoHash = NoHash
    TxHashes = {T5, T6}
    CertHashes = {C1, C2, C3, C4}
    GenesisHashes = {G}
    ScIds = {A}
    Entry <- MCEntry
    InitChain <- MCInitChain
    MaxSeq = 4
    MaxEpoch = 1
    MayInterrupt = FALSE
    MaxBlockLen = 2

SPECIFICATION SpecCerts
CHECK_DEADLOCK FALSE

INVARIANTS
    IndexesConsistent
    CheckNeverAsserts
    PoolValidOnTip
    NoSupersededCert
    CertQualityOrder
    TraversalsAreClosures

PROPERTIES
    PoolContract
    DisconnectResurrectsBlock
