CONSTANTS
    K1 = K1   K2 = K2   K3 = K3   K4 = K4   Z1 = Z1   Z2 = Z2   Z3 = Z3
    Z = Z   N1 = N1   R1 = R1   R2 = R2
    NoHash = NoHash
    TxHashes = {K1, K2, K3, K4, Z1, Z2, Z3}
    CertHashes = {}
    GenesisHashes = {}
    ScIds = {Z}
    Entry <- MCEntry
    InitChain <- MCInitChain
    MaxSeq = 4
    MaxEpoch = 0
    MayInterrupt = FALSE
    MaxBlockLen = 2

SPECIFICATION SpecCsw
CHECK_DEADLOCK FALSE

INVARIANTS
    TypeOK
    IndexesConsistent
    CheckNeverAsserts
    NullifierIndexConsistent
    PoolValidOnTip
    CswWithinBalance

PROPERTIES
    PoolContract
    DisconnectResurrectsBlock
