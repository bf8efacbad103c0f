CONSTANTS
    o1 = o1
    Outpoints <- MCOutpoints
    OutdatedOps <- MCOutdatedOps
    ConfOrder <- MCConfOrder
    MaxBatch = 2
    MaxTime = 2
    MaxHeight = 1
    Skew = 0
    PingWindow = 1
    ExpireTime = 1
    Retention = 1
    SeenRetention = 1
    PoSeBanScore = 2
    ForgeryPenalty = 1
SPECIFICATION RpcSpec
CONSTRAINTS PoolBound RelayBound
INVARIANT
    RelayOnlyAccepted
