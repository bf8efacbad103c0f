CONSTANTS
    o1 = o1
    o2 = o2
    Outpoints <- MCOutpoints
    OutdatedOps <- MCOutdatedOps
    MaxTime = 3
    MaxHeight = 1
    Skew = 0
    PingWindow = 1
    ExpireTime = 2
    Retention = 1
    SeenRetention = 1
    PoSeBanScore = 2
    ForgeryPenalty = 1
SPECIFICATION Spec
CONSTRAINT PoolBound
INVARIANT
    RelayOnce
