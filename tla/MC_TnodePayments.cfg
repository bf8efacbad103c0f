CONSTANTS
    v1 = v1
    v2 = v2
    v3 = v3
    p1 = p1
    p2 = p2
    Voters <- MCVoters
    Payees <- MCPayees
    Equivocators = {v3}
    MaxHeight = 3
    Heights = {1}
    Retention = 1
    QuorumNum = 3
    QuorumDen = 5
SPECIFICATION PaymentsSpec
INVARIANT
    HookFollowsFirstLatch
