CONSTANTS
    TestEco1 = 4
    MaxSP = 3
    MaxTx = 3
    MaxBlock = 1
    MaxParam = 2
    MaxTrades = 4
    MaxCount = 3
    Properties = {1, 2}
    MaxDenoms = 1
    MaxMints = 3
    Addresses = {"a1", "a2"}
    MaxListedSP = 2
    MaxHistory = 3
    MaxAmount = 2
    MainProps = {1, 2, 3}
    TestProps = {4}
    Missing = 9
    Blocks = {0, 1}
    Positions = {0, 1}
    Addrs = {1, 2, 3}
    MaxShare = 2
    MaxDist = 2
    DexSellers = {65, 66}
    DexProps = {1, 10}
    Hashes = {"h1", "h2", "h3"}
    TimeLimit = 10
    MaxAccepts = 2
    Forks = {1, 2}
    Genesis = 1
    MaxHeight = 1
SPECIFICATION Spec
INVARIANT
    CountHonoured
