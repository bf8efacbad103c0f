CONSTANTS
    Sellers = {65, 66}
    DexProps = {1, 10}
    Hashes = {"h1", "h2", "h3"}
    TimeLimit = 10
    MaxAccepts = 1
SPECIFICATION Spec
INVARIANT
    DexSellsListed
