CONSTANTS
    Markets <- Two
    Live = TRUE
    MaxOpen = 1
    MaxCluster = 2
    Cap = 2
    MaxRestarts = 0
    Falling <- None
    Cycle = Cycle
    Guard = Guard
    NoMarket = NoMarket
    Correlated <- Pairs
SPECIFICATION FairSpec
PROPERTIES
    UnknownIsHandled
INVARIANTS
    AtMostOneLateBuy
