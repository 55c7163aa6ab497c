CONSTANTS
    Markets <- Two
    Live = TRUE
    MaxOpen = 2
    MaxCluster = 2
    Cap = 1
    MaxRestarts = 0
    Falling <- None
    Cycle = Cycle
    Guard = Guard
    NoMarket = NoMarket
    Correlated <- Pairs
SPECIFICATION Spec
INVARIANTS
    ExposureWithinCap
