CONSTANTS
    Markets <- Three
    Live = FALSE
    MaxOpen = 2
    MaxCluster = 1
    Cap = 3
    MaxRestarts = 1
    Falling <- Second
    Cycle = Cycle
    Guard = Guard
    NoMarket = NoMarket
    Correlated <- Pairs
SPECIFICATION FairSpec
INVARIANTS
    TypeOK
    SlotsRespected
    ClusterRespected
PROPERTIES
    EveryExitTried
