CONSTANTS
    Markets = {btc, eth}
    Guard = Guard
    Cycle = Cycle
    Nobody = Nobody
    Start = 8
    Quotes = {3, 4}
    Drifts <- SmallDrifts
    MaxTrades = 4
SPECIFICATION Spec
INVARIANTS
    TypeOK
    PositionsFollowTrades
    FeesFollowTrades
SYMMETRY Symmetry
