CONSTANTS
    Names = {"A", "B", "C", "D"}
    Configured <- SmallConfigured
    Blocklist = {"D"}
    Cap <- SmallCap
    Editors = {e1, e2}
    None = None
    NProviders = 2
    Budget <- OneEach
    VetoBinding = TRUE
    MinVolume = 2
    MaxSpread = 2
    ScoreNeeded = 3
    CostsAndProfit = 3
    CandleTop = 3
    Tickers <- SmallTickers
    Slots = 1
    MaxAuto = 1
    Buffer = 1
    MaxEvents = 2
    MaxDay = 2
SPECIFICATION FairSpec
INVARIANTS
    ListsWithinCaps
    LoneEditsAreExact
    CycleWithinBudget
PROPERTIES
    CycleEnds
