CONSTANTS
    MakerPct = 1
    TakerPct = 1
    SlippagePct = 2
    EntryIsMaker = FALSE
    StopMult = 2
    Reward = 2
    MinProfitPct = 2
    MaxWinRatePct = 70
    MinScore = 3
    Bucket = 1000
    PositionPct = 25
    MaxPositions = 1
    Cooldown = 2
    LossCapPct = 4
    MinOrder = 10
    Never = Never
    Settings <- SmallSettings
    Market = "this"
    OtherMarkets = {}
    Candidates <- SmallCandidates
    Prices <- SmallPrices
    FreeCash <- SmallCash
    DailyPnl <- SmallPnl
    Portfolio = 2050
    Configs <- SmallConfigs
    Window = 1
    None = None
    MaxTime = 2
    MaxRows = 5
    MaxStarts = 1
SPECIFICATION Spec
CHECK_DEADLOCK FALSE
INVARIANTS
    EntryEventsMeasureTheirOwnPurchase
    OneEventPerPurchase
    ExitEventsMeasureTheirPosition
    CohortsAreHomogeneous
    ShadowNeverCosts
