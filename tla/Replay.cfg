CONSTANTS
    MakerPct = 1
    TakerPct = 1
    SlippagePct = 4
    EntryIsMaker = FALSE
    StopMult = 2
    Reward = 2
    MinProfitPct = 2
    MaxWinRatePct = 50
    MinScore = 3
    Bucket = 1000
    PositionPct = 25
    MaxPositions = 2
    Cooldown = 2
    LossCapPct = 4
    MinOrder = 100
    Never = Never
    Markets <- Two
    Candles <- SmallCandles
    StartEur = 2050
    TimeStop = 2
    MinNetPct = 0
    BeTrigger = 1
    BeMarginPct = 1
    RegimeBinding = TRUE
    Correlated <- Both
    MaxCluster = 2
    BarsPerDay = 3
    MaxBars = 5
SPECIFICATION Spec
CHECK_DEADLOCK FALSE
INVARIANTS
    TypeOK
    BooksBalance
    WinsAreTargets
    SurvivorsAreInside
    SameRiskGate
PROPERTIES
    SlotsFollowCapital
