SPECIFICATION FairSimSpec
CONSTANTS
    s1 = s1
    m1 = m1
    Strategies <- OneStrategy
    Markets <- OneMarket
    Keys <- OneKey
    Kinds <- AnyKind
    MaxPositionSize <- PositionLimits
    MaxTotalExposure = 240
    MaxDailyTrades = 2
    SessionLossLimit <- LossLimit
    MaxDrawdownPct = 0
    MaxExposure = 240
    MaxStrategiesActive = 2
    StartingBalance = 1000
    OnHalt = FALSE
    Sizes = {120}
    FeeBPS = 250
    One = 100
    Mids = {40, 60}
    SmaPeriod = 2
    MinMid = 20
    MaxMid = 80
    StopLoss = 2
    Ticks = 2
    SignalCap = 1
    FeedbackCap = 1
    Run = run
    Closers = {closer}
    ClosePrices = {0}
    NoEntry = NoEntry
    NoPosition = NoPosition
    NoOrder = NoOrder
    CallbackBound = 1
    LastDay = 0
    CloseSizes <- CloseAmounts
    PnLs <- Profits
    PnLRange <- AnyPnL
    PeakRange <- AnyPeak
INVARIANTS SimTypeOK BalanceIsAccounted ExposureMatchesLedger FillsPair KnowsItsPosition OneEntryAtATime
PROPERTIES ImplementsRiskGate ClosesAreAnswered
CHECK_DEADLOCK FALSE
