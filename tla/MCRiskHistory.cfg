SPECIFICATION HistorySpec
CONSTANTS
    s1 = s1
    s2 = s2
    m1 = m1
    m2 = m2
    Strategies <- MCStrategies
    Markets <- MCMarkets
    MaxPositionSize <- MCMaxPositionSize
    MaxTotalExposure = 3
    MaxDailyTrades = 2
    SessionLossLimit <- MCSessionLossLimit
    MaxDrawdownPct = 20
    MaxExposure = 2
    MaxStrategiesActive = 1
    StartingBalance = 7
    OnHalt = TRUE
    Sizes = {1, 2}
    CloseSizes = {1, 2}
    PnLs <- MCPnLs
    NoEntry = NoEntry
    PnLRange <- MCPnLRange
    PeakRange <- MCPeakRange
    CallbackBound = 1
    LastDay = 1
INVARIANTS HistoryTypeOK LimitsHold AtMostOneOpenAfterHalt DayExceedsCapByOneAtMost
PROPERTY HaltsAreJustified
CHECK_DEADLOCK FALSE
