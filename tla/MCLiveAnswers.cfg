SPECIFICATION FairLiveSpec
CONSTANTS
    s1 = s1
    s2 = s2
    m1 = m1
    Strategies <- OneStrategy
    Markets <- OneMarket
    Keys <- OneKey
    MaxPositionSize <- PositionLimits
    MaxTotalExposure = 4
    MaxDailyTrades = 2
    SessionLossLimit <- LossLimit
    MaxDrawdownPct = 0
    MaxExposure = 4
    MaxStrategiesActive = 2
    StartingBalance = 10
    OnHalt = TRUE
    Sizes = {2}
    Prices = {1, 2}
    Dollar = 3
    MinContracts = 2
    PartialFillAction = "keep"
    StartingCash = 6
    Exec = exec
    HaltClosers = {halt}
    Teardowns = {}
    Faults = {"lostReply", "cancelFails", "partialFill", "resolve"}
    NoEntry = NoEntry
    NoPosition = NoPosition
    NoOrder = NoOrder
    MaxOrders = 2
    CallbackBound = 1
    CloseSizes <- ContractSums
    PnLs <- Profits
    PnLRange <- AnyPnL
    PeakRange <- AnyPeak
    LastDay = 1
PROPERTY SignalsAreAnswered
CHECK_DEADLOCK FALSE
