SPECIFICATION RestartSpec
CONSTANTS
    s1 = s1
    s2 = s2
    m1 = m1
    Strategies <- OneStrategy
    Markets <- OneMarket
    Keys <- OneKey
    MaxPositionSize <- PositionLimits
    MaxTotalExposure = 4
    MaxDailyTrades = 2
    SessionLossLimit <- LossLimit
    MaxDrawdownPct = 0
    MaxExposure = 4
    MaxStrategiesActive = 2
    StartingBalance = 10
    OnHalt = TRUE
    Sizes = {2}
    Prices = {1}
    Dollar = 3
    MinContracts = 2
    PartialFillAction = "cancel"
    StartingCash = 6
    Exec = exec
    HaltClosers = {}
    Teardowns = {teardown}
    Faults = {"exchangeCancels", "partialFill"}
    NoEntry = NoEntry
    NoPosition = NoPosition
    NoOrder = NoOrder
    MaxOrders = 2
    CallbackBound = 1
    CloseSizes <- ContractSums
    PnLs <- Profits
    PnLRange <- AnyPnL
    PeakRange <- AnyPeak
    LastDay = 0
    MaxRestarts = 2
INVARIANT LiveOrdersHaveOwners
CHECK_DEADLOCK FALSE
