SPECIFICATION LiveSpec
CONSTANTS
    s1 = s1
    s2 = s2
    m1 = m1
    Strategies <- TwoStrategies
    Markets <- OneMarket
    Keys <- TwoKeys
    MaxPositionSize <- PositionLimits
    MaxTotalExposure = 4
    MaxDailyTrades = 2
    SessionLossLimit <- LossLimit
    MaxDrawdownPct = 0
    MaxExposure = 4
    MaxStrategiesActive = 2
    StartingBalance = 10
    OnHalt = TRUE
    Sizes = {2}
    Prices = {1, 2}
    Dollar = 3
    MinContracts = 2
    PartialFillAction = "cancel"
    StartingCash = 6
    Exec = exec
    HaltClosers = {}
    Teardowns = {}
    Faults <- NoFaults
    NoEntry = NoEntry
    NoPosition = NoPosition
    NoOrder = NoOrder
    MaxOrders = 2
    CallbackBound = 1
    CloseSizes <- ContractSums
    PnLs <- Profits
    PnLRange <- AnyPnL
    PeakRange <- AnyPeak
    LastDay = 0
INVARIANT FillsReachTheLedger
CHECK_DEADLOCK FALSE
