SPECIFICATION OrchSpec
CONSTANTS
    m1 = m1
    m2 = m2
    m3 = m3
    Markets <- TwoMarkets
    MaxMarkets = 1
    CommandCap = 1
    SpreadCheck = TRUE
    StaleCheck = TRUE
    StackIds = {1, 2}
    NoStack = NoStack
    MaxChanges = 1
INVARIANTS OrchTypeOK CapHolds
PROPERTIES OnlyDropsOrphan OnlyCapOrDropStrands
SYMMETRY Interchangeable
CHECK_DEADLOCK FALSE
