SPECIFICATION FairOrchSpec
CONSTANTS
    m1 = m1
    m2 = m2
    m3 = m3
    Markets <- TwoMarkets
    MaxMarkets = 0
    CommandCap = 1
    SpreadCheck = FALSE
    StaleCheck = TRUE
    StackIds = {1, 2, 3}
    NoStack = NoStack
    MaxChanges = 1
PROPERTIES  ListedIsSubscribed
CHECK_DEADLOCK FALSE
