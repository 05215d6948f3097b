SPECIFICATION FairFeedSpec
CONSTANTS
    m1 = m1
    m2 = m2
    Markets <- TwoMarkets
    CommandCap = 2
    WriteCap = 1
    MaxRetries = 1
    StaleEnd = TRUE
    Connections = 2
    MaxRequests = 3
INVARIANTS FeedTypeOK RoutesAreWanted RoutesAreSubscribed
PROPERTY SubscriptionsTakeEffect
CHECK_DEADLOCK FALSE
