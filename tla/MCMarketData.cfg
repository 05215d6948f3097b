SPECIFICATION FairDataSpec
CONSTANTS
    Senders = {"engine"}
    Topics = {"market"}
    Messages <- SomeMessages
    Capacity = 1
    RawCapacity = 1
    FeedCapacity = 1
    MaxSends = 3
INVARIANTS MarketDataTypeOK NewestSurvives RecordingIsComplete SnapshotsAreMerges
PROPERTIES NeverBackwards LagsByCapacityAtMost PriceReachesExecutor
CHECK_DEADLOCK FALSE
