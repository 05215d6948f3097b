SPECIFICATION BacktestSpec
CONSTANTS
    s1 = s1
    s2 = s2
    m1 = m1
    m2 = m2
    Strategies <- TwoStrategies
    Markets <- TwoMarkets
    StartingBalance = 60
    One = 4
    Prices = {1, 2, 3}
    FeePercent = 10
    MinOrder = 4
    MaxOrder = 40
    FixedPercent = 20
    KellyPercent = 50
    MinSample = 2
    Unit = 4
    MaxFills = 5
INVARIANTS BetsFollowTheEdge SummaryAddsUp DrawdownIsLargestFall
SYMMETRY Alike
CHECK_DEADLOCK FALSE
