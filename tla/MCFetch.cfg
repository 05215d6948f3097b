SPECIFICATION FetchSpec
CONSTANTS
    crypto = crypto
    politics = politics
    e1 = e1
    e2 = e2
    e3 = e3
    m1 = m1
    m2 = m2
    m3 = m3
    m4 = m4
    Tags <- TwoTags
    Events <- ThreeEvents
    Markets <- FourMarkets
    MarketsOf <- TheirMarkets
    Series <- Windows
    Length = 3
    Margin = 1
    PageSize = 2
    Start = 6
    End = 9
    MaxChanges = 1
INVARIANTS QuietFetchIsExact OpenWindowsAreFound ErrorsHaveCauses
SYMMETRY Alike
CHECK_DEADLOCK FALSE
