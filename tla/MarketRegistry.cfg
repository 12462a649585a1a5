SPECIFICATION FairSpec
CONSTANTS
    m1 = m1
    m2 = m2
    e1 = e1
    NoMarket = NoMarket
    Markets = {m1, m2}
    Events = {e1}
    EventOf <- OneEvent
    NamedLikeEvent = {m2}
    Slugless = {}
    Traded = {m1}
    Streamed = {m1}
    Threshold = 2
    YieldEvery = 1
PROPERTIES ExposedLeavesKnowingly ExposedRecovered
CHECK_DEADLOCK FALSE
