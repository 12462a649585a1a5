SPECIFICATION FairSpec
CONSTANTS
    m1 = m1
    m2 = m2
    other = other
    game = game
    soon = soon
    NoMatch = NoMatch
    Markets = {m1, m2}
    Feed <- FeedOrder
    Keys = {soon}
    KeyOf <- AllSoon
    Near <- NearSoon
    Fits <- TeamsNamed
    Accepted <- TeamsNamed
    TokenIsCode = TRUE
    Tasks = {1, 2}
    UnknownCap = 1
    MaxClock = 2
INVARIANTS MatchedStaysTracked NothingOfPruned
PROPERTY FollowsTheMatch
