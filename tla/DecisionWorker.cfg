SPECIFICATION Spec
CONSTANTS
    m1 = m1
    Markets = {m1}
    Attempts = 2
    LaneLimit = 2
    AllEntries = AllEntries
    Gates = {m1}
    Doomed <- FirstOrders
    Cash = 2
    Budget = 2
INVARIANTS BoughtOnce GateTakesHold
PROPERTY NoBuyBesideResting
CHECK_DEADLOCK FALSE
