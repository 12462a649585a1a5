SPECIFICATION Spec
CONSTANTS
    b1 = b1
    s1 = s1
    s2 = s2
    BuyOrders = {b1}
    SellOrders = {s1, s2}
    ManualOrders = {s2}
    Agendas <- BuyOrExits
    Holding = 0
    Cash = 1
    FrameLimit = 2
INVARIANT SettledAgrees
PROPERTY ConvergesToExchange
