CONSTANTS
  None = None
  Buys = {"b1"}
  Sells = {"s1"}
  Strangers = {"x1"}
  Size = 2
  Limit = 2
  MaxTrades = 1
  MaxFeed = 3
SPECIFICATION Spec
INVARIANT FillsAreOurs
CHECK_DEADLOCK FALSE
