CONSTANTS
  BreachThreshold = 2
  MaxOrders = 1
SPECIFICATION Spec
PROPERTY PauseStopsTrading
CHECK_DEADLOCK FALSE
