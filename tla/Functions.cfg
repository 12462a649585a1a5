CONSTANTS
  None = None
  Streams = {c1}
  Sockets = {w1, w2}
  Topics = {"portfolio", "candidates"}
  TopicOf <- FourEvents
  Capacity = 2
  SoftCap = 1
  Markets = {m1}
  Reasons = {outside_window, not_sports}
  NoReason = None
  Budget = 5000
  Allowance = 480
  Purses = {600, 6000}
  MinShares = 7
  FeeRate = 30
  MaxOrders = 2
  Offers <- FiveOffers
  MarketLines <- FourLines
  Forecasts <- ThreeForecasts
  Nothing = None
  NewOrders = {n1, n2}
SPECIFICATION SpecOfParts
SYMMETRY Interchangeable
CHECK_DEADLOCK FALSE
INVARIANTS TypesHold ExitsFit LogFollowsRegistry SizedIsAccepted SaidAsPlayed OwnGameMatched
INVARIANTS AnswerIsTrue MadeIsFinal ReadingsAgree FunnelAddsUp
PROPERTY PushedInOrder
