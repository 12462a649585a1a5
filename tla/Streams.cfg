CONSTANTS
  NoEvent = NoEvent
  NoToken = NoToken
  NoKey = NoKey
  Nothing = Nothing
  Contents <- FourContents
  MergeKeys = {"market"}
  KeyOf <- KeyOfContent
  Garbage = {"bulk"}
  Unroutable = {"balance"}
  MaxSize = 1
  BatchSize = 2
  MaxRetries = 1
  PollPatience = 2
  DrainPatience = 1
  MaxPuts = 4
  Feed = ws
  Worker = worker
  Accounts = {acc}
  Operators = {op}
  Timers = {}
  Tokens = {t1, t2}
  TradingCapacity = 2
  MaintenanceCapacity = 1
  RetainedCapacity = 2
  MaxSent = 2
SPECIFICATION SpecOfParts
CHECK_DEADLOCK FALSE
INVARIANTS LaneAgrees AwaitedNotLost CriticalKept
PROPERTY BookSettles
