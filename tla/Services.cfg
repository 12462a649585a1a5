CONSTANTS
  Absent = Absent
  Listed <- ThreeListed
  GameOf <- TwoMatches
  Quotes = {11, 12}
  MaxVersion = 3
  MaxClock = 2
  Shapes <- SevenShapes
  MaxBatch = 2
  MaxRetries = 1
  MaxEvents = 2
  Empty = Empty
SPECIFICATION SpecOfParts
CHECK_DEADLOCK FALSE
INVARIANTS LineIsCurrent AckedIsWritten
PROPERTIES NoMoneyFromNothing AccountFollows BackpressureLifts
