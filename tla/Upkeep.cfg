CONSTANTS
  None = None
  Permanent = Permanent
  Tiers <- FourTiers
  Titles <- FiveTitles
  FallbackDays = 1
  BatchSize = 1
  MaxBatches = 2
  MaxRows = 2
  LastDay = 4
  Held <- ThreeHeld
  MaxPerRun = 2
  MaxMoves = 2
  MaxRestarts = 1
SPECIFICATION SpecOfParts
CHECK_DEADLOCK FALSE
INVARIANT MarksAreTrue
PROPERTIES EveryPageRead ClosedIsSettled KeptForItsTime
