CONSTANTS
  c1 = c1
  c2 = c2
  k1 = k1
  k2 = k2
  m1 = m1
  NoTask = NoTask
  MaxCached = 1
  Calls <- MCTwoCalls
  Keys <- MCKeys
  Conditions <- MCConditions
  Requests <- MCRequests
SPECIFICATION Spec
CHECK_DEADLOCK FALSE
INVARIANT AnswerMatchesExchange
INVARIANT IndexTrue
PROPERTY ImplementsPromise
