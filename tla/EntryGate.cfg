CONSTANTS
  m1 = m1
  loop = loop
  oper = oper
  Markets <- MCOneMarket
  Rounds <- MCTwoRounds
  Loop = loop
SPECIFICATION LiveSpec
INVARIANT OpenGateEarned
PROPERTY StickyPauseHolds
PROPERTY GateReopens
