SPECIFICATION LifeSpec
CONSTANTS
  u1 = u1
  u2 = u2
  x1 = x1
  x2 = x2
  NoContext = NoContext
  NoTurn = NoTurn
  Turns <- TwoTurns
  Contexts <- TwoContexts
  MaxAgents = 1
  MaxDeaths = 1
  Loads = {FALSE}
  Stops = TRUE
  HasDatabase = TRUE
INVARIANTS
  NoProcessIsForgotten
  ReleasedInTheEnd
PROPERTIES
  TurnsEnd
CHECK_DEADLOCK FALSE
