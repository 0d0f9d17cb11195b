SPECIFICATION FairSpec
CONSTANTS
  u1 = u1
  u2 = u2
  u3 = u3
  x1 = x1
  x2 = x2
  NoContext = NoContext
  NoTurn = NoTurn
  Turns <- TwoTurns
  Contexts <- TwoContexts
  MaxAgents = 1
  MaxDeaths = 0
  Loads = {TRUE, FALSE}
  Stops = FALSE
PROPERTIES
  RetiredIsNotReused
CHECK_DEADLOCK FALSE
