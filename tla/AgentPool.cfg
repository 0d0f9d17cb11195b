SPECIFICATION Spec
CONSTANTS
  u1 = u1
  u2 = u2
  u3 = u3
  x1 = x1
  x2 = x2
  NoContext = NoContext
  NoTurn = NoTurn
  Turns <- ThreeTurns
  Contexts <- TwoContexts
  MaxAgents = 1
  MaxDeaths = 0
  Loads = {TRUE}
  Stops = TRUE
SYMMETRY Symmetric
INVARIANTS
  ClaimsAreExact
  VictimsAreIdle
  PoolIsBounded
  OneTurnPerAgent
  RightConversation
CHECK_DEADLOCK FALSE
