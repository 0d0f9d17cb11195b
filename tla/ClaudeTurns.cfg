SPECIFICATION Spec
CONSTANTS
  u1 = u1
  u2 = u2
  u3 = u3
  x1 = x1
  x2 = x2
  x3 = x3
  NoTurn = NoTurn
  Turns <- ThreeTurns
  Contexts <- ThreeContexts
  MaxContexts = 2
  MaxPlans = 1
  MaxSteps = 2
  MaxPending = 2
  MaxCalls = 3
SYMMETRY Symmetric
INVARIANTS
  RecentAreKept
  ListIsOwn
  ShownIsAgents
CHECK_DEADLOCK FALSE
