SPECIFICATION Spec
CONSTANTS
  a1 = a1
  a2 = a2
  c1 = c1
  c2 = c2
  Calls <- TwoCalls
  MaxToolCalls = 1
  Commands <- TwoCommands
  MaxTerminals = 1
  MaxTurns = 2
  MaxUpdates = 3
SYMMETRY Symmetric
INVARIANTS
  ToolsAreIntroduced
  NothingSaidIsLost
  NewsGoesThrough
  OnlyStragglersOutlive
  OvershootIsBounded
CHECK_DEADLOCK FALSE
