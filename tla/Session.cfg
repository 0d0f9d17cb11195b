SPECIFICATION FairSpec
CONSTANTS
  r1 = r1
  r2 = r2
  Requests <- MCRequests
  NoRequest = NoRequest
  MaxOutput = 2
  EarlyCancel = FALSE
INVARIANTS
  WaitersAreReachable
  OnlyShownIsDecided
  ClosedMeansOver
PROPERTIES
  CloseReturns
  DrainReturns
  KeepsPromise
CHECK_DEADLOCK FALSE
