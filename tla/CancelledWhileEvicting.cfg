SPECIFICATION FairSpec
CONSTANTS
  t1 = t1
  t2 = t2
  q1 = q1
  q2 = q2
  NoRequest = NoRequest
  Tasks <- TwoTasks
  Requests <- NoRequests
  MaxLive = 1
  MaxCalls = 2
  MaxOutput = 0
  Overlapping <- NoTasks
  Backpressure = FALSE
  Cancels <- TwoTasks
PROPERTIES
  FinalStays
CHECK_DEADLOCK FALSE
