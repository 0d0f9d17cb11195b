SPECIFICATION Spec
CONSTANTS
  t1 = t1
  t2 = t2
  q1 = q1
  q2 = q2
  NoRequest = NoRequest
  Tasks <- TwoTasks
  Requests <- OneRequest
  MaxLive = 1
  MaxCalls = 3
  MaxOutput = 0
  Overlapping <- OtherTask
  Backpressure = FALSE
  Cancels <- OneTask
INVARIANTS
  OneConsumer
  CompletedWasNotEvicted
  CancelledIsTold
  RunsAreHeld
CHECK_DEADLOCK FALSE
