SPECIFICATION Spec
CONSTANTS
  t1 = t1
  t2 = t2
  q1 = q1
  q2 = q2
  NoRequest = NoRequest
  Tasks <- TwoTasks
  Requests <- TwoRequests
  MaxLive = 1
  MaxCalls = 3
  MaxOutput = 1
  Overlapping <- NoTasks
  Backpressure = TRUE
  Cancels <- NoTasks
SYMMETRY Symmetric
INVARIANTS
  CapacityHeld
  LiveIsAttended
  EchoHonoured
  OneMessageOnePrompt
  InputIsAnswerable
  OneEnding
CHECK_DEADLOCK FALSE
