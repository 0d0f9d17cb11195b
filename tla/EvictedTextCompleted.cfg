SPECIFICATION Spec
CONSTANTS
  o1 = o1
  o2 = o2
  o3 = o3
  p1 = p1
  EmptyPlan = EmptyPlan
  NoPlan = NoPlan
  MaxTextAttached = 2
  MaxTextTotal = 3
  MaxBinaryAttached = 2
  MaxBinaryTotal = 3
  MaxAnswers = 2
  Openings <- OneMessage
  Offers <- Offered
  Replies <- Said
  Entries <- Answers
  Plans <- Rendered
  MaxTexts = 1
  MaxThoughts = 0
  MaxPlans = 0
  MaxAsides = 0
  MaxAsks = 2
  MaxStreams = 2
  ReusesLeft = TRUE
INVARIANTS
  PartialIsNotPresented
CHECK_DEADLOCK FALSE
