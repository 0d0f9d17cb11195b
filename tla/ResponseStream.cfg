SPECIFICATION Spec
CONSTANTS
  o1 = o1
  o2 = o2
  o3 = o3
  p1 = p1
  EmptyPlan = EmptyPlan
  NoPlan = NoPlan
  MaxTextAttached = 2
  MaxTextTotal = 3
  MaxBinaryAttached = 2
  MaxBinaryTotal = 3
  MaxAnswers = 2
  Openings <- Messages
  Offers <- Offered
  Replies <- Said
  Entries <- Answers
  Plans <- Rendered
  MaxTexts = 3
  MaxThoughts = 1
  MaxPlans = 2
  MaxAsides = 1
  MaxAsks = 2
  MaxStreams = 2
  ReusesLeft = FALSE
INVARIANTS
  ShownIsCurrent
  CompletedIsWhole
  LeftoversAreEvicted
  ConsentIsExplicit
  BudgetIsKept
PROPERTIES
  KeepsArtifacts
CHECK_DEADLOCK FALSE
