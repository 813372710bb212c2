CONSTANTS
  p1 = p1
  l1 = l1
  l2 = l2
  PlanGoals <- OnePlanned
  LateInitial <- OneLate
  LatePost <- OneLatePost
  Refutable <- OneLate
  Rank <- MCRank
  RepairBatch = 1
  EditIntent = TRUE
SPECIFICATION Spec
INVARIANTS
  LedgerLinked
  NoGoalLeftExploring
  SupportIsBacked
PROPERTIES
  AttemptsAreRemembered
  AbortWins
  GapsCloseOnFreshEvidence
  ImplementsContract
  Termination
CHECK_DEADLOCK FALSE
