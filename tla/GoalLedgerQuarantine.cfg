CONSTANTS
  p1 = p1
  l1 = l1
  l2 = l2
  PlanGoals <- OnePlanned
  LateInitial <- OneLate
  LatePost <- OneLatePost
  Refutable <- OnePlanned
  Rank <- MCRank
  RepairBatch = 1
  EditIntent = FALSE
SPECIFICATION Spec
INVARIANTS
  QuarantineLeavesAGap
CHECK_DEADLOCK FALSE
