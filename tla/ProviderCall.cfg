CONSTANTS
  Providers = 3
  MaxRetries = 2
  Failover = TRUE
SPECIFICATION Spec
INVARIANTS
  NoGhostRequest
  RetryBudget
PROPERTIES
  AbortEndsTheCall
  Settles
CHECK_DEADLOCK FALSE
