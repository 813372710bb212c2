SPECIFICATION Spec
CONSTANTS
  Modes = {"free", "locate", "trace", "impact", "structured", "path", "anchored", "commit", "metadata", "claim"}
  Paths <- MCPaths
  Impl <- MCImpl
  Rank <- MCRank
  Spread = {"a"}
  Boundary = {"b"}
  Known = {"b"}
  MaxTurns <- MCMaxTurns
  MaxCalls = 2
  Concurrency = 2
  EndpointReads = 2
CHECK_DEADLOCK FALSE
INVARIANTS
  BatchKeepsThePolicy
  BudgetsHold
  BreakerIsTight
  StagnationIsAnswered
PROPERTIES
  ClosedStaysClosed
  Returns
