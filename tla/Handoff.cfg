CONSTANTS
  s1 = s1
  s2 = s2
  b1 = b1
  r1 = r1
  z1 = z1
  n1 = n1
  l1 = l1
  a1 = a1
  h1 = h1
  h2 = h2
  p1 = p1
  p2 = p2
  g1 = g1
  g2 = g2
  c1 = c1
  c2 = c2
  NoCount = NoCount
  None = None
  Observation <- MCObservation
  BatchSize = 2
  Tasks <- MCTasks
  Edits = 1
SPECIFICATION Spec
INVARIANTS
  ShownIsCurrent
  GapsAreExact
  AssemblyHolds
CHECK_DEADLOCK FALSE
