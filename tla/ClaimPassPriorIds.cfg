CONSTANTS
  s1 = s1
  s2 = s2
  t1 = t1
  t2 = t2
  f1 = f1
  z1 = z1
  n1 = n1
  v1 = v1
  l1 = l1
  h1 = h1
  p1 = p1
  p2 = p2
  pt = pt
  g1 = g1
  g2 = g2
  g3 = g3
  c1 = c1
  c2 = c2
  NoCount = NoCount
  None = None
  Stray = Stray
  Observation <- MCObservation
  BatchSize = 2
  Tasks <- MCTasks
  Reasons = {"missing_category", "semantic_mismatch"}
  MaxClaims = 2
SPECIFICATION Spec
INVARIANT PriorIdsStayFree
CHECK_DEADLOCK FALSE
