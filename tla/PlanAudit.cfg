CONSTANTS
  r1 = r1
  r2 = r2
  r12 = r12
  s = s
  c1 = c1
  c2 = c2
  c3 = c3
  g1 = g1
  g2 = g2
  g3 = g3
  n1 = n1
  n2 = n2
  l1 = l1
  q1 = q1
  q2 = q2
  q3 = q3
  cd = cd
  cw = cw
  cv = cv
  ck = ck
  cx = cx
  d = d
  w = w
  k = k
  v = v
  x = x
  Origins <- MCOrigins
  Seeds = {s}
  Wrappers <- MCWrappers
  Within <- MCWithin
  Cores <- MCCores
  TypeOf <- MCType
  Circular = {}
  Uncertifiable = {}
  Contents <- MCContents
  InitialPlans <- MCInitialPlans
  RevisedGoals <- MCRevisedGoals
  LatePlans <- MCLatePlans
  BatchSize = 2
  MaxUncovered = 1
SPECIFICATION Spec
INVARIANTS
  NothingIsLost
  RejectedStaysOut
  ReadyGoalsAreTellable
PROPERTIES
  EveryStepComesCloser
CHECK_DEADLOCK FALSE
