CONSTANTS
  a = a
  b = b
  s = s
  l = l
  d = d
  w1 = w1
  w2 = w2
  Workers <- WorkersSet
  Files = {a, b, s, l}
  SubDirs = {d}
  Parent <- MCParent
  Secret = {s}
  Links = {l}
  Ignored = {}
  BaseScope <- WholeTree
  Requests <- MCRequests
  MaxResults = 1
  MaxWalk = 2
  CallerCap = 1
  Ttl = 0
  Sizes = {1, 2}
  MaxBytes = 2
  MaxWrites = 1
  MaxClock = 1
  MaxCalls = 2
SYMMETRY WorkerSymmetry
SPECIFICATION Spec
INVARIANTS
  CompleteIsExact
  AnswersAreFresh
  BytesAreExact
CHECK_DEADLOCK FALSE
