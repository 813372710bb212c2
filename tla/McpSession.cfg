CONSTANTS
  c1 = c1
  c2 = c2
  i1 = i1
  i2 = i2
  NoId = NoId
  NoCall = NoCall
  Calls <- TwoCalls
  Ids <- TwoIds
  MaxProgress = 1
SPECIFICATION Spec
INVARIANTS
  TableIsExact
  CancelHitsItsCall
  ProgressPrecedesAnswer
PROPERTIES
  EveryCallIsAnswered
  ShutdownCompletes
CHECK_DEADLOCK FALSE
