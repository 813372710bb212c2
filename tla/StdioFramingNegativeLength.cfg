CONSTANTS
  MaxFrames = 2
  Streams <- BackwardStreams
SPECIFICATION FramingSpec
PROPERTIES
  LoopReturns
CHECK_DEADLOCK FALSE
