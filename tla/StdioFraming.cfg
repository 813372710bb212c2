CONSTANTS
  MaxFrames = 3
  Streams <- AllStreams
SPECIFICATION FramingSpec
INVARIANTS
  DeliversAllInOrder
  AnswersInClientFormat
PROPERTIES
  OnlyOverreachWedges
CHECK_DEADLOCK FALSE
