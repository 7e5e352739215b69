SPECIFICATION FairSpec
CONSTANTS
  FrameHead = 11
  ReadSize = 46
  Streams <- MCStreams
INVARIANTS
  TypeOK
  HandledWasSent
  FramesInOrder
PROPERTY
  LoopEnds
CHECK_DEADLOCK FALSE
