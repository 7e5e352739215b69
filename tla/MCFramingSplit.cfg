SPECIFICATION Spec
CONSTANTS
  FrameHead = 11
  ReadSize = 46
  Streams <- MCTwoFrames
INVARIANT
  WaitsForLength
CHECK_DEADLOCK FALSE
