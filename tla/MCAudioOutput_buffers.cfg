SPECIFICATION FairSpec
CONSTANTS
  NumBuffers = 2
  Chunk = 2
  FrameSizes = {1, 3}
  MaxFrames = 3
INVARIANTS BufferFree NothingLeft
PROPERTIES ImplementsStream CloseReturns SoundIsHeard
CHECK_DEADLOCK FALSE
