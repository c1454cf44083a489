SPECIFICATION ReaderSpec
CONSTANTS
  Frames = 8
  BufferFrames = 5
  FrameBytes = 2
  mLoop = TRUE
  Positions = {0, 3}
  Requests = {1, 2}
  None = None
INVARIANT ChunkFitsFileBuffer
CHECK_DEADLOCK FALSE
