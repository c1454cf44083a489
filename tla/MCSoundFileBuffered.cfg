SPECIFICATION ReaderSpec
CONSTANTS
  Frames = 5
  BufferFrames = 4
  FrameBytes = 2
  mLoop = TRUE
  Positions = {0, 3}
  Requests = {1, 2}
  None = None
INVARIANT ChunkFits
PROPERTIES FramesFollow SeekIsCarriedOut PlaybackGoesOn
CHECK_DEADLOCK FALSE
