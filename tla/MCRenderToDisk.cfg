SPECIFICATION Spec
CONSTANTS
  Npbos = 2
  Nthreads = 2
  NumBlocks = 2
  Beats = 2
  Frames = 3
  MaxFrames = 5
  MaxBlocks = 4
  MaxRecordings = 2
  None = None
INVARIANTS FramesAreInOrder AudioKeepsPace GoodReadIsWhole StaleFitsRing
