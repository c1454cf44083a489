SPECIFICATION Spec
CONSTANTS
  Npbos = 2
  Nthreads = 2
  NumBlocks = 2
  Beats = 2
  Frames = 3
  MaxFrames = 3
  MaxBlocks = 4
  MaxRecordings = 1
  None = None
INVARIANT QueueIsEmptied
