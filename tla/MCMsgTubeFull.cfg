SPECIFICATION Spec
CONSTANTS
  MemSize = 8
  NoMsg = NoMsg
  Id = {m1, m2, m3}
  Sizes = {3, 7}
  MaxTime = 0
PROPERTY CachesOnlyWhenRingIsFull
