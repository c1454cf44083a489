SPECIFICATION FairSpec
CONSTANTS
  MemSize = 8
  NoMsg = NoMsg
  Id = {m1, m2, m3}
  Sizes = {3, 4}
  MaxTime = 1
INVARIANTS SentOrderKept RingNeverTruncates
PROPERTIES DueMessagesRun CacheDrainsWhileSending
