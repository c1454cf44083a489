SPECIFICATION FairSpec
CONSTANTS
  Client = {c1}
  Thread = {t1, t2}
  None = None
  Sequences <- MCSequences
  MaxSteps = 2
INVARIANTS
  TypeOK
  SingleEngine
  QuietAfterStop
PROPERTIES
  CallsReturn
CHECK_DEADLOCK FALSE
