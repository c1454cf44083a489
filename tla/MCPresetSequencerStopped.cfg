SPECIFICATION Spec
CONSTANTS
  Client = {c1}
  Thread = {t1, t2}
  None = None
  Sequences <- MCSequences
  MaxSteps = 2
INVARIANTS
  FalseWhenStopped
CHECK_DEADLOCK FALSE
