SPECIFICATION Spec
CONSTANTS
  Player = {p1, p2, p3}
  Sizes = {0, 1, 2}
  None = None
INVARIANTS EndIsReported
PROPERTIES QuietAfterStop CallsReturn
CHECK_DEADLOCK FALSE
