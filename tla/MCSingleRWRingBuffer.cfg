SPECIFICATION Spec
CONSTANTS
  Size = 4
  Byte = {a, b}
  MaxReq = 4
INVARIANTS
  TypeOK
  StaleSpaceIsSafe
  NoOverlap
PROPERTIES
  ImplementsFifo
