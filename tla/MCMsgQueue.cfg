SPECIFICATION Spec
CONSTANTS
  NumCells = 4
  MaxTime = 1
  MaxDepth = 2
INVARIANTS CellsConserved TailIsLast
PROPERTIES UpdateDrainsDue ImplementsTimedQueue
