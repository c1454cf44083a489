SPECIFICATION Spec
CONSTANTS
  MaxSteps = 3
  MaxFiles = 1
  None = None
PROPERTIES EveryStepIsAChange EarlierFilesKept StopReturns
