SPECIFICATION FairSpec
CONSTANTS
  c1 = c1  x = x  y = y  p = p  q = q
  None = None
  Between = Between
  Client <- MCClient
  Param <- MCParam
  Preset <- MCPreset
  Stored <- MCStored
  MaxRounds = 2
  MaxIdleWakes = 2
INVARIANTS TargetsNotRaced MorphEndsOnTarget
PROPERTIES StopHolds RecallApplied DestructorReturns
CHECK_DEADLOCK FALSE
