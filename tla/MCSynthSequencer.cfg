SPECIFICATION Spec
CONSTANTS
  Voice = {v1, v2, v3}
  Client = {c1}
  Null = Null
  FramesPerBuffer = 1
  Ticks = 3
  Rounding = 1
  StartTimes = {3}
  MaxEvents = 1
INVARIANT ListsConserved
PROPERTIES SweepLeavesAtMostOne EventsSoundWithinAFrame NotesComeAndGo
