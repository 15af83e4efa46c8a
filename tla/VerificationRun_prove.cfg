SPECIFICATION Spec
CONSTANTS
  p1 = p1
  p2 = p2
  Provers = {p1, p2}
  Projects <- SomeProjects
  Commands <- SomeCommands
  ScanLimit = 2
  SurfaceLimit = 2
  MaxReceipts = 1
  MaxClock = 2
  MaxEdits = 1
  MaxStarts = 2
INVARIANTS SafeIsEarned NewestAreKept
CHECK_DEADLOCK FALSE
