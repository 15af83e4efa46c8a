SPECIFICATION ArtifactSpec
CONSTANTS
  p1 = p1
  p2 = p2
  noTask = noTask
  Procs <- MCProcs
  Tasks <- MCThree
  NoneGiven = noTask
  Sessions <- MCSessions
  Bases <- MCFeature
  Facts <- MCFacts
  Present <- MCPresent
  TreePlaces <- MCFew
  GitMayFail = TRUE
  MaxCommands = 2
  MaxEdits = 1
SYMMETRY Symmetry
INVARIANTS PathChecksAgree BlockedTaskStops SafeHandoffIsClean
CHECK_DEADLOCK FALSE
