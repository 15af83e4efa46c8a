\* Two loop processes in one directory with one detected check, and a reader.
SPECIFICATION Spec
CONSTANTS
    Loops <- MCLoops
    Requests <- MCRequests
    Project <- MCProject
    IterationCap = 3
    MaxTime = 1
INVARIANTS
    RiskIsBounded
    VerdictFollowsWork
    ActiveTellsTruth
    LatestIsYoungest
CHECK_DEADLOCK FALSE
