\* Two command checks, --max 3.5, an adapter that really waits, and an
\* allow list that matches neither of the two files the agent may touch.
SPECIFICATION FairSpec
CONSTANTS
    Files <- TwoFiles
    Allowed <- Nothing
    Disallowed <- Blocklist
    CommandChecks = {"tests", "types"}
    BlankChecks = {}
    ScopeChecks = {}
    MaxIterations <- ThreeAndAHalf
    AdapterYields = TRUE
INVARIANTS
    StopsAtFirstVerdict
    StopReasonJustified
    ProvedIsClean
    FilesOrdered
    AbortHonoured
PROPERTIES
    EveryRunEnds
    ImplementsBoundedLoop
CHECK_DEADLOCK FALSE
