SPECIFICATION LedgerSpec
CONSTANTS
    s1 = s1
    s2 = s2
    c1 = c1
    c2 = c2
    Sessions <- TwoSessions
    Recorders <- OneRecorder
    Reporters = {}
    ProofOutcomes = {"faked"}
    Imports <- SomeImports
    Earlier <- AnEstimate
    MaxImports = 1
    MaxFailures = 1
SYMMETRY SessionSymmetry
INVARIANTS
    EntriesMatchThePast
    OwnRecordCounted
CHECK_DEADLOCK FALSE
