\* Four events one after the other, two sessions that may both be open.
SPECIFICATION Spec
CONSTANTS
    h1 = h1
    h2 = h2
    Ids <- TwoSessions
    Hooks <- OneHook
    Files <- TwoFiles
    InScope <- Ui
    Sensitive <- Auth
    Unwritable = {}
    Refused <- Wipe
    Routed <- SomeRouted
    SecretContents <- AnySecret
    EventKinds <- AllEvents
    EvidenceChoices <- TestEvidence
    MaxEvents = 4
    EVIDENCE_STALL_THRESHOLD = 2
    LOOP_THRESHOLD = 2
    CONTEXT_BLOAT_THRESHOLD = 2
    SKIPPED_CALLS = 1
    SKIPPED_FILES = 1
INVARIANTS
    DestructiveSticks
PROPERTIES
    EndedIsFinal
CHECK_DEADLOCK FALSE
