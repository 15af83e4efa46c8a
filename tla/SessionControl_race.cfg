\* Two hook processes overlapping on one session, killed at any step.
SPECIFICATION Spec
CONSTANTS
    h1 = h1
    h2 = h2
    Ids <- OneSession
    Hooks <- TwoHooks
    Files <- Auth
    InScope = {}
    Sensitive <- Auth
    Unwritable = {}
    Refused <- Wipe
    Routed <- AllRouted
    SecretContents <- NoSecret
    EventKinds <- RaceEvents
    EvidenceChoices <- TestEvidence
    MaxEvents = 3
    EVIDENCE_STALL_THRESHOLD = 2
    LOOP_THRESHOLD = 2
    CONTEXT_BLOAT_THRESHOLD = 2
    SKIPPED_CALLS = 1
    SKIPPED_FILES = 1
SYMMETRY HookSymmetry
INVARIANTS
    DestructiveNeedsApproval
    EndsLeavePapers
CHECK_DEADLOCK FALSE
