SPECIFICATION Spec
CONSTANTS
    Discoveries <- Repositories
    Commands <- TwoCommands
    c1 = c1
    c2 = c2
    Evidence = {e1}
    MaxTokens = 4
    Reserved <- SmallReserved
    MaxReceipts = 1
    MaxRuns = 3
SYMMETRY CommandSymmetry
CHECK_DEADLOCK FALSE
INVARIANTS
    SecretsKeptOut
    ClaimsHaveEvidence
    ForgottenHidden
