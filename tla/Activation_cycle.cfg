SPECIFICATION Spec
CONSTANTS
    e1 = e1
    e2 = e2
    intro = intro
    rules = rules
    RepoFiles <- NodeRepo
    Hosts <- TwoHosts
    Events <- TwoEvents
    Foreign <- OneHook
    Pieces <- TwoPieces
    Objectives <- OneObjective
    MaxEdits = 2
    MaxRuns = 3
INVARIANTS
    UninstallLeavesNone
    ForeignHooksKept
    UserTextIntact
    IdentityKept
SYMMETRY Symmetric
CHECK_DEADLOCK FALSE
