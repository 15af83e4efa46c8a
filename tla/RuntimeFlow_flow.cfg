SPECIFICATION Spec
CONSTANTS
    Tasks <- AllTasks
    Machines <- SomeMachines
INVARIANTS
    FallbackKeepsPrivacy
    UnapprovedRiskNeverExecutes
    ReviewFailsClosed
    RecordsValidate
