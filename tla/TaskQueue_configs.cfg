\* Three tasks, one retry, and a configuration that changes under way.
SPECIFICATION Spec
CONSTANTS
    MaxTasks = 3
    MaxTime = 3
    Priorities = {0}
    MaxRetries = 1
    MostRunning = 2
    MostQueued = 2
    RetryChoices = {1}
    Timeouts = {1}
    Configs <- TwoConfigs
    DefaultConfig <- Wide
INVARIANTS
    OneList
    WorkBounded
    FirstStartsInOrder
PROPERTIES
    ImplementsTaskLifecycle
CHECK_DEADLOCK FALSE
