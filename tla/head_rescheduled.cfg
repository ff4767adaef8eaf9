CONSTANTS
    MaxTaskId = 2
    DedupeKeys = {"k"}
    ThreadIds = {"h"}
    RetryStrategies <- MixedRetries
    MaxTime = 3
    MaxSkew = 0
    Delays = {0, 1}
    ExpiresIn = {9}
    Keepalives = {1}
    Overwrites <- FullOverwrite
    Limits = {2}
    DequeuingSettings <- NoSettings
    DeadLetterQueueConfigs <- RowsDlq
    maxVisitedTasksForDequeuing = 2
    GCBudgets = {3}
    LateCallers = FALSE
SPECIFICATION Spec
INVARIANTS
    SingleFlight
CHECK_DEADLOCK FALSE
