CONSTANTS
    MaxTaskId = 2
    DedupeKeys = {}
    ThreadIds = {"h"}
    RetryStrategies <- MixedRetries
    MaxTime = 3
    MaxSkew = 0
    Delays = {0}
    ExpiresIn = {2}
    Keepalives = {1}
    Overwrites <- NoOverwrite
    Limits = {2}
    DequeuingSettings <- NoSettings
    DeadLetterQueueConfigs <- RowsDlq
    maxVisitedTasksForDequeuing = 2
    GCBudgets = {3}
    LateCallers = FALSE
SPECIFICATION Spec
INVARIANTS
    CandidatesReachable
CHECK_DEADLOCK FALSE
