CONSTANTS
    MaxTaskId = 2
    DedupeKeys = {}
    ThreadIds = {}
    RetryStrategies <- OneLaterRetry
    MaxTime = 3
    MaxSkew = 0
    Delays = {0}
    ExpiresIn = {2}
    Keepalives = {1}
    Overwrites <- NoOverwrite
    Limits = {2}
    DequeuingSettings <- NoSettings
    DeadLetterQueueConfigs <- RowsDlq
    maxVisitedTasksForDequeuing = 2
    GCBudgets = {1}
    LateCallers = FALSE
SPECIFICATION FairSpec
PROPERTIES
    PurgeCompletes
    ExpiredTasksLeave
CHECK_DEADLOCK FALSE
