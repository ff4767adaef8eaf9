CONSTANTS
    MaxTaskId = 3
    DedupeKeys = {}
    ThreadIds = {"h"}
    RetryStrategies <- OneLaterRetry
    MaxTime = 3
    MaxSkew = 0
    Delays = {0, 1}
    ExpiresIn = {9}
    Keepalives = {1}
    Overwrites <- NoOverwrite
    Limits = {2}
    DequeuingSettings <- NoSettings
    DeadLetterQueueConfigs <- RowsDlq
    maxVisitedTasksForDequeuing = 2
    GCBudgets = {3}
    LateCallers = FALSE
SPECIFICATION SnapshotSpec
INVARIANTS
    RestoreSucceeds
CHECK_DEADLOCK FALSE
