CONSTANTS
    MaxTaskId = 2
    DedupeKeys = {"k"}
    ThreadIds = {}
    RetryStrategies <- LaterRetries
    MaxTime = 3
    MaxSkew = 0
    Delays = {0, 1}
    ExpiresIn = {0, 2}
    Keepalives = {1}
    Overwrites <- FullOverwrite
    Limits = {1, 2}
    DequeuingSettings <- NoSettings
    DeadLetterQueueConfigs <- RowsDlq
    maxVisitedTasksForDequeuing = 1
    GCBudgets = {1, 3}
    LateCallers = TRUE
SPECIFICATION Spec
INVARIANTS
    
    DedupeKeyHeldByLiveTask
    GaugesExact
    NothingBehindCursors
    NoSystemError
    
    CountedOnce
PROPERTIES
    PurgeLeavesNothing
CHECK_DEADLOCK FALSE
