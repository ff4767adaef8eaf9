CONSTANTS
    MaxTaskId = 2
    DedupeKeys = {}
    ThreadIds = {"h"}
    RetryStrategies <- LaterRetry
    MaxTime = 3
    MaxSkew = 0
    Delays = {0}
    ExpiresIn = {0, 2}
    Keepalives = {1}
    Overwrites <- NoOverwrite
    Limits = {2}
    DequeuingSettings <- OneAtATime
    DeadLetterQueueConfigs <- OneDead
    maxVisitedTasksForDequeuing = 2
    GCBudgets = {2}
    LateCallers = FALSE
    MaxGrants = 4
SPECIFICATION LeaseSpec
INVARIANTS
    TypeOK
    InProgressBounded
    DeadBounded
    RetryBudget
PROPERTIES
    
    StaleReportsIgnored
    ImplementsPool
CHECK_DEADLOCK FALSE
