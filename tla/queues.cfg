CONSTANTS
    MaxQueueId = 2
    QueueNames = {"n"}
    MaxScheduleId = 2
    ScheduleNames = {"a", "b"}
    Settings = {"x", "y"}
    Crons = {1}
    EnqueuedFor = {0}
    MaxNumberOfQueues = 1
    MaxNumberOfSchedulesPerQueue = 2
    GcRecordsPageSize = 2
    GcRecordSchedulesPageSize = 2
    MaxVisitedSchedules = 1
    Readers = TRUE
    MaxVersion = 2
    MaxTime = 1
SPECIFICATION Spec
INVARIANTS
    QueuesTypeOK
    QueueIndexesMatchRows
    CountsExact
    NoLostSchedules
    RestoreIsExact
PROPERTIES
    SwapKeepsSchedules
    NoLostUpdate
CHECK_DEADLOCK FALSE
