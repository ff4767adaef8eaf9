CONSTANTS
    MaxQueueId = 2
    QueueNames = {"n"}
    MaxScheduleId = 1
    ScheduleNames = {"a"}
    Settings = {"x"}
    Crons = {1}
    EnqueuedFor = {}
    MaxNumberOfQueues = 1
    MaxNumberOfSchedulesPerQueue = 2
    GcRecordsPageSize = 2
    GcRecordSchedulesPageSize = 2
    MaxVisitedSchedules = 2
    Readers = FALSE
    MaxVersion = 2
    MaxTime = 1
    Workers = {"v","w"}
    Lookahead = 1
    Period = 1
    maxDequeueSchedules = 1
    maxNumberOfEnqueueRequestEntries = 9
    Updates = TRUE
    MaxCrashes = 1
SPECIFICATION CronSpec
INVARIANTS
    CronTypeOK
    TickEnqueuedOnce
PROPERTIES
    NoTickMissed
CHECK_DEADLOCK FALSE
