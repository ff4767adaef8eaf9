CONSTANTS
    MaxQueueId = 2
    QueueNames = {"n"}
    MaxScheduleId = 0
    ScheduleNames = {}
    Settings = {"running"}
    Crons = {}
    EnqueuedFor = {}
    MaxNumberOfQueues = 1
    MaxNumberOfSchedulesPerQueue = 0
    GcRecordsPageSize = 1
    GcRecordSchedulesPageSize = 1
    MaxVisitedSchedules = 1
    Readers = FALSE
    MaxVersion = 2
    MaxTime = 0
    Gateways = {g, h}
    Requests = {r, s}
    Ops = {"Enqueue", "Dequeue", "Purge", "Delete", "Report"}
    MaxPoolTask = 1
    MarkerOutlives = TRUE
    Crashes = TRUE
SPECIFICATION GatewaySpec
SYMMETRY Symmetry
INVARIANTS
    GatewayTypeOK
    

    
CHECK_DEADLOCK FALSE
