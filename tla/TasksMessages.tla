--------------------------- MODULE TasksMessages ----------------------------
(*************************************************************************)
(* The messages of the tasks core (tasks.proto) and what their           *)
(* generated code does, as one table per function:                       *)
(*                                                                       *)
(* X_Fields       the fields of the struct and their Go types            *)
(* X_MarshalVT    <<tag, kind, field>>, in the order in which the code   *)
(*                writes, from the end of the buffer to its beginning    *)
(* X_SizeVT       <<bytes of the tag, kind, field>>                      *)
(* X_UnmarshalVT  <<number, wire types, kind, field, nested message>>    *)
(*************************************************************************)
EXTENDS MessageTypes

Task_Fields ==
  [Id |-> One("TaskId"), Payload |-> Bytes, CreatedAt |-> Int64,
    ScheduledAt |-> Int64, ExpiresAt |-> Int64, DedupeKey |-> String,
    State |-> Enum, Attempts |-> Int32, VisibleAt |-> Int64,
    LastFailedAt |-> Int64, DebugInfo |-> Bytes,
    RetryStrategy |-> One("RetryStrategy"), ThreadId |-> String]
Task_MarshalVT ==
  << <<\h6a, "bytes", "ThreadId">>, <<\h62, "message", "RetryStrategy">>,
    <<\h5a, "bytes", "DebugInfo">>, <<\h51, "fixed64", "LastFailedAt">>,
    <<\h49, "fixed64", "VisibleAt">>, <<\h40, "varint", "Attempts">>,
    <<\h38, "varint", "State">>, <<\h32, "bytes", "DedupeKey">>,
    <<\h29, "fixed64", "ExpiresAt">>, <<\h21, "fixed64", "ScheduledAt">>,
    <<\h19, "fixed64", "CreatedAt">>, <<\h12, "bytes", "Payload">>,
    <<\h0a, "message", "Id">> >>
Task_SizeVT ==
  << <<1, "message", "Id">>, <<1, "bytes", "Payload">>,
    <<1, "fixed64", "CreatedAt">>, <<1, "fixed64", "ScheduledAt">>,
    <<1, "fixed64", "ExpiresAt">>, <<1, "bytes", "DedupeKey">>,
    <<1, "varint", "State">>, <<1, "varint", "Attempts">>,
    <<1, "fixed64", "VisibleAt">>, <<1, "fixed64", "LastFailedAt">>,
    <<1, "bytes", "DebugInfo">>, <<1, "message", "RetryStrategy">>,
    <<1, "bytes", "ThreadId">> >>
Task_UnmarshalVT ==
  << <<1, {2}, "message", "Id", "TaskId">>, <<2, {2}, "bytes", "Payload">>,
    <<3, {1}, "fixed64", "CreatedAt">>, <<4, {1}, "fixed64", "ScheduledAt">>,
    <<5, {1}, "fixed64", "ExpiresAt">>, <<6, {2}, "bytes", "DedupeKey">>,
    <<7, {0}, "varint", "State">>, <<8, {0}, "varint", "Attempts">>,
    <<9, {1}, "fixed64", "VisibleAt">>,
    <<10, {1}, "fixed64", "LastFailedAt">>, <<11, {2}, "bytes", "DebugInfo">>,
    <<12, {2}, "message", "RetryStrategy", "RetryStrategy">>,
    <<13, {2}, "bytes", "ThreadId">> >>

TaskId_Fields == [AccountId |-> Uint64, QueueId |-> Uint64, TaskId |-> Uint64]
TaskId_MarshalVT ==
  << <<\h19, "fixed64", "TaskId">>, <<\h11, "fixed64", "QueueId">>,
    <<\h09, "fixed64", "AccountId">> >>
TaskId_SizeVT ==
  << <<1, "fixed64", "AccountId">>, <<1, "fixed64", "QueueId">>,
    <<1, "fixed64", "TaskId">> >>
TaskId_UnmarshalVT ==
  << <<1, {1}, "fixed64", "AccountId">>, <<2, {1}, "fixed64", "QueueId">>,
    <<3, {1}, "fixed64", "TaskId">> >>

ExpirationIndexRecord_Fields ==
  [TaskId |-> One("TaskId"), ExpiresAt |-> Int64]
ExpirationIndexRecord_MarshalVT ==
  << <<\h11, "fixed64", "ExpiresAt">>, <<\h0a, "message", "TaskId">> >>
ExpirationIndexRecord_SizeVT ==
  << <<1, "message", "TaskId">>, <<1, "fixed64", "ExpiresAt">> >>
ExpirationIndexRecord_UnmarshalVT ==
  << <<1, {2}, "message", "TaskId", "TaskId">>,
    <<2, {1}, "fixed64", "ExpiresAt">> >>

Thread_Fields ==
  [ThreadId |-> String, HeadTaskId |-> One("TaskId"), ScheduledAt |-> Int64,
    VisibleAt |-> Int64]
Thread_MarshalVT ==
  << <<\h21, "fixed64", "VisibleAt">>, <<\h19, "fixed64", "ScheduledAt">>,
    <<\h12, "message", "HeadTaskId">>, <<\h0a, "bytes", "ThreadId">> >>
Thread_SizeVT ==
  << <<1, "bytes", "ThreadId">>, <<1, "message", "HeadTaskId">>,
    <<1, "fixed64", "ScheduledAt">>, <<1, "fixed64", "VisibleAt">> >>
Thread_UnmarshalVT ==
  << <<1, {2}, "bytes", "ThreadId">>,
    <<2, {2}, "message", "HeadTaskId", "TaskId">>,
    <<3, {1}, "fixed64", "ScheduledAt">>,
    <<4, {1}, "fixed64", "VisibleAt">> >>

EnqueueRequest_Fields ==
  [QueueId |-> One("QueueId"), Entries |-> Many("EnqueueRequestEntry")]
EnqueueRequest_MarshalVT ==
  << <<\h12, "messages", "Entries">>, <<\h0a, "message", "QueueId">> >>
EnqueueRequest_SizeVT ==
  << <<1, "message", "QueueId">>, <<1, "messages", "Entries">> >>
EnqueueRequest_UnmarshalVT ==
  << <<1, {2}, "message", "QueueId", "QueueId">>,
    <<2, {2}, "messages", "Entries", "EnqueueRequestEntry">> >>

EnqueueRequestEntry_Fields ==
  [Payload |-> Bytes, ScheduledAt |-> Int64, ExpiresAt |-> Int64,
    DedupeKey |-> String, RetryStrategy |-> One("RetryStrategy"),
    OverwriteOnDuplicate |-> Enums, ThreadId |-> String]
EnqueueRequestEntry_MarshalVT ==
  << <<\h3a, "bytes", "ThreadId">>,
    <<\h32, "packed", "OverwriteOnDuplicate">>,
    <<\h2a, "message", "RetryStrategy">>, <<\h22, "bytes", "DedupeKey">>,
    <<\h19, "fixed64", "ExpiresAt">>, <<\h11, "fixed64", "ScheduledAt">>,
    <<\h0a, "bytes", "Payload">> >>
EnqueueRequestEntry_SizeVT ==
  << <<1, "bytes", "Payload">>, <<1, "fixed64", "ScheduledAt">>,
    <<1, "fixed64", "ExpiresAt">>, <<1, "bytes", "DedupeKey">>,
    <<1, "message", "RetryStrategy">>,
    <<1, "packed", "OverwriteOnDuplicate">>, <<1, "bytes", "ThreadId">> >>
EnqueueRequestEntry_UnmarshalVT ==
  << <<1, {2}, "bytes", "Payload">>, <<2, {1}, "fixed64", "ScheduledAt">>,
    <<3, {1}, "fixed64", "ExpiresAt">>, <<4, {2}, "bytes", "DedupeKey">>,
    <<5, {2}, "message", "RetryStrategy", "RetryStrategy">>,
    <<6, {0, 2}, "packed", "OverwriteOnDuplicate">>,
    <<7, {2}, "bytes", "ThreadId">> >>

EnqueueResponse_Fields == [Tasks |-> Many("Task")]
EnqueueResponse_MarshalVT == << <<\h0a, "messages", "Tasks">> >>
EnqueueResponse_SizeVT == << <<1, "messages", "Tasks">> >>
EnqueueResponse_UnmarshalVT == << <<1, {2}, "messages", "Tasks", "Task">> >>

DequeueRequest_Fields ==
  [QueueId |-> One("QueueId"), DequeuingSettings |-> One("DequeuingSettings"),
    DequeueLimit |-> Int32,
    DeadLetterQueueConfig |-> One("DeadLetterQueueConfig"),
    KeepaliveTimeoutInSeconds |-> Int64]
DequeueRequest_MarshalVT ==
  << <<\h28, "varint", "KeepaliveTimeoutInSeconds">>,
    <<\h22, "message", "DeadLetterQueueConfig">>,
    <<\h18, "varint", "DequeueLimit">>,
    <<\h12, "message", "DequeuingSettings">>,
    <<\h0a, "message", "QueueId">> >>
DequeueRequest_SizeVT ==
  << <<1, "message", "QueueId">>, <<1, "message", "DequeuingSettings">>,
    <<1, "varint", "DequeueLimit">>,
    <<1, "message", "DeadLetterQueueConfig">>,
    <<1, "varint", "KeepaliveTimeoutInSeconds">> >>
DequeueRequest_UnmarshalVT ==
  << <<1, {2}, "message", "QueueId", "QueueId">>,
    <<2, {2}, "message", "DequeuingSettings", "DequeuingSettings">>,
    <<3, {0}, "varint", "DequeueLimit">>,
    <<4, {2}, "message", "DeadLetterQueueConfig", "DeadLetterQueueConfig">>,
    <<5, {0}, "varint", "KeepaliveTimeoutInSeconds">> >>

DequeueResponse_Fields == [Tasks |-> Many("Task")]
DequeueResponse_MarshalVT == << <<\h0a, "messages", "Tasks">> >>
DequeueResponse_SizeVT == << <<1, "messages", "Tasks">> >>
DequeueResponse_UnmarshalVT == << <<1, {2}, "messages", "Tasks", "Task">> >>

ReportStatusRequest_Fields ==
  [QueueId |-> One("QueueId"), Entries |-> Many("ReportStatusRequestEntry"),
    DeadLetterQueueConfig |-> One("DeadLetterQueueConfig")]
ReportStatusRequest_MarshalVT ==
  << <<\h1a, "message", "DeadLetterQueueConfig">>,
    <<\h12, "messages", "Entries">>, <<\h0a, "message", "QueueId">> >>
ReportStatusRequest_SizeVT ==
  << <<1, "message", "QueueId">>, <<1, "messages", "Entries">>,
    <<1, "message", "DeadLetterQueueConfig">> >>
ReportStatusRequest_UnmarshalVT ==
  << <<1, {2}, "message", "QueueId", "QueueId">>,
    <<2, {2}, "messages", "Entries", "ReportStatusRequestEntry">>,
    <<3, {2}, "message", "DeadLetterQueueConfig", "DeadLetterQueueConfig">> >>

ReportStatusRequestEntry_Fields ==
  [TaskId |-> One("TaskId"), Attempt |-> Int32, Status |-> Enum,
    KeepaliveTimeoutInSeconds |-> Int64]
ReportStatusRequestEntry_MarshalVT ==
  << <<\h20, "varint", "KeepaliveTimeoutInSeconds">>,
    <<\h18, "varint", "Status">>, <<\h10, "varint", "Attempt">>,
    <<\h0a, "message", "TaskId">> >>
ReportStatusRequestEntry_SizeVT ==
  << <<1, "message", "TaskId">>, <<1, "varint", "Attempt">>,
    <<1, "varint", "Status">>, <<1, "varint", "KeepaliveTimeoutInSeconds">> >>
ReportStatusRequestEntry_UnmarshalVT ==
  << <<1, {2}, "message", "TaskId", "TaskId">>,
    <<2, {0}, "varint", "Attempt">>, <<3, {0}, "varint", "Status">>,
    <<4, {0}, "varint", "KeepaliveTimeoutInSeconds">> >>

ReportStatusResponse_Fields == [Entries |-> Many("ReportStatusResponseEntry")]
ReportStatusResponse_MarshalVT == << <<\h0a, "messages", "Entries">> >>
ReportStatusResponse_SizeVT == << <<1, "messages", "Entries">> >>
ReportStatusResponse_UnmarshalVT ==
  << <<1, {2}, "messages", "Entries", "ReportStatusResponseEntry">> >>

ReportStatusResponseEntry_Fields ==
  [TaskId |-> One("TaskId"), Result |-> Enum]
ReportStatusResponseEntry_MarshalVT ==
  << <<\h10, "varint", "Result">>, <<\h0a, "message", "TaskId">> >>
ReportStatusResponseEntry_SizeVT ==
  << <<1, "message", "TaskId">>, <<1, "varint", "Result">> >>
ReportStatusResponseEntry_UnmarshalVT ==
  << <<1, {2}, "message", "TaskId", "TaskId">>,
    <<2, {0}, "varint", "Result">> >>

DeleteTasksRequest_Fields == [QueueId |-> One("QueueId"), TaskIds |-> Uint64s]
DeleteTasksRequest_MarshalVT ==
  << <<\h12, "packed64", "TaskIds">>, <<\h0a, "message", "QueueId">> >>
DeleteTasksRequest_SizeVT ==
  << <<1, "message", "QueueId">>, <<1, "packed64", "TaskIds">> >>
DeleteTasksRequest_UnmarshalVT ==
  << <<1, {2}, "message", "QueueId", "QueueId">>,
    <<2, {1, 2}, "packed64", "TaskIds">> >>

DeleteTasksResponse_Fields == NoFields
DeleteTasksResponse_MarshalVT == <<  >>
DeleteTasksResponse_SizeVT == <<  >>
DeleteTasksResponse_UnmarshalVT == <<  >>

RestartTasksRequest_Fields ==
  [QueueId |-> One("QueueId"), Entries |-> Many("RestartTasksRequestEntry")]
RestartTasksRequest_MarshalVT ==
  << <<\h12, "messages", "Entries">>, <<\h0a, "message", "QueueId">> >>
RestartTasksRequest_SizeVT ==
  << <<1, "message", "QueueId">>, <<1, "messages", "Entries">> >>
RestartTasksRequest_UnmarshalVT ==
  << <<1, {2}, "message", "QueueId", "QueueId">>,
    <<2, {2}, "messages", "Entries", "RestartTasksRequestEntry">> >>

RestartTasksRequestEntry_Fields ==
  [TaskId |-> Uint64, ScheduledAt |-> Int64, ExpiresAt |-> Int64]
RestartTasksRequestEntry_MarshalVT ==
  << <<\h19, "fixed64", "ExpiresAt">>, <<\h11, "fixed64", "ScheduledAt">>,
    <<\h09, "fixed64", "TaskId">> >>
RestartTasksRequestEntry_SizeVT ==
  << <<1, "fixed64", "TaskId">>, <<1, "fixed64", "ScheduledAt">>,
    <<1, "fixed64", "ExpiresAt">> >>
RestartTasksRequestEntry_UnmarshalVT ==
  << <<1, {1}, "fixed64", "TaskId">>, <<2, {1}, "fixed64", "ScheduledAt">>,
    <<3, {1}, "fixed64", "ExpiresAt">> >>

RestartTasksResponse_Fields == [Entries |-> Many("RestartTasksResponseEntry")]
RestartTasksResponse_MarshalVT == << <<\h0a, "messages", "Entries">> >>
RestartTasksResponse_SizeVT == << <<1, "messages", "Entries">> >>
RestartTasksResponse_UnmarshalVT ==
  << <<1, {2}, "messages", "Entries", "RestartTasksResponseEntry">> >>

RestartTasksResponseEntry_Fields ==
  [TaskId |-> Uint64, Result |-> Enum, Task |-> One("Task")]
RestartTasksResponseEntry_MarshalVT ==
  << <<\h1a, "message", "Task">>, <<\h10, "varint", "Result">>,
    <<\h09, "fixed64", "TaskId">> >>
RestartTasksResponseEntry_SizeVT ==
  << <<1, "fixed64", "TaskId">>, <<1, "varint", "Result">>,
    <<1, "message", "Task">> >>
RestartTasksResponseEntry_UnmarshalVT ==
  << <<1, {1}, "fixed64", "TaskId">>, <<2, {0}, "varint", "Result">>,
    <<3, {2}, "message", "Task", "Task">> >>

GetStatisticsRequest_Fields == [QueueId |-> One("QueueId")]
GetStatisticsRequest_MarshalVT == << <<\h0a, "message", "QueueId">> >>
GetStatisticsRequest_SizeVT == << <<1, "message", "QueueId">> >>
GetStatisticsRequest_UnmarshalVT ==
  << <<1, {2}, "message", "QueueId", "QueueId">> >>

GetStatisticsResponse_Fields ==
  [EnqueuedTasksCount |-> Int64, InProgressTasksCount |-> Int64,
    DeadTasksCount |-> Int64, ProcessedTasksCount |-> Int64,
    ExpiredTasksCount |-> Int64, AgeOfOldestEnqueuedTask |-> Int64,
    TaskIdSequence |-> Int64]
GetStatisticsResponse_MarshalVT ==
  << <<\h38, "varint", "TaskIdSequence">>,
    <<\h30, "varint", "AgeOfOldestEnqueuedTask">>,
    <<\h28, "varint", "ExpiredTasksCount">>,
    <<\h20, "varint", "ProcessedTasksCount">>,
    <<\h18, "varint", "DeadTasksCount">>,
    <<\h10, "varint", "InProgressTasksCount">>,
    <<\h08, "varint", "EnqueuedTasksCount">> >>
GetStatisticsResponse_SizeVT ==
  << <<1, "varint", "EnqueuedTasksCount">>,
    <<1, "varint", "InProgressTasksCount">>,
    <<1, "varint", "DeadTasksCount">>, <<1, "varint", "ProcessedTasksCount">>,
    <<1, "varint", "ExpiredTasksCount">>,
    <<1, "varint", "AgeOfOldestEnqueuedTask">>,
    <<1, "varint", "TaskIdSequence">> >>
GetStatisticsResponse_UnmarshalVT ==
  << <<1, {0}, "varint", "EnqueuedTasksCount">>,
    <<2, {0}, "varint", "InProgressTasksCount">>,
    <<3, {0}, "varint", "DeadTasksCount">>,
    <<4, {0}, "varint", "ProcessedTasksCount">>,
    <<5, {0}, "varint", "ExpiredTasksCount">>,
    <<6, {0}, "varint", "AgeOfOldestEnqueuedTask">>,
    <<7, {0}, "varint", "TaskIdSequence">> >>

GetTaskRequest_Fields == [TaskId |-> One("TaskId")]
GetTaskRequest_MarshalVT == << <<\h0a, "message", "TaskId">> >>
GetTaskRequest_SizeVT == << <<1, "message", "TaskId">> >>
GetTaskRequest_UnmarshalVT == << <<1, {2}, "message", "TaskId", "TaskId">> >>

GetTaskResponse_Fields == [Task |-> One("Task")]
GetTaskResponse_MarshalVT == << <<\h0a, "message", "Task">> >>
GetTaskResponse_SizeVT == << <<1, "message", "Task">> >>
GetTaskResponse_UnmarshalVT == << <<1, {2}, "message", "Task", "Task">> >>

PurgeQueueRequest_Fields == [QueueId |-> One("QueueId")]
PurgeQueueRequest_MarshalVT == << <<\h0a, "message", "QueueId">> >>
PurgeQueueRequest_SizeVT == << <<1, "message", "QueueId">> >>
PurgeQueueRequest_UnmarshalVT ==
  << <<1, {2}, "message", "QueueId", "QueueId">> >>

PurgeQueueResponse_Fields == NoFields
PurgeQueueResponse_MarshalVT == <<  >>
PurgeQueueResponse_SizeVT == <<  >>
PurgeQueueResponse_UnmarshalVT == <<  >>

PurgeQueueGarbageCollectionRecord_Fields == [QueueId |-> One("QueueId")]
PurgeQueueGarbageCollectionRecord_MarshalVT ==
  << <<\h0a, "message", "QueueId">> >>
PurgeQueueGarbageCollectionRecord_SizeVT == << <<1, "message", "QueueId">> >>
PurgeQueueGarbageCollectionRecord_UnmarshalVT ==
  << <<1, {2}, "message", "QueueId", "QueueId">> >>

RunPurgeQueueGarbageCollectionRequest_Fields ==
  [GcRecordsPageSize |-> Int32, GcRecordTasksPageSize |-> Int32,
    MaxVisitedTasks |-> Int32]
RunPurgeQueueGarbageCollectionRequest_MarshalVT ==
  << <<\h18, "varint", "MaxVisitedTasks">>,
    <<\h10, "varint", "GcRecordTasksPageSize">>,
    <<\h08, "varint", "GcRecordsPageSize">> >>
RunPurgeQueueGarbageCollectionRequest_SizeVT ==
  << <<1, "varint", "GcRecordsPageSize">>,
    <<1, "varint", "GcRecordTasksPageSize">>,
    <<1, "varint", "MaxVisitedTasks">> >>
RunPurgeQueueGarbageCollectionRequest_UnmarshalVT ==
  << <<1, {0}, "varint", "GcRecordsPageSize">>,
    <<2, {0}, "varint", "GcRecordTasksPageSize">>,
    <<3, {0}, "varint", "MaxVisitedTasks">> >>

RunPurgeQueueGarbageCollectionResponse_Fields == NoFields
RunPurgeQueueGarbageCollectionResponse_MarshalVT == <<  >>
RunPurgeQueueGarbageCollectionResponse_SizeVT == <<  >>
RunPurgeQueueGarbageCollectionResponse_UnmarshalVT == <<  >>

ListTasksRequest_Fields ==
  [QueueId |-> One("QueueId"), PaginationToken |-> One("PaginationToken"),
    Limit |-> Int32, State |-> Enum]
ListTasksRequest_MarshalVT ==
  << <<\h20, "varint", "State">>, <<\h18, "varint", "Limit">>,
    <<\h12, "message", "PaginationToken">>, <<\h0a, "message", "QueueId">> >>
ListTasksRequest_SizeVT ==
  << <<1, "message", "QueueId">>, <<1, "message", "PaginationToken">>,
    <<1, "varint", "Limit">>, <<1, "varint", "State">> >>
ListTasksRequest_UnmarshalVT ==
  << <<1, {2}, "message", "QueueId", "QueueId">>,
    <<2, {2}, "message", "PaginationToken", "PaginationToken">>,
    <<3, {0}, "varint", "Limit">>, <<4, {0}, "varint", "State">> >>

ListTasksResponse_Fields ==
  [Tasks |-> Many("Task"), NextPaginationToken |-> One("PaginationToken"),
    PreviousPaginationToken |-> One("PaginationToken")]
ListTasksResponse_MarshalVT ==
  << <<\h1a, "message", "PreviousPaginationToken">>,
    <<\h12, "message", "NextPaginationToken">>,
    <<\h0a, "messages", "Tasks">> >>
ListTasksResponse_SizeVT ==
  << <<1, "messages", "Tasks">>, <<1, "message", "NextPaginationToken">>,
    <<1, "message", "PreviousPaginationToken">> >>
ListTasksResponse_UnmarshalVT ==
  << <<1, {2}, "messages", "Tasks", "Task">>,
    <<2, {2}, "message", "NextPaginationToken", "PaginationToken">>,
    <<3, {2}, "message", "PreviousPaginationToken", "PaginationToken">> >>

RunTasksGarbageCollectionRequest_Fields ==
  [MaxVisitedTasks |-> Int32, PageSize |-> Int32]
RunTasksGarbageCollectionRequest_MarshalVT ==
  << <<\h10, "varint", "PageSize">>, <<\h08, "varint", "MaxVisitedTasks">> >>
RunTasksGarbageCollectionRequest_SizeVT ==
  << <<1, "varint", "MaxVisitedTasks">>, <<1, "varint", "PageSize">> >>
RunTasksGarbageCollectionRequest_UnmarshalVT ==
  << <<1, {0}, "varint", "MaxVisitedTasks">>,
    <<2, {0}, "varint", "PageSize">> >>

RunTasksGarbageCollectionResponse_Fields == NoFields
RunTasksGarbageCollectionResponse_MarshalVT == <<  >>
RunTasksGarbageCollectionResponse_SizeVT == <<  >>
RunTasksGarbageCollectionResponse_UnmarshalVT == <<  >>

TasksCounter_Fields ==
  [EnqueuedTasksCount |-> Int64, InProgressTasksCount |-> Int64,
    DeadTasksCount |-> Int64, ProcessedTasksCount |-> Int64,
    ExpiredTasksCount |-> Int64]
TasksCounter_MarshalVT ==
  << <<\h28, "varint", "ExpiredTasksCount">>,
    <<\h20, "varint", "ProcessedTasksCount">>,
    <<\h18, "varint", "DeadTasksCount">>,
    <<\h10, "varint", "InProgressTasksCount">>,
    <<\h08, "varint", "EnqueuedTasksCount">> >>
TasksCounter_SizeVT ==
  << <<1, "varint", "EnqueuedTasksCount">>,
    <<1, "varint", "InProgressTasksCount">>,
    <<1, "varint", "DeadTasksCount">>, <<1, "varint", "ProcessedTasksCount">>,
    <<1, "varint", "ExpiredTasksCount">> >>
TasksCounter_UnmarshalVT ==
  << <<1, {0}, "varint", "EnqueuedTasksCount">>,
    <<2, {0}, "varint", "InProgressTasksCount">>,
    <<3, {0}, "varint", "DeadTasksCount">>,
    <<4, {0}, "varint", "ProcessedTasksCount">>,
    <<5, {0}, "varint", "ExpiredTasksCount">> >>

QueueState_Fields ==
  [TaskIdSequence |-> Uint64, LastVisitedEnqueued |-> Int64,
    LastVisitedInProgress |-> Int64]
QueueState_MarshalVT ==
  << <<\h18, "varint", "LastVisitedInProgress">>,
    <<\h10, "varint", "LastVisitedEnqueued">>,
    <<\h09, "fixed64", "TaskIdSequence">> >>
QueueState_SizeVT ==
  << <<1, "fixed64", "TaskIdSequence">>,
    <<1, "varint", "LastVisitedEnqueued">>,
    <<1, "varint", "LastVisitedInProgress">> >>
QueueState_UnmarshalVT ==
  << <<1, {1}, "fixed64", "TaskIdSequence">>,
    <<2, {0}, "varint", "LastVisitedEnqueued">>,
    <<3, {0}, "varint", "LastVisitedInProgress">> >>

RateLimiterState_Fields == [Tokens |-> Int64, LastRefilledAt |-> Int64]
RateLimiterState_MarshalVT ==
  << <<\h11, "fixed64", "LastRefilledAt">>, <<\h08, "varint", "Tokens">> >>
RateLimiterState_SizeVT ==
  << <<1, "varint", "Tokens">>, <<1, "fixed64", "LastRefilledAt">> >>
RateLimiterState_UnmarshalVT ==
  << <<1, {0}, "varint", "Tokens">>,
    <<2, {1}, "fixed64", "LastRefilledAt">> >>

=============================================================================
