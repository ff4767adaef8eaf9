---------------------------- MODULE WireMessages ----------------------------
(*************************************************************************)
(* The messages that both cores use, and the tables of all messages of   *)
(* pkg/corepb by their names. Wire has the functions that read the tables. *)
(*************************************************************************)
EXTENDS QueuesMessages, TasksMessages

PaginationToken_Fields == [Type |-> Enum, Value |-> Bytes]
PaginationToken_MarshalVT ==
  << <<\h12, "bytes", "Value">>, <<\h08, "varint", "Type">> >>
PaginationToken_SizeVT ==
  << <<1, "varint", "Type">>, <<1, "bytes", "Value">> >>
PaginationToken_UnmarshalVT ==
  << <<1, {0}, "varint", "Type">>, <<2, {2}, "bytes", "Value">> >>

RetryStrategy_Fields == [RetryIntervalsInSeconds |-> Int64s]
RetryStrategy_MarshalVT == << <<\h0a, "packed", "RetryIntervalsInSeconds">> >>
RetryStrategy_SizeVT == << <<1, "packed", "RetryIntervalsInSeconds">> >>
RetryStrategy_UnmarshalVT ==
  << <<1, {0, 2}, "packed", "RetryIntervalsInSeconds">> >>

Fields ==
  [PaginationToken |-> PaginationToken_Fields,
    RetryStrategy |-> RetryStrategy_Fields, Queue |-> Queue_Fields,
    QueueId |-> QueueId_Fields,
    DeadLetterQueueConfig |-> DeadLetterQueueConfig_Fields,
    DequeuingSettings |-> DequeuingSettings_Fields,
    TokenBucketRateLimiting |-> TokenBucketRateLimiting_Fields,
    Schedule |-> Schedule_Fields, ScheduleId |-> ScheduleId_Fields,
    CreateQueueRequest |-> CreateQueueRequest_Fields,
    CreateQueueResponse |-> CreateQueueResponse_Fields,
    GetQueueRequest |-> GetQueueRequest_Fields,
    GetQueueResponse |-> GetQueueResponse_Fields,
    GetQueueByNameRequest |-> GetQueueByNameRequest_Fields,
    GetQueueByNameResponse |-> GetQueueByNameResponse_Fields,
    UpdateQueueRequest |-> UpdateQueueRequest_Fields,
    UpdateQueueResponse |-> UpdateQueueResponse_Fields,
    DeleteQueueRequest |-> DeleteQueueRequest_Fields,
    DeleteQueueResponse |-> DeleteQueueResponse_Fields,
    SwapQueueIdRequest |-> SwapQueueIdRequest_Fields,
    SwapQueueIdResponse |-> SwapQueueIdResponse_Fields,
    ListQueuesRequest |-> ListQueuesRequest_Fields,
    ListQueuesResponse |-> ListQueuesResponse_Fields,
    CreateScheduleRequest |-> CreateScheduleRequest_Fields,
    CreateScheduleResponse |-> CreateScheduleResponse_Fields,
    GetScheduleRequest |-> GetScheduleRequest_Fields,
    GetScheduleResponse |-> GetScheduleResponse_Fields,
    ListSchedulesRequest |-> ListSchedulesRequest_Fields,
    ListSchedulesResponse |-> ListSchedulesResponse_Fields,
    UpdateScheduleRequest |-> UpdateScheduleRequest_Fields,
    UpdateScheduleResponse |-> UpdateScheduleResponse_Fields,
    DeleteScheduleRequest |-> DeleteScheduleRequest_Fields,
    DeleteScheduleResponse |-> DeleteScheduleResponse_Fields,
    DequeSchedulesRequest |-> DequeSchedulesRequest_Fields,
    DequeSchedulesResponse |-> DequeSchedulesResponse_Fields,
    DequeSchedulesResponseEntry |-> DequeSchedulesResponseEntry_Fields,
    ReportSchedulesStatusRequest |-> ReportSchedulesStatusRequest_Fields,
    ReportSchedulesStatusResponse |-> ReportSchedulesStatusResponse_Fields,
    QueuesCounter |-> QueuesCounter_Fields,
    QueuesGarbageCollectionRecord |-> QueuesGarbageCollectionRecord_Fields,
    RunQueuesGarbageCollectionRequest |-> RunQueuesGarbageCollectionRequest_Fields,
    RunQueuesGarbageCollectionResponse |-> RunQueuesGarbageCollectionResponse_Fields,
    Task |-> Task_Fields, TaskId |-> TaskId_Fields,
    ExpirationIndexRecord |-> ExpirationIndexRecord_Fields,
    Thread |-> Thread_Fields, EnqueueRequest |-> EnqueueRequest_Fields,
    EnqueueRequestEntry |-> EnqueueRequestEntry_Fields,
    EnqueueResponse |-> EnqueueResponse_Fields,
    DequeueRequest |-> DequeueRequest_Fields,
    DequeueResponse |-> DequeueResponse_Fields,
    ReportStatusRequest |-> ReportStatusRequest_Fields,
    ReportStatusRequestEntry |-> ReportStatusRequestEntry_Fields,
    ReportStatusResponse |-> ReportStatusResponse_Fields,
    ReportStatusResponseEntry |-> ReportStatusResponseEntry_Fields,
    DeleteTasksRequest |-> DeleteTasksRequest_Fields,
    DeleteTasksResponse |-> DeleteTasksResponse_Fields,
    RestartTasksRequest |-> RestartTasksRequest_Fields,
    RestartTasksRequestEntry |-> RestartTasksRequestEntry_Fields,
    RestartTasksResponse |-> RestartTasksResponse_Fields,
    RestartTasksResponseEntry |-> RestartTasksResponseEntry_Fields,
    GetStatisticsRequest |-> GetStatisticsRequest_Fields,
    GetStatisticsResponse |-> GetStatisticsResponse_Fields,
    GetTaskRequest |-> GetTaskRequest_Fields,
    GetTaskResponse |-> GetTaskResponse_Fields,
    PurgeQueueRequest |-> PurgeQueueRequest_Fields,
    PurgeQueueResponse |-> PurgeQueueResponse_Fields,
    PurgeQueueGarbageCollectionRecord |-> PurgeQueueGarbageCollectionRecord_Fields,
    RunPurgeQueueGarbageCollectionRequest |-> RunPurgeQueueGarbageCollectionRequest_Fields,
    RunPurgeQueueGarbageCollectionResponse |-> RunPurgeQueueGarbageCollectionResponse_Fields,
    ListTasksRequest |-> ListTasksRequest_Fields,
    ListTasksResponse |-> ListTasksResponse_Fields,
    RunTasksGarbageCollectionRequest |-> RunTasksGarbageCollectionRequest_Fields,
    RunTasksGarbageCollectionResponse |-> RunTasksGarbageCollectionResponse_Fields,
    TasksCounter |-> TasksCounter_Fields, QueueState |-> QueueState_Fields,
    RateLimiterState |-> RateLimiterState_Fields]

MarshalTable ==
  [PaginationToken |-> PaginationToken_MarshalVT,
    RetryStrategy |-> RetryStrategy_MarshalVT, Queue |-> Queue_MarshalVT,
    QueueId |-> QueueId_MarshalVT,
    DeadLetterQueueConfig |-> DeadLetterQueueConfig_MarshalVT,
    DequeuingSettings |-> DequeuingSettings_MarshalVT,
    TokenBucketRateLimiting |-> TokenBucketRateLimiting_MarshalVT,
    Schedule |-> Schedule_MarshalVT, ScheduleId |-> ScheduleId_MarshalVT,
    CreateQueueRequest |-> CreateQueueRequest_MarshalVT,
    CreateQueueResponse |-> CreateQueueResponse_MarshalVT,
    GetQueueRequest |-> GetQueueRequest_MarshalVT,
    GetQueueResponse |-> GetQueueResponse_MarshalVT,
    GetQueueByNameRequest |-> GetQueueByNameRequest_MarshalVT,
    GetQueueByNameResponse |-> GetQueueByNameResponse_MarshalVT,
    UpdateQueueRequest |-> UpdateQueueRequest_MarshalVT,
    UpdateQueueResponse |-> UpdateQueueResponse_MarshalVT,
    DeleteQueueRequest |-> DeleteQueueRequest_MarshalVT,
    DeleteQueueResponse |-> DeleteQueueResponse_MarshalVT,
    SwapQueueIdRequest |-> SwapQueueIdRequest_MarshalVT,
    SwapQueueIdResponse |-> SwapQueueIdResponse_MarshalVT,
    ListQueuesRequest |-> ListQueuesRequest_MarshalVT,
    ListQueuesResponse |-> ListQueuesResponse_MarshalVT,
    CreateScheduleRequest |-> CreateScheduleRequest_MarshalVT,
    CreateScheduleResponse |-> CreateScheduleResponse_MarshalVT,
    GetScheduleRequest |-> GetScheduleRequest_MarshalVT,
    GetScheduleResponse |-> GetScheduleResponse_MarshalVT,
    ListSchedulesRequest |-> ListSchedulesRequest_MarshalVT,
    ListSchedulesResponse |-> ListSchedulesResponse_MarshalVT,
    UpdateScheduleRequest |-> UpdateScheduleRequest_MarshalVT,
    UpdateScheduleResponse |-> UpdateScheduleResponse_MarshalVT,
    DeleteScheduleRequest |-> DeleteScheduleRequest_MarshalVT,
    DeleteScheduleResponse |-> DeleteScheduleResponse_MarshalVT,
    DequeSchedulesRequest |-> DequeSchedulesRequest_MarshalVT,
    DequeSchedulesResponse |-> DequeSchedulesResponse_MarshalVT,
    DequeSchedulesResponseEntry |-> DequeSchedulesResponseEntry_MarshalVT,
    ReportSchedulesStatusRequest |-> ReportSchedulesStatusRequest_MarshalVT,
    ReportSchedulesStatusResponse |-> ReportSchedulesStatusResponse_MarshalVT,
    QueuesCounter |-> QueuesCounter_MarshalVT,
    QueuesGarbageCollectionRecord |-> QueuesGarbageCollectionRecord_MarshalVT,
    RunQueuesGarbageCollectionRequest |-> RunQueuesGarbageCollectionRequest_MarshalVT,
    RunQueuesGarbageCollectionResponse |-> RunQueuesGarbageCollectionResponse_MarshalVT,
    Task |-> Task_MarshalVT, TaskId |-> TaskId_MarshalVT,
    ExpirationIndexRecord |-> ExpirationIndexRecord_MarshalVT,
    Thread |-> Thread_MarshalVT, EnqueueRequest |-> EnqueueRequest_MarshalVT,
    EnqueueRequestEntry |-> EnqueueRequestEntry_MarshalVT,
    EnqueueResponse |-> EnqueueResponse_MarshalVT,
    DequeueRequest |-> DequeueRequest_MarshalVT,
    DequeueResponse |-> DequeueResponse_MarshalVT,
    ReportStatusRequest |-> ReportStatusRequest_MarshalVT,
    ReportStatusRequestEntry |-> ReportStatusRequestEntry_MarshalVT,
    ReportStatusResponse |-> ReportStatusResponse_MarshalVT,
    ReportStatusResponseEntry |-> ReportStatusResponseEntry_MarshalVT,
    DeleteTasksRequest |-> DeleteTasksRequest_MarshalVT,
    DeleteTasksResponse |-> DeleteTasksResponse_MarshalVT,
    RestartTasksRequest |-> RestartTasksRequest_MarshalVT,
    RestartTasksRequestEntry |-> RestartTasksRequestEntry_MarshalVT,
    RestartTasksResponse |-> RestartTasksResponse_MarshalVT,
    RestartTasksResponseEntry |-> RestartTasksResponseEntry_MarshalVT,
    GetStatisticsRequest |-> GetStatisticsRequest_MarshalVT,
    GetStatisticsResponse |-> GetStatisticsResponse_MarshalVT,
    GetTaskRequest |-> GetTaskRequest_MarshalVT,
    GetTaskResponse |-> GetTaskResponse_MarshalVT,
    PurgeQueueRequest |-> PurgeQueueRequest_MarshalVT,
    PurgeQueueResponse |-> PurgeQueueResponse_MarshalVT,
    PurgeQueueGarbageCollectionRecord |-> PurgeQueueGarbageCollectionRecord_MarshalVT,
    RunPurgeQueueGarbageCollectionRequest |-> RunPurgeQueueGarbageCollectionRequest_MarshalVT,
    RunPurgeQueueGarbageCollectionResponse |-> RunPurgeQueueGarbageCollectionResponse_MarshalVT,
    ListTasksRequest |-> ListTasksRequest_MarshalVT,
    ListTasksResponse |-> ListTasksResponse_MarshalVT,
    RunTasksGarbageCollectionRequest |-> RunTasksGarbageCollectionRequest_MarshalVT,
    RunTasksGarbageCollectionResponse |-> RunTasksGarbageCollectionResponse_MarshalVT,
    TasksCounter |-> TasksCounter_MarshalVT,
    QueueState |-> QueueState_MarshalVT,
    RateLimiterState |-> RateLimiterState_MarshalVT]

SizeTable ==
  [PaginationToken |-> PaginationToken_SizeVT,
    RetryStrategy |-> RetryStrategy_SizeVT, Queue |-> Queue_SizeVT,
    QueueId |-> QueueId_SizeVT,
    DeadLetterQueueConfig |-> DeadLetterQueueConfig_SizeVT,
    DequeuingSettings |-> DequeuingSettings_SizeVT,
    TokenBucketRateLimiting |-> TokenBucketRateLimiting_SizeVT,
    Schedule |-> Schedule_SizeVT, ScheduleId |-> ScheduleId_SizeVT,
    CreateQueueRequest |-> CreateQueueRequest_SizeVT,
    CreateQueueResponse |-> CreateQueueResponse_SizeVT,
    GetQueueRequest |-> GetQueueRequest_SizeVT,
    GetQueueResponse |-> GetQueueResponse_SizeVT,
    GetQueueByNameRequest |-> GetQueueByNameRequest_SizeVT,
    GetQueueByNameResponse |-> GetQueueByNameResponse_SizeVT,
    UpdateQueueRequest |-> UpdateQueueRequest_SizeVT,
    UpdateQueueResponse |-> UpdateQueueResponse_SizeVT,
    DeleteQueueRequest |-> DeleteQueueRequest_SizeVT,
    DeleteQueueResponse |-> DeleteQueueResponse_SizeVT,
    SwapQueueIdRequest |-> SwapQueueIdRequest_SizeVT,
    SwapQueueIdResponse |-> SwapQueueIdResponse_SizeVT,
    ListQueuesRequest |-> ListQueuesRequest_SizeVT,
    ListQueuesResponse |-> ListQueuesResponse_SizeVT,
    CreateScheduleRequest |-> CreateScheduleRequest_SizeVT,
    CreateScheduleResponse |-> CreateScheduleResponse_SizeVT,
    GetScheduleRequest |-> GetScheduleRequest_SizeVT,
    GetScheduleResponse |-> GetScheduleResponse_SizeVT,
    ListSchedulesRequest |-> ListSchedulesRequest_SizeVT,
    ListSchedulesResponse |-> ListSchedulesResponse_SizeVT,
    UpdateScheduleRequest |-> UpdateScheduleRequest_SizeVT,
    UpdateScheduleResponse |-> UpdateScheduleResponse_SizeVT,
    DeleteScheduleRequest |-> DeleteScheduleRequest_SizeVT,
    DeleteScheduleResponse |-> DeleteScheduleResponse_SizeVT,
    DequeSchedulesRequest |-> DequeSchedulesRequest_SizeVT,
    DequeSchedulesResponse |-> DequeSchedulesResponse_SizeVT,
    DequeSchedulesResponseEntry |-> DequeSchedulesResponseEntry_SizeVT,
    ReportSchedulesStatusRequest |-> ReportSchedulesStatusRequest_SizeVT,
    ReportSchedulesStatusResponse |-> ReportSchedulesStatusResponse_SizeVT,
    QueuesCounter |-> QueuesCounter_SizeVT,
    QueuesGarbageCollectionRecord |-> QueuesGarbageCollectionRecord_SizeVT,
    RunQueuesGarbageCollectionRequest |-> RunQueuesGarbageCollectionRequest_SizeVT,
    RunQueuesGarbageCollectionResponse |-> RunQueuesGarbageCollectionResponse_SizeVT,
    Task |-> Task_SizeVT, TaskId |-> TaskId_SizeVT,
    ExpirationIndexRecord |-> ExpirationIndexRecord_SizeVT,
    Thread |-> Thread_SizeVT, EnqueueRequest |-> EnqueueRequest_SizeVT,
    EnqueueRequestEntry |-> EnqueueRequestEntry_SizeVT,
    EnqueueResponse |-> EnqueueResponse_SizeVT,
    DequeueRequest |-> DequeueRequest_SizeVT,
    DequeueResponse |-> DequeueResponse_SizeVT,
    ReportStatusRequest |-> ReportStatusRequest_SizeVT,
    ReportStatusRequestEntry |-> ReportStatusRequestEntry_SizeVT,
    ReportStatusResponse |-> ReportStatusResponse_SizeVT,
    ReportStatusResponseEntry |-> ReportStatusResponseEntry_SizeVT,
    DeleteTasksRequest |-> DeleteTasksRequest_SizeVT,
    DeleteTasksResponse |-> DeleteTasksResponse_SizeVT,
    RestartTasksRequest |-> RestartTasksRequest_SizeVT,
    RestartTasksRequestEntry |-> RestartTasksRequestEntry_SizeVT,
    RestartTasksResponse |-> RestartTasksResponse_SizeVT,
    RestartTasksResponseEntry |-> RestartTasksResponseEntry_SizeVT,
    GetStatisticsRequest |-> GetStatisticsRequest_SizeVT,
    GetStatisticsResponse |-> GetStatisticsResponse_SizeVT,
    GetTaskRequest |-> GetTaskRequest_SizeVT,
    GetTaskResponse |-> GetTaskResponse_SizeVT,
    PurgeQueueRequest |-> PurgeQueueRequest_SizeVT,
    PurgeQueueResponse |-> PurgeQueueResponse_SizeVT,
    PurgeQueueGarbageCollectionRecord |-> PurgeQueueGarbageCollectionRecord_SizeVT,
    RunPurgeQueueGarbageCollectionRequest |-> RunPurgeQueueGarbageCollectionRequest_SizeVT,
    RunPurgeQueueGarbageCollectionResponse |-> RunPurgeQueueGarbageCollectionResponse_SizeVT,
    ListTasksRequest |-> ListTasksRequest_SizeVT,
    ListTasksResponse |-> ListTasksResponse_SizeVT,
    RunTasksGarbageCollectionRequest |-> RunTasksGarbageCollectionRequest_SizeVT,
    RunTasksGarbageCollectionResponse |-> RunTasksGarbageCollectionResponse_SizeVT,
    TasksCounter |-> TasksCounter_SizeVT, QueueState |-> QueueState_SizeVT,
    RateLimiterState |-> RateLimiterState_SizeVT]

UnmarshalTable ==
  [PaginationToken |-> PaginationToken_UnmarshalVT,
    RetryStrategy |-> RetryStrategy_UnmarshalVT, Queue |-> Queue_UnmarshalVT,
    QueueId |-> QueueId_UnmarshalVT,
    DeadLetterQueueConfig |-> DeadLetterQueueConfig_UnmarshalVT,
    DequeuingSettings |-> DequeuingSettings_UnmarshalVT,
    TokenBucketRateLimiting |-> TokenBucketRateLimiting_UnmarshalVT,
    Schedule |-> Schedule_UnmarshalVT, ScheduleId |-> ScheduleId_UnmarshalVT,
    CreateQueueRequest |-> CreateQueueRequest_UnmarshalVT,
    CreateQueueResponse |-> CreateQueueResponse_UnmarshalVT,
    GetQueueRequest |-> GetQueueRequest_UnmarshalVT,
    GetQueueResponse |-> GetQueueResponse_UnmarshalVT,
    GetQueueByNameRequest |-> GetQueueByNameRequest_UnmarshalVT,
    GetQueueByNameResponse |-> GetQueueByNameResponse_UnmarshalVT,
    UpdateQueueRequest |-> UpdateQueueRequest_UnmarshalVT,
    UpdateQueueResponse |-> UpdateQueueResponse_UnmarshalVT,
    DeleteQueueRequest |-> DeleteQueueRequest_UnmarshalVT,
    DeleteQueueResponse |-> DeleteQueueResponse_UnmarshalVT,
    SwapQueueIdRequest |-> SwapQueueIdRequest_UnmarshalVT,
    SwapQueueIdResponse |-> SwapQueueIdResponse_UnmarshalVT,
    ListQueuesRequest |-> ListQueuesRequest_UnmarshalVT,
    ListQueuesResponse |-> ListQueuesResponse_UnmarshalVT,
    CreateScheduleRequest |-> CreateScheduleRequest_UnmarshalVT,
    CreateScheduleResponse |-> CreateScheduleResponse_UnmarshalVT,
    GetScheduleRequest |-> GetScheduleRequest_UnmarshalVT,
    GetScheduleResponse |-> GetScheduleResponse_UnmarshalVT,
    ListSchedulesRequest |-> ListSchedulesRequest_UnmarshalVT,
    ListSchedulesResponse |-> ListSchedulesResponse_UnmarshalVT,
    UpdateScheduleRequest |-> UpdateScheduleRequest_UnmarshalVT,
    UpdateScheduleResponse |-> UpdateScheduleResponse_UnmarshalVT,
    DeleteScheduleRequest |-> DeleteScheduleRequest_UnmarshalVT,
    DeleteScheduleResponse |-> DeleteScheduleResponse_UnmarshalVT,
    DequeSchedulesRequest |-> DequeSchedulesRequest_UnmarshalVT,
    DequeSchedulesResponse |-> DequeSchedulesResponse_UnmarshalVT,
    DequeSchedulesResponseEntry |-> DequeSchedulesResponseEntry_UnmarshalVT,
    ReportSchedulesStatusRequest |-> ReportSchedulesStatusRequest_UnmarshalVT,
    ReportSchedulesStatusResponse |-> ReportSchedulesStatusResponse_UnmarshalVT,
    QueuesCounter |-> QueuesCounter_UnmarshalVT,
    QueuesGarbageCollectionRecord |-> QueuesGarbageCollectionRecord_UnmarshalVT,
    RunQueuesGarbageCollectionRequest |-> RunQueuesGarbageCollectionRequest_UnmarshalVT,
    RunQueuesGarbageCollectionResponse |-> RunQueuesGarbageCollectionResponse_UnmarshalVT,
    Task |-> Task_UnmarshalVT, TaskId |-> TaskId_UnmarshalVT,
    ExpirationIndexRecord |-> ExpirationIndexRecord_UnmarshalVT,
    Thread |-> Thread_UnmarshalVT,
    EnqueueRequest |-> EnqueueRequest_UnmarshalVT,
    EnqueueRequestEntry |-> EnqueueRequestEntry_UnmarshalVT,
    EnqueueResponse |-> EnqueueResponse_UnmarshalVT,
    DequeueRequest |-> DequeueRequest_UnmarshalVT,
    DequeueResponse |-> DequeueResponse_UnmarshalVT,
    ReportStatusRequest |-> ReportStatusRequest_UnmarshalVT,
    ReportStatusRequestEntry |-> ReportStatusRequestEntry_UnmarshalVT,
    ReportStatusResponse |-> ReportStatusResponse_UnmarshalVT,
    ReportStatusResponseEntry |-> ReportStatusResponseEntry_UnmarshalVT,
    DeleteTasksRequest |-> DeleteTasksRequest_UnmarshalVT,
    DeleteTasksResponse |-> DeleteTasksResponse_UnmarshalVT,
    RestartTasksRequest |-> RestartTasksRequest_UnmarshalVT,
    RestartTasksRequestEntry |-> RestartTasksRequestEntry_UnmarshalVT,
    RestartTasksResponse |-> RestartTasksResponse_UnmarshalVT,
    RestartTasksResponseEntry |-> RestartTasksResponseEntry_UnmarshalVT,
    GetStatisticsRequest |-> GetStatisticsRequest_UnmarshalVT,
    GetStatisticsResponse |-> GetStatisticsResponse_UnmarshalVT,
    GetTaskRequest |-> GetTaskRequest_UnmarshalVT,
    GetTaskResponse |-> GetTaskResponse_UnmarshalVT,
    PurgeQueueRequest |-> PurgeQueueRequest_UnmarshalVT,
    PurgeQueueResponse |-> PurgeQueueResponse_UnmarshalVT,
    PurgeQueueGarbageCollectionRecord |-> PurgeQueueGarbageCollectionRecord_UnmarshalVT,
    RunPurgeQueueGarbageCollectionRequest |-> RunPurgeQueueGarbageCollectionRequest_UnmarshalVT,
    RunPurgeQueueGarbageCollectionResponse |-> RunPurgeQueueGarbageCollectionResponse_UnmarshalVT,
    ListTasksRequest |-> ListTasksRequest_UnmarshalVT,
    ListTasksResponse |-> ListTasksResponse_UnmarshalVT,
    RunTasksGarbageCollectionRequest |-> RunTasksGarbageCollectionRequest_UnmarshalVT,
    RunTasksGarbageCollectionResponse |-> RunTasksGarbageCollectionResponse_UnmarshalVT,
    TasksCounter |-> TasksCounter_UnmarshalVT,
    QueueState |-> QueueState_UnmarshalVT,
    RateLimiterState |-> RateLimiterState_UnmarshalVT]

=============================================================================
