--------------------------- MODULE QueuesMessages ---------------------------
(*************************************************************************)
(* The messages of the queues core (queues.proto) and what their         *)
(* generated code does, as one table per function:                       *)
(*                                                                       *)
(* X_Fields       the fields of the struct and their Go types            *)
(* X_MarshalVT    <<tag, kind, field>>, in the order in which the code   *)
(*                writes, from the end of the buffer to its beginning    *)
(* X_SizeVT       <<bytes of the tag, kind, field>>                      *)
(* X_UnmarshalVT  <<number, wire types, kind, field, nested message>>    *)
(*************************************************************************)
EXTENDS MessageTypes

Queue_Fields ==
  [Id |-> One("QueueId"), Name |-> String, Description |-> String,
    CreatedAt |-> Int64, UpdatedAt |-> Int64, Version |-> Int64,
    KeepaliveTimeoutInSeconds |-> Int64,
    RetryStrategy |-> One("RetryStrategy"),
    DequeuingSettings |-> One("DequeuingSettings"),
    DeadLetterQueueConfig |-> One("DeadLetterQueueConfig"),
    ExpiresInSeconds |-> Int64, SchedulesCount |-> Int64]
Queue_MarshalVT ==
  << <<\h60, "varint", "SchedulesCount">>,
    <<\h58, "varint", "ExpiresInSeconds">>,
    <<\h52, "message", "DeadLetterQueueConfig">>,
    <<\h4a, "message", "DequeuingSettings">>,
    <<\h42, "message", "RetryStrategy">>,
    <<\h38, "varint", "KeepaliveTimeoutInSeconds">>,
    <<\h30, "varint", "Version">>, <<\h29, "fixed64", "UpdatedAt">>,
    <<\h21, "fixed64", "CreatedAt">>, <<\h1a, "bytes", "Description">>,
    <<\h12, "bytes", "Name">>, <<\h0a, "message", "Id">> >>
Queue_SizeVT ==
  << <<1, "message", "Id">>, <<1, "bytes", "Name">>,
    <<1, "bytes", "Description">>, <<1, "fixed64", "CreatedAt">>,
    <<1, "fixed64", "UpdatedAt">>, <<1, "varint", "Version">>,
    <<1, "varint", "KeepaliveTimeoutInSeconds">>,
    <<1, "message", "RetryStrategy">>, <<1, "message", "DequeuingSettings">>,
    <<1, "message", "DeadLetterQueueConfig">>,
    <<1, "varint", "ExpiresInSeconds">>, <<1, "varint", "SchedulesCount">> >>
Queue_UnmarshalVT ==
  << <<1, {2}, "message", "Id", "QueueId">>, <<2, {2}, "bytes", "Name">>,
    <<3, {2}, "bytes", "Description">>, <<4, {1}, "fixed64", "CreatedAt">>,
    <<5, {1}, "fixed64", "UpdatedAt">>, <<6, {0}, "varint", "Version">>,
    <<7, {0}, "varint", "KeepaliveTimeoutInSeconds">>,
    <<8, {2}, "message", "RetryStrategy", "RetryStrategy">>,
    <<9, {2}, "message", "DequeuingSettings", "DequeuingSettings">>,
    <<10, {2}, "message", "DeadLetterQueueConfig", "DeadLetterQueueConfig">>,
    <<11, {0}, "varint", "ExpiresInSeconds">>,
    <<12, {0}, "varint", "SchedulesCount">> >>

QueueId_Fields == [AccountId |-> Uint64, QueueId |-> Uint64]
QueueId_MarshalVT ==
  << <<\h11, "fixed64", "QueueId">>, <<\h09, "fixed64", "AccountId">> >>
QueueId_SizeVT ==
  << <<1, "fixed64", "AccountId">>, <<1, "fixed64", "QueueId">> >>
QueueId_UnmarshalVT ==
  << <<1, {1}, "fixed64", "AccountId">>, <<2, {1}, "fixed64", "QueueId">> >>

DeadLetterQueueConfig_Fields ==
  [Enable |-> Bool, MaxSize |-> Int64, RetentionPeriodInSeconds |-> Int64]
DeadLetterQueueConfig_MarshalVT ==
  << <<\h18, "varint", "RetentionPeriodInSeconds">>,
    <<\h10, "varint", "MaxSize">>, <<\h08, "bool", "Enable">> >>
DeadLetterQueueConfig_SizeVT ==
  << <<1, "bool", "Enable">>, <<1, "varint", "MaxSize">>,
    <<1, "varint", "RetentionPeriodInSeconds">> >>
DeadLetterQueueConfig_UnmarshalVT ==
  << <<1, {0}, "bool", "Enable">>, <<2, {0}, "varint", "MaxSize">>,
    <<3, {0}, "varint", "RetentionPeriodInSeconds">> >>

DequeuingSettings_Fields ==
  [MaxInProgressTasks |-> Int64,
    RateLimiting |-> One("TokenBucketRateLimiting"), DequeuingPaused |-> Bool]
DequeuingSettings_MarshalVT ==
  << <<\h18, "bool", "DequeuingPaused">>, <<\h12, "message", "RateLimiting">>,
    <<\h08, "varint", "MaxInProgressTasks">> >>
DequeuingSettings_SizeVT ==
  << <<1, "varint", "MaxInProgressTasks">>, <<1, "message", "RateLimiting">>,
    <<1, "bool", "DequeuingPaused">> >>
DequeuingSettings_UnmarshalVT ==
  << <<1, {0}, "varint", "MaxInProgressTasks">>,
    <<2, {2}, "message", "RateLimiting", "TokenBucketRateLimiting">>,
    <<3, {0}, "bool", "DequeuingPaused">> >>

TokenBucketRateLimiting_Fields ==
  [MaxTokens |-> Int64, Interval |-> Int64, IntervalUnit |-> Enum]
TokenBucketRateLimiting_MarshalVT ==
  << <<\h18, "varint", "IntervalUnit">>, <<\h10, "varint", "Interval">>,
    <<\h08, "varint", "MaxTokens">> >>
TokenBucketRateLimiting_SizeVT ==
  << <<1, "varint", "MaxTokens">>, <<1, "varint", "Interval">>,
    <<1, "varint", "IntervalUnit">> >>
TokenBucketRateLimiting_UnmarshalVT ==
  << <<1, {0}, "varint", "MaxTokens">>, <<2, {0}, "varint", "Interval">>,
    <<3, {0}, "varint", "IntervalUnit">> >>

Schedule_Fields ==
  [Id |-> One("ScheduleId"), Name |-> String, Description |-> String,
    CreatedAt |-> Int64, UpdatedAt |-> Int64, Version |-> Int64,
    Cron |-> String, Payload |-> Bytes, DedupeKey |-> String,
    ExpiresInSeconds |-> Int64, RetryStrategy |-> One("RetryStrategy"),
    Timezone |-> String, LastCheckedAt |-> Int64, NextScheduledAt |-> Int64,
    LastEnqueuedFor |-> Int64]
Schedule_MarshalVT ==
  << <<\h79, "fixed64", "LastEnqueuedFor">>,
    <<\h71, "fixed64", "NextScheduledAt">>,
    <<\h69, "fixed64", "LastCheckedAt">>, <<\h62, "bytes", "Timezone">>,
    <<\h5a, "message", "RetryStrategy">>,
    <<\h50, "varint", "ExpiresInSeconds">>, <<\h4a, "bytes", "DedupeKey">>,
    <<\h42, "bytes", "Payload">>, <<\h3a, "bytes", "Cron">>,
    <<\h30, "varint", "Version">>, <<\h29, "fixed64", "UpdatedAt">>,
    <<\h21, "fixed64", "CreatedAt">>, <<\h1a, "bytes", "Description">>,
    <<\h12, "bytes", "Name">>, <<\h0a, "message", "Id">> >>
Schedule_SizeVT ==
  << <<1, "message", "Id">>, <<1, "bytes", "Name">>,
    <<1, "bytes", "Description">>, <<1, "fixed64", "CreatedAt">>,
    <<1, "fixed64", "UpdatedAt">>, <<1, "varint", "Version">>,
    <<1, "bytes", "Cron">>, <<1, "bytes", "Payload">>,
    <<1, "bytes", "DedupeKey">>, <<1, "varint", "ExpiresInSeconds">>,
    <<1, "message", "RetryStrategy">>, <<1, "bytes", "Timezone">>,
    <<1, "fixed64", "LastCheckedAt">>, <<1, "fixed64", "NextScheduledAt">>,
    <<1, "fixed64", "LastEnqueuedFor">> >>
Schedule_UnmarshalVT ==
  << <<1, {2}, "message", "Id", "ScheduleId">>, <<2, {2}, "bytes", "Name">>,
    <<3, {2}, "bytes", "Description">>, <<4, {1}, "fixed64", "CreatedAt">>,
    <<5, {1}, "fixed64", "UpdatedAt">>, <<6, {0}, "varint", "Version">>,
    <<7, {2}, "bytes", "Cron">>, <<8, {2}, "bytes", "Payload">>,
    <<9, {2}, "bytes", "DedupeKey">>,
    <<10, {0}, "varint", "ExpiresInSeconds">>,
    <<11, {2}, "message", "RetryStrategy", "RetryStrategy">>,
    <<12, {2}, "bytes", "Timezone">>, <<13, {1}, "fixed64", "LastCheckedAt">>,
    <<14, {1}, "fixed64", "NextScheduledAt">>,
    <<15, {1}, "fixed64", "LastEnqueuedFor">> >>

ScheduleId_Fields ==
  [AccountId |-> Uint64, QueueId |-> Uint64, ScheduleId |-> Uint64]
ScheduleId_MarshalVT ==
  << <<\h19, "fixed64", "ScheduleId">>, <<\h11, "fixed64", "QueueId">>,
    <<\h09, "fixed64", "AccountId">> >>
ScheduleId_SizeVT ==
  << <<1, "fixed64", "AccountId">>, <<1, "fixed64", "QueueId">>,
    <<1, "fixed64", "ScheduleId">> >>
ScheduleId_UnmarshalVT ==
  << <<1, {1}, "fixed64", "AccountId">>, <<2, {1}, "fixed64", "QueueId">>,
    <<3, {1}, "fixed64", "ScheduleId">> >>

CreateQueueRequest_Fields ==
  [QueueId |-> One("QueueId"), Name |-> String, Description |-> String,
    KeepaliveTimeoutInSeconds |-> Int64,
    RetryStrategy |-> One("RetryStrategy"),
    DequeuingSettings |-> One("DequeuingSettings"),
    DeadLetterQueueConfig |-> One("DeadLetterQueueConfig"),
    ExpiresInSeconds |-> Int64, MaxNumberOfQueues |-> Int64]
CreateQueueRequest_MarshalVT ==
  << <<\h48, "varint", "MaxNumberOfQueues">>,
    <<\h40, "varint", "ExpiresInSeconds">>,
    <<\h3a, "message", "DeadLetterQueueConfig">>,
    <<\h32, "message", "DequeuingSettings">>,
    <<\h2a, "message", "RetryStrategy">>,
    <<\h20, "varint", "KeepaliveTimeoutInSeconds">>,
    <<\h1a, "bytes", "Description">>, <<\h12, "bytes", "Name">>,
    <<\h0a, "message", "QueueId">> >>
CreateQueueRequest_SizeVT ==
  << <<1, "message", "QueueId">>, <<1, "bytes", "Name">>,
    <<1, "bytes", "Description">>,
    <<1, "varint", "KeepaliveTimeoutInSeconds">>,
    <<1, "message", "RetryStrategy">>, <<1, "message", "DequeuingSettings">>,
    <<1, "message", "DeadLetterQueueConfig">>,
    <<1, "varint", "ExpiresInSeconds">>,
    <<1, "varint", "MaxNumberOfQueues">> >>
CreateQueueRequest_UnmarshalVT ==
  << <<1, {2}, "message", "QueueId", "QueueId">>, <<2, {2}, "bytes", "Name">>,
    <<3, {2}, "bytes", "Description">>,
    <<4, {0}, "varint", "KeepaliveTimeoutInSeconds">>,
    <<5, {2}, "message", "RetryStrategy", "RetryStrategy">>,
    <<6, {2}, "message", "DequeuingSettings", "DequeuingSettings">>,
    <<7, {2}, "message", "DeadLetterQueueConfig", "DeadLetterQueueConfig">>,
    <<8, {0}, "varint", "ExpiresInSeconds">>,
    <<9, {0}, "varint", "MaxNumberOfQueues">> >>

CreateQueueResponse_Fields == [Queue |-> One("Queue")]
CreateQueueResponse_MarshalVT == << <<\h0a, "message", "Queue">> >>
CreateQueueResponse_SizeVT == << <<1, "message", "Queue">> >>
CreateQueueResponse_UnmarshalVT ==
  << <<1, {2}, "message", "Queue", "Queue">> >>

GetQueueRequest_Fields == [QueueId |-> One("QueueId")]
GetQueueRequest_MarshalVT == << <<\h0a, "message", "QueueId">> >>
GetQueueRequest_SizeVT == << <<1, "message", "QueueId">> >>
GetQueueRequest_UnmarshalVT ==
  << <<1, {2}, "message", "QueueId", "QueueId">> >>

GetQueueResponse_Fields == [Queue |-> One("Queue")]
GetQueueResponse_MarshalVT == << <<\h0a, "message", "Queue">> >>
GetQueueResponse_SizeVT == << <<1, "message", "Queue">> >>
GetQueueResponse_UnmarshalVT == << <<1, {2}, "message", "Queue", "Queue">> >>

GetQueueByNameRequest_Fields == [AccountId |-> Uint64, QueueName |-> String]
GetQueueByNameRequest_MarshalVT ==
  << <<\h12, "bytes", "QueueName">>, <<\h09, "fixed64", "AccountId">> >>
GetQueueByNameRequest_SizeVT ==
  << <<1, "fixed64", "AccountId">>, <<1, "bytes", "QueueName">> >>
GetQueueByNameRequest_UnmarshalVT ==
  << <<1, {1}, "fixed64", "AccountId">>, <<2, {2}, "bytes", "QueueName">> >>

GetQueueByNameResponse_Fields == [Queue |-> One("Queue")]
GetQueueByNameResponse_MarshalVT == << <<\h0a, "message", "Queue">> >>
GetQueueByNameResponse_SizeVT == << <<1, "message", "Queue">> >>
GetQueueByNameResponse_UnmarshalVT ==
  << <<1, {2}, "message", "Queue", "Queue">> >>

UpdateQueueRequest_Fields ==
  [AccountId |-> Uint64, QueueName |-> String, Description |-> String,
    KeepaliveTimeoutInSeconds |-> Int64,
    RetryStrategy |-> One("RetryStrategy"),
    DequeuingSettings |-> One("DequeuingSettings"),
    DeadLetterQueueConfig |-> One("DeadLetterQueueConfig"),
    ExpiresInSeconds |-> Int64, ExpectedVersion |-> Int64]
UpdateQueueRequest_MarshalVT ==
  << <<\h48, "varint", "ExpectedVersion">>,
    <<\h40, "varint", "ExpiresInSeconds">>,
    <<\h3a, "message", "DeadLetterQueueConfig">>,
    <<\h32, "message", "DequeuingSettings">>,
    <<\h2a, "message", "RetryStrategy">>,
    <<\h20, "varint", "KeepaliveTimeoutInSeconds">>,
    <<\h1a, "bytes", "Description">>, <<\h12, "bytes", "QueueName">>,
    <<\h09, "fixed64", "AccountId">> >>
UpdateQueueRequest_SizeVT ==
  << <<1, "fixed64", "AccountId">>, <<1, "bytes", "QueueName">>,
    <<1, "bytes", "Description">>,
    <<1, "varint", "KeepaliveTimeoutInSeconds">>,
    <<1, "message", "RetryStrategy">>, <<1, "message", "DequeuingSettings">>,
    <<1, "message", "DeadLetterQueueConfig">>,
    <<1, "varint", "ExpiresInSeconds">>, <<1, "varint", "ExpectedVersion">> >>
UpdateQueueRequest_UnmarshalVT ==
  << <<1, {1}, "fixed64", "AccountId">>, <<2, {2}, "bytes", "QueueName">>,
    <<3, {2}, "bytes", "Description">>,
    <<4, {0}, "varint", "KeepaliveTimeoutInSeconds">>,
    <<5, {2}, "message", "RetryStrategy", "RetryStrategy">>,
    <<6, {2}, "message", "DequeuingSettings", "DequeuingSettings">>,
    <<7, {2}, "message", "DeadLetterQueueConfig", "DeadLetterQueueConfig">>,
    <<8, {0}, "varint", "ExpiresInSeconds">>,
    <<9, {0}, "varint", "ExpectedVersion">> >>

UpdateQueueResponse_Fields == [Queue |-> One("Queue")]
UpdateQueueResponse_MarshalVT == << <<\h0a, "message", "Queue">> >>
UpdateQueueResponse_SizeVT == << <<1, "message", "Queue">> >>
UpdateQueueResponse_UnmarshalVT ==
  << <<1, {2}, "message", "Queue", "Queue">> >>

DeleteQueueRequest_Fields == [AccountId |-> Uint64, QueueName |-> String]
DeleteQueueRequest_MarshalVT ==
  << <<\h12, "bytes", "QueueName">>, <<\h09, "fixed64", "AccountId">> >>
DeleteQueueRequest_SizeVT ==
  << <<1, "fixed64", "AccountId">>, <<1, "bytes", "QueueName">> >>
DeleteQueueRequest_UnmarshalVT ==
  << <<1, {1}, "fixed64", "AccountId">>, <<2, {2}, "bytes", "QueueName">> >>

DeleteQueueResponse_Fields == [QueueId |-> One("QueueId")]
DeleteQueueResponse_MarshalVT == << <<\h0a, "message", "QueueId">> >>
DeleteQueueResponse_SizeVT == << <<1, "message", "QueueId">> >>
DeleteQueueResponse_UnmarshalVT ==
  << <<1, {2}, "message", "QueueId", "QueueId">> >>

SwapQueueIdRequest_Fields ==
  [AccountId |-> Uint64, QueueName |-> String, NewQueueId |-> Uint64]
SwapQueueIdRequest_MarshalVT ==
  << <<\h19, "fixed64", "NewQueueId">>, <<\h12, "bytes", "QueueName">>,
    <<\h09, "fixed64", "AccountId">> >>
SwapQueueIdRequest_SizeVT ==
  << <<1, "fixed64", "AccountId">>, <<1, "bytes", "QueueName">>,
    <<1, "fixed64", "NewQueueId">> >>
SwapQueueIdRequest_UnmarshalVT ==
  << <<1, {1}, "fixed64", "AccountId">>, <<2, {2}, "bytes", "QueueName">>,
    <<3, {1}, "fixed64", "NewQueueId">> >>

SwapQueueIdResponse_Fields ==
  [Queue |-> One("Queue"), OldQueueId |-> One("QueueId")]
SwapQueueIdResponse_MarshalVT ==
  << <<\h12, "message", "OldQueueId">>, <<\h0a, "message", "Queue">> >>
SwapQueueIdResponse_SizeVT ==
  << <<1, "message", "Queue">>, <<1, "message", "OldQueueId">> >>
SwapQueueIdResponse_UnmarshalVT ==
  << <<1, {2}, "message", "Queue", "Queue">>,
    <<2, {2}, "message", "OldQueueId", "QueueId">> >>

ListQueuesRequest_Fields ==
  [AccountId |-> Uint64, PaginationToken |-> One("PaginationToken"),
    Limit |-> Int32]
ListQueuesRequest_MarshalVT ==
  << <<\h18, "varint", "Limit">>, <<\h12, "message", "PaginationToken">>,
    <<\h09, "fixed64", "AccountId">> >>
ListQueuesRequest_SizeVT ==
  << <<1, "fixed64", "AccountId">>, <<1, "message", "PaginationToken">>,
    <<1, "varint", "Limit">> >>
ListQueuesRequest_UnmarshalVT ==
  << <<1, {1}, "fixed64", "AccountId">>,
    <<2, {2}, "message", "PaginationToken", "PaginationToken">>,
    <<3, {0}, "varint", "Limit">> >>

ListQueuesResponse_Fields ==
  [Queues |-> Many("Queue"), NextPaginationToken |-> One("PaginationToken"),
    PreviousPaginationToken |-> One("PaginationToken")]
ListQueuesResponse_MarshalVT ==
  << <<\h1a, "message", "PreviousPaginationToken">>,
    <<\h12, "message", "NextPaginationToken">>,
    <<\h0a, "messages", "Queues">> >>
ListQueuesResponse_SizeVT ==
  << <<1, "messages", "Queues">>, <<1, "message", "NextPaginationToken">>,
    <<1, "message", "PreviousPaginationToken">> >>
ListQueuesResponse_UnmarshalVT ==
  << <<1, {2}, "messages", "Queues", "Queue">>,
    <<2, {2}, "message", "NextPaginationToken", "PaginationToken">>,
    <<3, {2}, "message", "PreviousPaginationToken", "PaginationToken">> >>

CreateScheduleRequest_Fields ==
  [AccountId |-> Uint64, QueueName |-> String, ScheduleId |-> Uint64,
    ScheduleName |-> String, Description |-> String, Cron |-> String,
    Payload |-> Bytes, DedupeKey |-> String, ExpiresInSeconds |-> Int64,
    RetryStrategy |-> One("RetryStrategy"), Timezone |-> String,
    MaxNumberOfSchedulesPerQueue |-> Int64]
CreateScheduleRequest_MarshalVT ==
  << <<\h60, "varint", "MaxNumberOfSchedulesPerQueue">>,
    <<\h5a, "bytes", "Timezone">>, <<\h52, "message", "RetryStrategy">>,
    <<\h48, "varint", "ExpiresInSeconds">>, <<\h42, "bytes", "DedupeKey">>,
    <<\h3a, "bytes", "Payload">>, <<\h32, "bytes", "Cron">>,
    <<\h2a, "bytes", "Description">>, <<\h22, "bytes", "ScheduleName">>,
    <<\h19, "fixed64", "ScheduleId">>, <<\h12, "bytes", "QueueName">>,
    <<\h09, "fixed64", "AccountId">> >>
CreateScheduleRequest_SizeVT ==
  << <<1, "fixed64", "AccountId">>, <<1, "bytes", "QueueName">>,
    <<1, "fixed64", "ScheduleId">>, <<1, "bytes", "ScheduleName">>,
    <<1, "bytes", "Description">>, <<1, "bytes", "Cron">>,
    <<1, "bytes", "Payload">>, <<1, "bytes", "DedupeKey">>,
    <<1, "varint", "ExpiresInSeconds">>, <<1, "message", "RetryStrategy">>,
    <<1, "bytes", "Timezone">>,
    <<1, "varint", "MaxNumberOfSchedulesPerQueue">> >>
CreateScheduleRequest_UnmarshalVT ==
  << <<1, {1}, "fixed64", "AccountId">>, <<2, {2}, "bytes", "QueueName">>,
    <<3, {1}, "fixed64", "ScheduleId">>, <<4, {2}, "bytes", "ScheduleName">>,
    <<5, {2}, "bytes", "Description">>, <<6, {2}, "bytes", "Cron">>,
    <<7, {2}, "bytes", "Payload">>, <<8, {2}, "bytes", "DedupeKey">>,
    <<9, {0}, "varint", "ExpiresInSeconds">>,
    <<10, {2}, "message", "RetryStrategy", "RetryStrategy">>,
    <<11, {2}, "bytes", "Timezone">>,
    <<12, {0}, "varint", "MaxNumberOfSchedulesPerQueue">> >>

CreateScheduleResponse_Fields == [Schedule |-> One("Schedule")]
CreateScheduleResponse_MarshalVT == << <<\h0a, "message", "Schedule">> >>
CreateScheduleResponse_SizeVT == << <<1, "message", "Schedule">> >>
CreateScheduleResponse_UnmarshalVT ==
  << <<1, {2}, "message", "Schedule", "Schedule">> >>

GetScheduleRequest_Fields ==
  [AccountId |-> Uint64, QueueName |-> String, ScheduleName |-> String]
GetScheduleRequest_MarshalVT ==
  << <<\h1a, "bytes", "ScheduleName">>, <<\h12, "bytes", "QueueName">>,
    <<\h09, "fixed64", "AccountId">> >>
GetScheduleRequest_SizeVT ==
  << <<1, "fixed64", "AccountId">>, <<1, "bytes", "QueueName">>,
    <<1, "bytes", "ScheduleName">> >>
GetScheduleRequest_UnmarshalVT ==
  << <<1, {1}, "fixed64", "AccountId">>, <<2, {2}, "bytes", "QueueName">>,
    <<3, {2}, "bytes", "ScheduleName">> >>

GetScheduleResponse_Fields == [Schedule |-> One("Schedule")]
GetScheduleResponse_MarshalVT == << <<\h0a, "message", "Schedule">> >>
GetScheduleResponse_SizeVT == << <<1, "message", "Schedule">> >>
GetScheduleResponse_UnmarshalVT ==
  << <<1, {2}, "message", "Schedule", "Schedule">> >>

ListSchedulesRequest_Fields ==
  [QueueId |-> One("QueueId"), PaginationToken |-> One("PaginationToken"),
    Limit |-> Int32]
ListSchedulesRequest_MarshalVT ==
  << <<\h18, "varint", "Limit">>, <<\h12, "message", "PaginationToken">>,
    <<\h0a, "message", "QueueId">> >>
ListSchedulesRequest_SizeVT ==
  << <<1, "message", "QueueId">>, <<1, "message", "PaginationToken">>,
    <<1, "varint", "Limit">> >>
ListSchedulesRequest_UnmarshalVT ==
  << <<1, {2}, "message", "QueueId", "QueueId">>,
    <<2, {2}, "message", "PaginationToken", "PaginationToken">>,
    <<3, {0}, "varint", "Limit">> >>

ListSchedulesResponse_Fields ==
  [Schedules |-> Many("Schedule"),
    NextPaginationToken |-> One("PaginationToken"),
    PreviousPaginationToken |-> One("PaginationToken")]
ListSchedulesResponse_MarshalVT ==
  << <<\h1a, "message", "PreviousPaginationToken">>,
    <<\h12, "message", "NextPaginationToken">>,
    <<\h0a, "messages", "Schedules">> >>
ListSchedulesResponse_SizeVT ==
  << <<1, "messages", "Schedules">>, <<1, "message", "NextPaginationToken">>,
    <<1, "message", "PreviousPaginationToken">> >>
ListSchedulesResponse_UnmarshalVT ==
  << <<1, {2}, "messages", "Schedules", "Schedule">>,
    <<2, {2}, "message", "NextPaginationToken", "PaginationToken">>,
    <<3, {2}, "message", "PreviousPaginationToken", "PaginationToken">> >>

UpdateScheduleRequest_Fields ==
  [AccountId |-> Uint64, QueueName |-> String, ScheduleName |-> String,
    Description |-> String, Cron |-> String, Payload |-> Bytes,
    DedupeKey |-> String, ExpiresInSeconds |-> Int64,
    RetryStrategy |-> One("RetryStrategy"), Timezone |-> String,
    ExpectedVersion |-> Int64]
UpdateScheduleRequest_MarshalVT ==
  << <<\h58, "varint", "ExpectedVersion">>, <<\h52, "bytes", "Timezone">>,
    <<\h4a, "message", "RetryStrategy">>,
    <<\h40, "varint", "ExpiresInSeconds">>, <<\h3a, "bytes", "DedupeKey">>,
    <<\h32, "bytes", "Payload">>, <<\h2a, "bytes", "Cron">>,
    <<\h22, "bytes", "Description">>, <<\h1a, "bytes", "ScheduleName">>,
    <<\h12, "bytes", "QueueName">>, <<\h09, "fixed64", "AccountId">> >>
UpdateScheduleRequest_SizeVT ==
  << <<1, "fixed64", "AccountId">>, <<1, "bytes", "QueueName">>,
    <<1, "bytes", "ScheduleName">>, <<1, "bytes", "Description">>,
    <<1, "bytes", "Cron">>, <<1, "bytes", "Payload">>,
    <<1, "bytes", "DedupeKey">>, <<1, "varint", "ExpiresInSeconds">>,
    <<1, "message", "RetryStrategy">>, <<1, "bytes", "Timezone">>,
    <<1, "varint", "ExpectedVersion">> >>
UpdateScheduleRequest_UnmarshalVT ==
  << <<1, {1}, "fixed64", "AccountId">>, <<2, {2}, "bytes", "QueueName">>,
    <<3, {2}, "bytes", "ScheduleName">>, <<4, {2}, "bytes", "Description">>,
    <<5, {2}, "bytes", "Cron">>, <<6, {2}, "bytes", "Payload">>,
    <<7, {2}, "bytes", "DedupeKey">>,
    <<8, {0}, "varint", "ExpiresInSeconds">>,
    <<9, {2}, "message", "RetryStrategy", "RetryStrategy">>,
    <<10, {2}, "bytes", "Timezone">>,
    <<11, {0}, "varint", "ExpectedVersion">> >>

UpdateScheduleResponse_Fields == [Schedule |-> One("Schedule")]
UpdateScheduleResponse_MarshalVT == << <<\h0a, "message", "Schedule">> >>
UpdateScheduleResponse_SizeVT == << <<1, "message", "Schedule">> >>
UpdateScheduleResponse_UnmarshalVT ==
  << <<1, {2}, "message", "Schedule", "Schedule">> >>

DeleteScheduleRequest_Fields ==
  [AccountId |-> Uint64, QueueName |-> String, ScheduleName |-> String]
DeleteScheduleRequest_MarshalVT ==
  << <<\h1a, "bytes", "ScheduleName">>, <<\h12, "bytes", "QueueName">>,
    <<\h09, "fixed64", "AccountId">> >>
DeleteScheduleRequest_SizeVT ==
  << <<1, "fixed64", "AccountId">>, <<1, "bytes", "QueueName">>,
    <<1, "bytes", "ScheduleName">> >>
DeleteScheduleRequest_UnmarshalVT ==
  << <<1, {1}, "fixed64", "AccountId">>, <<2, {2}, "bytes", "QueueName">>,
    <<3, {2}, "bytes", "ScheduleName">> >>

DeleteScheduleResponse_Fields == NoFields
DeleteScheduleResponse_MarshalVT == <<  >>
DeleteScheduleResponse_SizeVT == <<  >>
DeleteScheduleResponse_UnmarshalVT == <<  >>

DequeSchedulesRequest_Fields == [DueBefore |-> Int64]
DequeSchedulesRequest_MarshalVT == << <<\h08, "varint", "DueBefore">> >>
DequeSchedulesRequest_SizeVT == << <<1, "varint", "DueBefore">> >>
DequeSchedulesRequest_UnmarshalVT == << <<1, {0}, "varint", "DueBefore">> >>

DequeSchedulesResponse_Fields ==
  [Entries |-> Many("DequeSchedulesResponseEntry")]
DequeSchedulesResponse_MarshalVT == << <<\h0a, "messages", "Entries">> >>
DequeSchedulesResponse_SizeVT == << <<1, "messages", "Entries">> >>
DequeSchedulesResponse_UnmarshalVT ==
  << <<1, {2}, "messages", "Entries", "DequeSchedulesResponseEntry">> >>

DequeSchedulesResponseEntry_Fields ==
  [Schedule |-> One("Schedule"), Queue |-> One("Queue")]
DequeSchedulesResponseEntry_MarshalVT ==
  << <<\h12, "message", "Queue">>, <<\h0a, "message", "Schedule">> >>
DequeSchedulesResponseEntry_SizeVT ==
  << <<1, "message", "Schedule">>, <<1, "message", "Queue">> >>
DequeSchedulesResponseEntry_UnmarshalVT ==
  << <<1, {2}, "message", "Schedule", "Schedule">>,
    <<2, {2}, "message", "Queue", "Queue">> >>

ReportSchedulesStatusRequest_Fields ==
  [ScheduleId |-> One("ScheduleId"), NextScheduledAt |-> Int64,
    LastEnqueuedFor |-> Int64]
ReportSchedulesStatusRequest_MarshalVT ==
  << <<\h19, "fixed64", "LastEnqueuedFor">>,
    <<\h11, "fixed64", "NextScheduledAt">>,
    <<\h0a, "message", "ScheduleId">> >>
ReportSchedulesStatusRequest_SizeVT ==
  << <<1, "message", "ScheduleId">>, <<1, "fixed64", "NextScheduledAt">>,
    <<1, "fixed64", "LastEnqueuedFor">> >>
ReportSchedulesStatusRequest_UnmarshalVT ==
  << <<1, {2}, "message", "ScheduleId", "ScheduleId">>,
    <<2, {1}, "fixed64", "NextScheduledAt">>,
    <<3, {1}, "fixed64", "LastEnqueuedFor">> >>

ReportSchedulesStatusResponse_Fields == NoFields
ReportSchedulesStatusResponse_MarshalVT == <<  >>
ReportSchedulesStatusResponse_SizeVT == <<  >>
ReportSchedulesStatusResponse_UnmarshalVT == <<  >>

QueuesCounter_Fields == [NumberOfQueues |-> Int64]
QueuesCounter_MarshalVT == << <<\h08, "varint", "NumberOfQueues">> >>
QueuesCounter_SizeVT == << <<1, "varint", "NumberOfQueues">> >>
QueuesCounter_UnmarshalVT == << <<1, {0}, "varint", "NumberOfQueues">> >>

QueuesGarbageCollectionRecord_Fields == [QueueId |-> One("QueueId")]
QueuesGarbageCollectionRecord_MarshalVT ==
  << <<\h0a, "message", "QueueId">> >>
QueuesGarbageCollectionRecord_SizeVT == << <<1, "message", "QueueId">> >>
QueuesGarbageCollectionRecord_UnmarshalVT ==
  << <<1, {2}, "message", "QueueId", "QueueId">> >>

RunQueuesGarbageCollectionRequest_Fields ==
  [GcRecordsPageSize |-> Int32, GcRecordSchedulesPageSize |-> Int32,
    MaxVisitedSchedules |-> Int32]
RunQueuesGarbageCollectionRequest_MarshalVT ==
  << <<\h18, "varint", "MaxVisitedSchedules">>,
    <<\h10, "varint", "GcRecordSchedulesPageSize">>,
    <<\h08, "varint", "GcRecordsPageSize">> >>
RunQueuesGarbageCollectionRequest_SizeVT ==
  << <<1, "varint", "GcRecordsPageSize">>,
    <<1, "varint", "GcRecordSchedulesPageSize">>,
    <<1, "varint", "MaxVisitedSchedules">> >>
RunQueuesGarbageCollectionRequest_UnmarshalVT ==
  << <<1, {0}, "varint", "GcRecordsPageSize">>,
    <<2, {0}, "varint", "GcRecordSchedulesPageSize">>,
    <<3, {0}, "varint", "MaxVisitedSchedules">> >>

RunQueuesGarbageCollectionResponse_Fields == NoFields
RunQueuesGarbageCollectionResponse_MarshalVT == <<  >>
RunQueuesGarbageCollectionResponse_SizeVT == <<  >>
RunQueuesGarbageCollectionResponse_UnmarshalVT == <<  >>

=============================================================================
