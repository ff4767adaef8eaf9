------------------------------ MODULE CoreApis ------------------------------
(*************************************************************************)
(* The generated code of pkg/coreapis between a caller and a core, as    *)
(* one record for every function or case of a switch:                    *)
(*                                                                       *)
(* X_Stub          MoabMonsteraStub.X: the application and the call of   *)
(*                 the Monstera client (Read and Update route by the     *)
(*                 shard key, ReadShard and UpdateShard by a shard id),  *)
(*                 the method number, the messages                       *)
(* App_Kind_N      case N of the adapter's Update or Read: the request   *)
(*                 it decodes, whether checkShardBounds is called, the   *)
(*                 method of the core                                    *)
(* X_Nonclustered  MoabNonclusteredStub.X: whether the adapter is found  *)
(*                 by shard key, the lock, the method of the core        *)
(*************************************************************************)

GetQueue_Stub ==
  [app |-> "MoabQueues", call |-> "Read", number |-> 1,
   request |-> "GetQueueRequest", response |-> "GetQueueResponse"]
GetQueueByName_Stub ==
  [app |-> "MoabQueues", call |-> "Read", number |-> 2,
   request |-> "GetQueueByNameRequest", response |-> "GetQueueByNameResponse"]
ListQueues_Stub ==
  [app |-> "MoabQueues", call |-> "Read", number |-> 3,
   request |-> "ListQueuesRequest", response |-> "ListQueuesResponse"]
GetSchedule_Stub ==
  [app |-> "MoabQueues", call |-> "Read", number |-> 4,
   request |-> "GetScheduleRequest", response |-> "GetScheduleResponse"]
DequeSchedules_Stub ==
  [app |-> "MoabQueues", call |-> "ReadShard", number |-> 5,
   request |-> "DequeSchedulesRequest", response |-> "DequeSchedulesResponse"]
ListSchedules_Stub ==
  [app |-> "MoabQueues", call |-> "Read", number |-> 6,
   request |-> "ListSchedulesRequest", response |-> "ListSchedulesResponse"]
CreateQueue_Stub ==
  [app |-> "MoabQueues", call |-> "Update", number |-> 1,
   request |-> "CreateQueueRequest", response |-> "CreateQueueResponse"]
UpdateQueue_Stub ==
  [app |-> "MoabQueues", call |-> "Update", number |-> 2,
   request |-> "UpdateQueueRequest", response |-> "UpdateQueueResponse"]
DeleteQueue_Stub ==
  [app |-> "MoabQueues", call |-> "Update", number |-> 3,
   request |-> "DeleteQueueRequest", response |-> "DeleteQueueResponse"]
CreateSchedule_Stub ==
  [app |-> "MoabQueues", call |-> "Update", number |-> 4,
   request |-> "CreateScheduleRequest", response |-> "CreateScheduleResponse"]
UpdateSchedule_Stub ==
  [app |-> "MoabQueues", call |-> "Update", number |-> 5,
   request |-> "UpdateScheduleRequest", response |-> "UpdateScheduleResponse"]
(* Mutant of DeleteSchedule_Stub: the method number of DeleteQueue. *)
DeleteSchedule_Stub3 ==
  [app |-> "MoabQueues", call |-> "Update", number |-> 3,
   request |-> "DeleteScheduleRequest", response |-> "DeleteScheduleResponse"]
DeleteSchedule_Stub ==
  [app |-> "MoabQueues", call |-> "Update", number |-> 6,
   request |-> "DeleteScheduleRequest", response |-> "DeleteScheduleResponse"]
ReportSchedulesStatus_Stub ==
  [app |-> "MoabQueues", call |-> "UpdateShard", number |-> 7,
   request |-> "ReportSchedulesStatusRequest",
   response |-> "ReportSchedulesStatusResponse"]
RunQueuesGarbageCollection_Stub ==
  [app |-> "MoabQueues", call |-> "UpdateShard", number |-> 8,
   request |-> "RunQueuesGarbageCollectionRequest",
   response |-> "RunQueuesGarbageCollectionResponse"]
SwapQueueId_Stub ==
  [app |-> "MoabQueues", call |-> "Update", number |-> 9,
   request |-> "SwapQueueIdRequest", response |-> "SwapQueueIdResponse"]
GetTask_Stub ==
  [app |-> "MoabTasks", call |-> "Read", number |-> 1,
   request |-> "GetTaskRequest", response |-> "GetTaskResponse"]
GetStatistics_Stub ==
  [app |-> "MoabTasks", call |-> "Read", number |-> 2,
   request |-> "GetStatisticsRequest", response |-> "GetStatisticsResponse"]
ListTasks_Stub ==
  [app |-> "MoabTasks", call |-> "Read", number |-> 3,
   request |-> "ListTasksRequest", response |-> "ListTasksResponse"]
Enqueue_Stub ==
  [app |-> "MoabTasks", call |-> "Update", number |-> 1,
   request |-> "EnqueueRequest", response |-> "EnqueueResponse"]
Dequeue_Stub ==
  [app |-> "MoabTasks", call |-> "Update", number |-> 2,
   request |-> "DequeueRequest", response |-> "DequeueResponse"]
ReportStatus_Stub ==
  [app |-> "MoabTasks", call |-> "Update", number |-> 3,
   request |-> "ReportStatusRequest", response |-> "ReportStatusResponse"]
DeleteTasks_Stub ==
  [app |-> "MoabTasks", call |-> "Update", number |-> 4,
   request |-> "DeleteTasksRequest", response |-> "DeleteTasksResponse"]
RestartTasks_Stub ==
  [app |-> "MoabTasks", call |-> "Update", number |-> 5,
   request |-> "RestartTasksRequest", response |-> "RestartTasksResponse"]
PurgeQueue_Stub ==
  [app |-> "MoabTasks", call |-> "Update", number |-> 6,
   request |-> "PurgeQueueRequest", response |-> "PurgeQueueResponse"]
RunTasksGarbageCollection_Stub ==
  [app |-> "MoabTasks", call |-> "UpdateShard", number |-> 7,
   request |-> "RunTasksGarbageCollectionRequest",
   response |-> "RunTasksGarbageCollectionResponse"]
RunPurgeQueueGarbageCollection_Stub ==
  [app |-> "MoabTasks", call |-> "UpdateShard", number |-> 8,
   request |-> "RunPurgeQueueGarbageCollectionRequest",
   response |-> "RunPurgeQueueGarbageCollectionResponse"]

MoabQueues_Update_1 ==
  [request |-> "CreateQueueRequest", bounds |-> TRUE, runs |-> "CreateQueue"]
MoabQueues_Update_2 ==
  [request |-> "UpdateQueueRequest", bounds |-> TRUE, runs |-> "UpdateQueue"]
MoabQueues_Update_3 ==
  [request |-> "DeleteQueueRequest", bounds |-> TRUE, runs |-> "DeleteQueue"]
MoabQueues_Update_4 ==
  [request |-> "CreateScheduleRequest", bounds |-> TRUE,
   runs |-> "CreateSchedule"]
MoabQueues_Update_5 ==
  [request |-> "UpdateScheduleRequest", bounds |-> TRUE,
   runs |-> "UpdateSchedule"]
MoabQueues_Update_6 ==
  [request |-> "DeleteScheduleRequest", bounds |-> TRUE,
   runs |-> "DeleteSchedule"]
MoabQueues_Update_7 ==
  [request |-> "ReportSchedulesStatusRequest", bounds |-> FALSE,
   runs |-> "ReportSchedulesStatus"]
MoabQueues_Update_8 ==
  [request |-> "RunQueuesGarbageCollectionRequest", bounds |-> FALSE,
   runs |-> "RunQueuesGarbageCollection"]
MoabQueues_Update_9 ==
  [request |-> "SwapQueueIdRequest", bounds |-> TRUE, runs |-> "SwapQueueId"]
MoabQueues_Read_1 ==
  [request |-> "GetQueueRequest", bounds |-> TRUE, runs |-> "GetQueue"]
MoabQueues_Read_2 ==
  [request |-> "GetQueueByNameRequest", bounds |-> TRUE,
   runs |-> "GetQueueByName"]
MoabQueues_Read_3 ==
  [request |-> "ListQueuesRequest", bounds |-> TRUE, runs |-> "ListQueues"]
MoabQueues_Read_4 ==
  [request |-> "GetScheduleRequest", bounds |-> TRUE, runs |-> "GetSchedule"]
MoabQueues_Read_5 ==
  [request |-> "DequeSchedulesRequest", bounds |-> FALSE,
   runs |-> "DequeSchedules"]
MoabQueues_Read_6 ==
  [request |-> "ListSchedulesRequest", bounds |-> TRUE,
   runs |-> "ListSchedules"]
MoabTasks_Update_1 ==
  [request |-> "EnqueueRequest", bounds |-> TRUE, runs |-> "Enqueue"]
MoabTasks_Update_2 ==
  [request |-> "DequeueRequest", bounds |-> TRUE, runs |-> "Dequeue"]
MoabTasks_Update_3 ==
  [request |-> "ReportStatusRequest", bounds |-> TRUE,
   runs |-> "ReportStatus"]
MoabTasks_Update_4 ==
  [request |-> "DeleteTasksRequest", bounds |-> TRUE, runs |-> "DeleteTasks"]
MoabTasks_Update_5 ==
  [request |-> "RestartTasksRequest", bounds |-> TRUE,
   runs |-> "RestartTasks"]
MoabTasks_Update_6 ==
  [request |-> "PurgeQueueRequest", bounds |-> TRUE, runs |-> "PurgeQueue"]
MoabTasks_Update_7 ==
  [request |-> "RunTasksGarbageCollectionRequest", bounds |-> FALSE,
   runs |-> "RunTasksGarbageCollection"]
MoabTasks_Update_8 ==
  [request |-> "RunPurgeQueueGarbageCollectionRequest", bounds |-> FALSE,
   runs |-> "RunPurgeQueueGarbageCollection"]
MoabTasks_Read_1 ==
  [request |-> "GetTaskRequest", bounds |-> TRUE, runs |-> "GetTask"]
MoabTasks_Read_2 ==
  [request |-> "GetStatisticsRequest", bounds |-> TRUE,
   runs |-> "GetStatistics"]
MoabTasks_Read_3 ==
  [request |-> "ListTasksRequest", bounds |-> TRUE, runs |-> "ListTasks"]

GetQueue_Nonclustered ==
  [app |-> "MoabQueues", byKey |-> TRUE, lock |-> "RLock",
   runs |-> "GetQueue"]
GetQueueByName_Nonclustered ==
  [app |-> "MoabQueues", byKey |-> TRUE, lock |-> "RLock",
   runs |-> "GetQueueByName"]
ListQueues_Nonclustered ==
  [app |-> "MoabQueues", byKey |-> TRUE, lock |-> "RLock",
   runs |-> "ListQueues"]
GetSchedule_Nonclustered ==
  [app |-> "MoabQueues", byKey |-> TRUE, lock |-> "RLock",
   runs |-> "GetSchedule"]
DequeSchedules_Nonclustered ==
  [app |-> "MoabQueues", byKey |-> FALSE, lock |-> "RLock",
   runs |-> "DequeSchedules"]
ListSchedules_Nonclustered ==
  [app |-> "MoabQueues", byKey |-> TRUE, lock |-> "RLock",
   runs |-> "ListSchedules"]
CreateQueue_Nonclustered ==
  [app |-> "MoabQueues", byKey |-> TRUE, lock |-> "Lock",
   runs |-> "CreateQueue"]
UpdateQueue_Nonclustered ==
  [app |-> "MoabQueues", byKey |-> TRUE, lock |-> "Lock",
   runs |-> "UpdateQueue"]
DeleteQueue_Nonclustered ==
  [app |-> "MoabQueues", byKey |-> TRUE, lock |-> "Lock",
   runs |-> "DeleteQueue"]
CreateSchedule_Nonclustered ==
  [app |-> "MoabQueues", byKey |-> TRUE, lock |-> "Lock",
   runs |-> "CreateSchedule"]
UpdateSchedule_Nonclustered ==
  [app |-> "MoabQueues", byKey |-> TRUE, lock |-> "Lock",
   runs |-> "UpdateSchedule"]
DeleteSchedule_Nonclustered ==
  [app |-> "MoabQueues", byKey |-> TRUE, lock |-> "Lock",
   runs |-> "DeleteSchedule"]
ReportSchedulesStatus_Nonclustered ==
  [app |-> "MoabQueues", byKey |-> FALSE, lock |-> "Lock",
   runs |-> "ReportSchedulesStatus"]
RunQueuesGarbageCollection_Nonclustered ==
  [app |-> "MoabQueues", byKey |-> FALSE, lock |-> "Lock",
   runs |-> "RunQueuesGarbageCollection"]
SwapQueueId_Nonclustered ==
  [app |-> "MoabQueues", byKey |-> TRUE, lock |-> "Lock",
   runs |-> "SwapQueueId"]
GetTask_Nonclustered ==
  [app |-> "MoabTasks", byKey |-> TRUE, lock |-> "RLock", runs |-> "GetTask"]
GetStatistics_Nonclustered ==
  [app |-> "MoabTasks", byKey |-> TRUE, lock |-> "RLock",
   runs |-> "GetStatistics"]
ListTasks_Nonclustered ==
  [app |-> "MoabTasks", byKey |-> TRUE, lock |-> "RLock",
   runs |-> "ListTasks"]
Enqueue_Nonclustered ==
  [app |-> "MoabTasks", byKey |-> TRUE, lock |-> "Lock", runs |-> "Enqueue"]
Dequeue_Nonclustered ==
  [app |-> "MoabTasks", byKey |-> TRUE, lock |-> "Lock", runs |-> "Dequeue"]
ReportStatus_Nonclustered ==
  [app |-> "MoabTasks", byKey |-> TRUE, lock |-> "Lock",
   runs |-> "ReportStatus"]
DeleteTasks_Nonclustered ==
  [app |-> "MoabTasks", byKey |-> TRUE, lock |-> "Lock",
   runs |-> "DeleteTasks"]
RestartTasks_Nonclustered ==
  [app |-> "MoabTasks", byKey |-> TRUE, lock |-> "Lock",
   runs |-> "RestartTasks"]
PurgeQueue_Nonclustered ==
  [app |-> "MoabTasks", byKey |-> TRUE, lock |-> "Lock",
   runs |-> "PurgeQueue"]
RunTasksGarbageCollection_Nonclustered ==
  [app |-> "MoabTasks", byKey |-> FALSE, lock |-> "Lock",
   runs |-> "RunTasksGarbageCollection"]
RunPurgeQueueGarbageCollection_Nonclustered ==
  [app |-> "MoabTasks", byKey |-> FALSE, lock |-> "Lock",
   runs |-> "RunPurgeQueueGarbageCollection"]

Stub ==
  [GetQueue |-> GetQueue_Stub, GetQueueByName |-> GetQueueByName_Stub,
   ListQueues |-> ListQueues_Stub, GetSchedule |-> GetSchedule_Stub,
   DequeSchedules |-> DequeSchedules_Stub,
   ListSchedules |-> ListSchedules_Stub, CreateQueue |-> CreateQueue_Stub,
   UpdateQueue |-> UpdateQueue_Stub, DeleteQueue |-> DeleteQueue_Stub,
   CreateSchedule |-> CreateSchedule_Stub,
   UpdateSchedule |-> UpdateSchedule_Stub,
   DeleteSchedule |-> DeleteSchedule_Stub,
   ReportSchedulesStatus |-> ReportSchedulesStatus_Stub,
   RunQueuesGarbageCollection |-> RunQueuesGarbageCollection_Stub,
   SwapQueueId |-> SwapQueueId_Stub, GetTask |-> GetTask_Stub,
   GetStatistics |-> GetStatistics_Stub, ListTasks |-> ListTasks_Stub,
   Enqueue |-> Enqueue_Stub, Dequeue |-> Dequeue_Stub,
   ReportStatus |-> ReportStatus_Stub, DeleteTasks |-> DeleteTasks_Stub,
   RestartTasks |-> RestartTasks_Stub, PurgeQueue |-> PurgeQueue_Stub,
   RunTasksGarbageCollection |-> RunTasksGarbageCollection_Stub,
   RunPurgeQueueGarbageCollection |-> RunPurgeQueueGarbageCollection_Stub]

Nonclustered ==
  [GetQueue |-> GetQueue_Nonclustered,
   GetQueueByName |-> GetQueueByName_Nonclustered,
   ListQueues |-> ListQueues_Nonclustered,
   GetSchedule |-> GetSchedule_Nonclustered,
   DequeSchedules |-> DequeSchedules_Nonclustered,
   ListSchedules |-> ListSchedules_Nonclustered,
   CreateQueue |-> CreateQueue_Nonclustered,
   UpdateQueue |-> UpdateQueue_Nonclustered,
   DeleteQueue |-> DeleteQueue_Nonclustered,
   CreateSchedule |-> CreateSchedule_Nonclustered,
   UpdateSchedule |-> UpdateSchedule_Nonclustered,
   DeleteSchedule |-> DeleteSchedule_Nonclustered,
   ReportSchedulesStatus |-> ReportSchedulesStatus_Nonclustered,
   RunQueuesGarbageCollection |-> RunQueuesGarbageCollection_Nonclustered,
   SwapQueueId |-> SwapQueueId_Nonclustered, GetTask |-> GetTask_Nonclustered,
   GetStatistics |-> GetStatistics_Nonclustered,
   ListTasks |-> ListTasks_Nonclustered, Enqueue |-> Enqueue_Nonclustered,
   Dequeue |-> Dequeue_Nonclustered,
   ReportStatus |-> ReportStatus_Nonclustered,
   DeleteTasks |-> DeleteTasks_Nonclustered,
   RestartTasks |-> RestartTasks_Nonclustered,
   PurgeQueue |-> PurgeQueue_Nonclustered,
   RunTasksGarbageCollection |-> RunTasksGarbageCollection_Nonclustered,
   RunPurgeQueueGarbageCollection |-> RunPurgeQueueGarbageCollection_Nonclustered]

(* The four switches, each from method number to case. *)
MoabQueues_Update ==
  << MoabQueues_Update_1, MoabQueues_Update_2, MoabQueues_Update_3,
     MoabQueues_Update_4, MoabQueues_Update_5, MoabQueues_Update_6,
     MoabQueues_Update_7, MoabQueues_Update_8, MoabQueues_Update_9 >>
MoabQueues_Read ==
  << MoabQueues_Read_1, MoabQueues_Read_2, MoabQueues_Read_3,
     MoabQueues_Read_4, MoabQueues_Read_5, MoabQueues_Read_6 >>
MoabTasks_Update ==
  << MoabTasks_Update_1, MoabTasks_Update_2, MoabTasks_Update_3,
     MoabTasks_Update_4, MoabTasks_Update_5, MoabTasks_Update_6,
     MoabTasks_Update_7, MoabTasks_Update_8 >>
MoabTasks_Read ==
  << MoabTasks_Read_1, MoabTasks_Read_2, MoabTasks_Read_3 >>

Adapter ==
  [MoabQueues |-> [Update |-> MoabQueues_Update, Read |-> MoabQueues_Read],
   MoabTasks |-> [Update |-> MoabTasks_Update, Read |-> MoabTasks_Read]]

=============================================================================
