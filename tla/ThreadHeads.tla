----------------------------- MODULE ThreadHeads ------------------------------
(***************************************************************************)
(* Thread head coordination (pkg/tasks/core.go, "Thread head               *)
(* coordination").  Only the head of a thread may appear in queueIndex;    *)
(* these five helpers keep the head, its thread row and queueIndex in step.*)
(***************************************************************************)
EXTENDS TaskTables

AddToThreadIndex(d, h, item) ==
    [d EXCEPT !.threadedTasksIndex[h] = @ \cup {item}]

RemoveFromThreadIndex(d, h, item) ==
    [d EXCEPT !.threadedTasksIndex[h] = @ \ {item}]

\* Mutant of SetHead: the new head is not added to queueIndex.
SetHeadInvisible(d, h, t) ==
    [d EXCEPT !.threads[h] = [head |-> t, scheduledAt |-> d.tasks[t].scheduledAt]]

\* Makes t the head of h and a candidate for Dequeue.
SetHead(d, h, t) ==
    [d EXCEPT !.threads[h] = [head |-> t, scheduledAt |-> d.tasks[t].scheduledAt],
              !.queueIndex = @ \cup {<<d.tasks[t].scheduledAt, t>>}]

\* Mutant of promoteNextThreadHead: an empty thread keeps its row.
promoteKeepsEmptyThread(d, h) ==
    LET members == d.threadedTasksIndex[h]
    IN  IF members = {} THEN d ELSE SetHead(d, h, First(members)[2])

promoteNextThreadHead(d, h) ==
    LET members == d.threadedTasksIndex[h]
        next == First(members)[2]
    IN  CASE members = {} -> [d EXCEPT !.threads[h] = NoThread]
          [] members # {} /\ ~Exists(d, next) -> Fail(d)
          [] OTHER -> SetHead(d, h, next)

reconcileThreadHead(d, h) ==
    LET thread == d.threads[h]
        head == thread.head
        earliest == First(d.threadedTasksIndex[h])[2]
        at == d.tasks[earliest].scheduledAt
    IN  CASE ~Exists(d, earliest) \/ ~Exists(d, head) -> Fail(d)
          [] Exists(d, head) /\ earliest = head /\ thread.scheduledAt = at -> d
          [] Exists(d, head) /\ earliest = head /\ thread.scheduledAt # at ->
               [d EXCEPT !.threads[h].scheduledAt = at,
                         !.queueIndex =
                            IF d.tasks[head].state = "ENQUEUED"
                            THEN (@ \ {<<thread.scheduledAt, head>>}) \cup {<<at, head>>}
                            ELSE @]
          [] Exists(d, earliest) /\ earliest # head /\ d.tasks[head].state = "ENQUEUED" ->
               SetHead([d EXCEPT !.queueIndex = @ \ {<<d.tasks[head].scheduledAt, head>>}],
                       h, earliest)
          [] OTHER -> d

\* Mutant of attachTaskToThread: the new member takes over the head.
attachAsHead(d, t) ==
    LET task == d.tasks[t]
    IN  SetHead(AddToThreadIndex(d, task.threadId, <<task.scheduledAt, t>>), task.threadId, t)

attachTaskToThread(d, t) ==
    LET task == d.tasks[t]
        d1 == AddToThreadIndex(d, task.threadId, <<task.scheduledAt, t>>)
    IN  IF d.threads[task.threadId] = NoThread
        THEN SetHead(d1, task.threadId, t)
        ELSE reconcileThreadHead(d1, task.threadId)

\* Mutant of detachTaskFromThread: a member behind the head may not leave.
detachOnlyHead(d, t) ==
    LET task == d.tasks[t]
        d1 == RemoveFromThreadIndex(d, task.threadId, <<task.scheduledAt, t>>)
    IN  IF d.threads[task.threadId].head # t THEN Fail(d)
        ELSE promoteNextThreadHead(d1, task.threadId)

detachTaskFromThread(d, t) ==
    LET task == d.tasks[t]
        thread == d.threads[task.threadId]
        d1 == RemoveFromThreadIndex(d, task.threadId, <<task.scheduledAt, t>>)
    IN  CASE thread = NoThread -> Fail(d)
          [] thread # NoThread /\ thread.head # t -> d1
          [] OTHER -> promoteNextThreadHead(d1, task.threadId)

rescheduleTaskInThread(d, t, oldScheduledAt) ==
    LET task == d.tasks[t]
        d1 == AddToThreadIndex(
                  RemoveFromThreadIndex(d, task.threadId, <<oldScheduledAt, t>>),
                  task.threadId, <<task.scheduledAt, t>>)
    IN  IF d.threads[task.threadId] = NoThread
        THEN Fail(d)
        ELSE reconcileThreadHead(d1, task.threadId)
===============================================================================
