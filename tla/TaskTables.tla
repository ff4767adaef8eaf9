------------------------------ MODULE TaskTables ------------------------------
(***************************************************************************)
(* The tables of one queue of a TasksCore (pkg/tasks): the task rows, the  *)
(* secondary indexes, the thread rows, and the per-queue counters, cursors *)
(* and token bucket.  One Badger transaction reads and writes all of them, *)
(* so they are the fields of a single record, and every helper of the core *)
(* is an operator from such a record to the next one.                      *)
(*                                                                         *)
(* A sorted index is the set of its items <<time, task id>>; the store     *)
(* iterates it in the order Before.  A missing task row is the row NoTask, *)
(* a missing thread row is NoThread, a missing dedupe entry is id 0.       *)
(*                                                                         *)
(* Payload, CreatedAt and Thread.VisibleAt are left out: no code path      *)
(* reads them.                                                             *)
(***************************************************************************)
EXTENDS Naturals, Integers, FiniteSets, Sequences, TokenBucket

CONSTANTS
    MaxTaskId,        \* bound on TaskIdSequence
    DedupeKeys,       \* non-empty dedupe keys
    ThreadIds,        \* non-empty thread ids
    RetryStrategies   \* sequences of retry intervals; << >> stands for nil

\* The empty string, which stands for no dedupe key and no thread.
None == ""

ASSUME TablesAssumption ==
    /\ MaxTaskId \in Nat
    /\ None \notin DedupeKeys
    /\ None \notin ThreadIds
    /\ \A r \in RetryStrategies : r \in Seq(Nat)

TaskIds == 1 .. MaxTaskId
TaskStates == {"ENQUEUED", "IN_PROGRESS", "DEAD"}
Items == Nat \X TaskIds

Task == [state : TaskStates \cup {"ABSENT"}, scheduledAt : Nat, expiresAt : Nat,
         visibleAt : Nat, lastFailedAt : Nat, attempts : Nat,
         dedupeKey : DedupeKeys \cup {None}, threadId : ThreadIds \cup {None},
         retryIntervals : RetryStrategies \cup {<< >>}]

NoTask == [state |-> "ABSENT", scheduledAt |-> 0, expiresAt |-> 0,
           visibleAt |-> 0, lastFailedAt |-> 0, attempts |-> 0,
           dedupeKey |-> None, threadId |-> None, retryIntervals |-> << >>]

Thread == [head : TaskIds \cup {0}, scheduledAt : Nat]
NoThread == [head |-> 0, scheduledAt |-> 0]

\* Three gauges named after the states they count, two lifetime counters.
Counters == TaskStates \cup {"PROCESSED", "EXPIRED"}

QueueState == [taskIdSequence : TaskIds \cup {0},
               lastVisitedEnqueued : Nat, lastVisitedInProgress : Nat]
NoQueueState == [taskIdSequence |-> 0,
                 lastVisitedEnqueued |-> 0, lastVisitedInProgress |-> 0]

\* err is raised by a helper that returns a system error; the transaction
\* of the call is then discarded.
Db == [tasks : [TaskIds -> Task],
       dedupeKeysIndex : [DedupeKeys -> TaskIds \cup {0}],
       queueIndex : SUBSET Items, inProgressIndex : SUBSET Items,
       deadTasksIndex : SUBSET Items, expiration : SUBSET Items,
       threads : [ThreadIds -> Thread],
       threadedTasksIndex : [ThreadIds -> SUBSET Items],
       counters : [Counters -> Int], queueState : QueueState,
       rateLimiter : Bucket, purgeMarked : BOOLEAN, err : BOOLEAN]

EmptyDb == [tasks |-> [t \in TaskIds |-> NoTask],
            dedupeKeysIndex |-> [k \in DedupeKeys |-> 0],
            queueIndex |-> {}, inProgressIndex |-> {},
            deadTasksIndex |-> {}, expiration |-> {},
            threads |-> [h \in ThreadIds |-> NoThread],
            threadedTasksIndex |-> [h \in ThreadIds |-> {}],
            counters |-> [c \in Counters |-> 0], queueState |-> NoQueueState,
            rateLimiter |-> NoBucket, purgeMarked |-> FALSE, err |-> FALSE]

Exists(d, t) == d.tasks[t].state # "ABSENT"
IsLive(d, t) == d.tasks[t].state \in {"ENQUEUED", "IN_PROGRESS"}
InState(d, s) == {t \in TaskIds : d.tasks[t].state = s}

Fail(d) == [d EXCEPT !.err = TRUE]
Count(d, c, n) == [d EXCEPT !.counters[c] = @ + n]

Before(x, y) == x[1] < y[1] \/ (x[1] = y[1] /\ x[2] < y[2])
First(S) == CHOOSE x \in S : \A y \in S : ~Before(y, x)
FirstN(S, n) == {x \in S : Cardinality({y \in S : Before(y, x)}) < n}
LastTime(S) == CHOOSE n \in {x[1] : x \in S} : \A y \in S : y[1] <= n
InRange(S, from, to) == {x \in S : from <= x[1] /\ x[1] <= to}

\* dedupeKeysIndex.Set and .Delete, skipped by every caller for the empty key.
SetDedupeKey(d, key, t) ==
    IF key = None THEN d ELSE [d EXCEPT !.dedupeKeysIndex[key] = t]
===============================================================================
