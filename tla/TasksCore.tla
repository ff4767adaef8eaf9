------------------------------- MODULE TasksCore ------------------------------
(***************************************************************************)
(* TasksCore (pkg/tasks/core.go) for one queue.  Raft applies its calls    *)
(* one at a time and each call is one transaction, so each call is one     *)
(* action.  A call carries the time of the process that sent it: now is    *)
(* the cluster's clock, or up to MaxSkew behind it when gateway clocks     *)
(* differ or proposals are reordered.                                      *)
(*                                                                         *)
(* Enqueue, ReportStatus, DeleteTasks and RestartTasks take one entry per  *)
(* call: the code applies the entries of a batch one after the other with  *)
(* the same now, which is a run of one-entry calls without a tick between. *)
(***************************************************************************)
EXTENDS ThreadHeads

CONSTANTS
    MaxTime,                      \* bound on the clock
    MaxSkew,                      \* how far a call's now may lag the clock
    Delays,                       \* requested ScheduledAt - now
    ExpiresIn,                    \* requested ExpiresAt - now
    Keepalives,                   \* keepalive timeouts of Dequeue and heartbeats
    Overwrites,                   \* OverwriteOnDuplicate lists, as sets
    Limits,                       \* DequeueLimit
    DequeuingSettings,            \* [maxInProgressTasks, interval, maxTokens]
    DeadLetterQueueConfigs,       \* [enable, retention, maxSize]
    maxVisitedTasksForDequeuing,  \* visit budget of one Dequeue
    GCBudgets,                    \* MaxVisitedTasks of the two GC calls
    LateCallers                   \* may a stale gateway call a drained id?

OverwriteFields == {"EXPIRES_AT", "SCHEDULED_AT"}

ASSUME CoreAssumption ==
    /\ MaxTime \in Nat /\ MaxSkew \in Nat
    /\ Delays \subseteq Nat /\ ExpiresIn \subseteq Nat /\ Keepalives \subseteq Nat
    /\ Overwrites \subseteq SUBSET OverwriteFields
    /\ Limits \subseteq Nat \ {0} /\ GCBudgets \subseteq Nat \ {0}
    /\ DequeuingSettings \subseteq
          [maxInProgressTasks : Nat, interval : Nat, maxTokens : Nat]
    /\ \A s \in DequeuingSettings : rateLimitingEnabled(s) => getRefillInterval(s) > 0
    /\ DeadLetterQueueConfigs \subseteq
          [enable : BOOLEAN, retention : Nat, maxSize : Nat]
    /\ maxVisitedTasksForDequeuing \in Nat \ {0}
    /\ LateCallers \in BOOLEAN

VARIABLES
    db,       \* the committed tables of the queue id
    clock,    \* the latest time of any process that sends calls
    retired,  \* PurgeQueue was called: the name was rotated onto another id
    failed    \* some call returned a system error

vars == <<db, clock, retired, failed>>

-------------------------------------------------------------------------------
(* Helpers shared by the calls: each maps the tables to the next tables.   *)

deleteTask(d, t, reason) ==
    LET task == d.tasks[t]
        unindexed ==
            CASE task.state = "DEAD" ->
                   [d EXCEPT !.deadTasksIndex = @ \ {<<task.lastFailedAt, t>>}]
              [] task.state = "ENQUEUED" ->
                   [d EXCEPT !.queueIndex = @ \ {<<task.scheduledAt, t>>}]
              [] task.state = "IN_PROGRESS" ->
                   [d EXCEPT !.inProgressIndex = @ \ {<<task.visibleAt, t>>}]
        released == SetDedupeKey(unindexed, task.dedupeKey, 0)
        detached == CASE task.state = "DEAD" -> unindexed
                      [] task.state # "DEAD" /\ task.threadId = None -> released
                      [] OTHER -> detachTaskFromThread(released, t)
        counted == Count(detached, task.state, -1)
        dropped == [counted EXCEPT !.expiration = @ \ {<<task.expiresAt, t>>},
                                   !.tasks[t] = NoTask]
    IN  IF reason = "NONE" THEN dropped ELSE Count(dropped, reason, 1)

\* Mutant of createTask: every new task becomes a candidate.
createAlwaysQueued(d, t, task) ==
    LET stored == [d EXCEPT !.tasks[t] = task,
                            !.expiration = @ \cup {<<task.expiresAt, t>>},
                            !.counters["ENQUEUED"] = @ + 1,
                            !.queueIndex = @ \cup {<<task.scheduledAt, t>>}]
    IN  IF task.threadId = None THEN stored ELSE attachTaskToThread(stored, t)

createTask(d, t, task) ==
    LET stored == SetDedupeKey(
                      [d EXCEPT !.tasks[t] = task,
                                !.expiration = @ \cup {<<task.expiresAt, t>>},
                                !.counters["ENQUEUED"] = @ + 1],
                      task.dedupeKey, t)
    IN  IF task.threadId = None
        THEN [stored EXCEPT !.queueIndex = @ \cup {<<task.scheduledAt, t>>}]
        ELSE attachTaskToThread(stored, t)

\* Mutant of overwriteExpiresAt: the old deadline stays in the index.
overwriteExpiresAtKeepsOld(d, t, expiresAt) ==
    [d EXCEPT !.tasks[t].expiresAt = expiresAt,
              !.expiration = @ \cup {<<expiresAt, t>>}]

overwriteExpiresAt(d, t, expiresAt) ==
    [d EXCEPT !.tasks[t].expiresAt = expiresAt,
              !.expiration = (@ \ {<<d.tasks[t].expiresAt, t>>}) \cup {<<expiresAt, t>>}]

overwriteScheduledAt(d, t, scheduledAt) ==
    LET old == d.tasks[t].scheduledAt
        moved == [d EXCEPT !.tasks[t].scheduledAt = scheduledAt]
    IN  IF d.tasks[t].threadId = None
        THEN [moved EXCEPT !.queueIndex = (@ \ {<<old, t>>}) \cup {<<scheduledAt, t>>}]
        ELSE rescheduleTaskInThread(moved, t, old)

\* Mutant of overwriteDuplicate: a duplicate of a leased task is an error.
overwriteOnlyEnqueued(d, t, fields, scheduledAt, expiresAt) ==
    CASE fields = {} -> d
      [] fields # {} /\ d.tasks[t].state = "ENQUEUED" ->
           overwriteScheduledAt(overwriteExpiresAt(d, t, expiresAt), t, scheduledAt)
      [] OTHER -> Fail(d)

overwriteDuplicate(d, t, fields, scheduledAt, expiresAt) ==
    LET d1 == IF "EXPIRES_AT" \in fields THEN overwriteExpiresAt(d, t, expiresAt) ELSE d
        d2 == IF "SCHEDULED_AT" \in fields THEN overwriteScheduledAt(d1, t, scheduledAt) ELSE d1
    IN  CASE fields = {} -> d
          [] fields # {} /\ ~Exists(d, t) -> Fail(d)
          [] fields # {} /\ d.tasks[t].state = "ENQUEUED" -> d2
          [] OTHER -> d

\* The loops of the core: a loop state has the tables and the items to come,
\* which are taken in index order until a step fails.
\* An item without a row is an error, but the expiration sweep only drops it.
DeleteNext(s, reason) ==
    LET x == First(s.todo)
        missing == IF reason = "EXPIRED" THEN [s.db EXCEPT !.expiration = @ \ {x}]
                   ELSE Fail(s.db)
    IN  IF s.todo = {} \/ s.db.err THEN s
        ELSE [db |-> IF Exists(s.db, x[2]) THEN deleteTask(s.db, x[2], reason) ELSE missing,
              todo |-> s.todo \ {x}]

\* Deletes the tasks of the first n items of S.
DeleteEach(d, S, n, reason) ==
    LET after[i \in 0 .. n] ==
            IF i = 0 THEN [db |-> d, todo |-> S] ELSE DeleteNext(after[i - 1], reason)
    IN  after[n].db

\* Mutant of evictExcessDeadTasks: one dead task too many is kept.
evictOneTooFew(d, maxSize) ==
    LET overflow == d.counters["DEAD"] - maxSize - 1
    IN  IF maxSize = 0 \/ overflow <= 0
        THEN d
        ELSE DeleteEach(d, d.deadTasksIndex, overflow, "NONE")

evictExcessDeadTasks(d, maxSize) ==
    LET overflow == d.counters["DEAD"] - maxSize
    IN  IF maxSize = 0 \/ overflow <= 0
        THEN d
        ELSE DeleteEach(d, d.deadTasksIndex, overflow, "NONE")

failTaskToDead(d, t, now, dlq) ==
    LET task == d.tasks[t]
        expiresAt == now + dlq.retention
        dead == SetDedupeKey(
                    [d EXCEPT !.inProgressIndex = @ \ {<<task.visibleAt, t>>},
                              !.tasks[t] = [task EXCEPT !.state = "DEAD",
                                                        !.lastFailedAt = now,
                                                        !.expiresAt = expiresAt],
                              !.expiration = @ \cup {<<expiresAt, t>>}],
                    task.dedupeKey, 0)
        detached == IF task.threadId = None THEN dead ELSE detachTaskFromThread(dead, t)
        indexed == [detached EXCEPT !.deadTasksIndex = @ \cup {<<now, t>>}]
        counted == Count(Count(indexed, "IN_PROGRESS", -1), "DEAD", 1)
    IN  IF dlq.enable
        THEN evictExcessDeadTasks(counted, dlq.maxSize)
        ELSE deleteTask(d, t, "NONE")

failTaskToRetry(d, t, now) ==
    LET task == d.tasks[t]
        scheduledAt == now + task.retryIntervals[task.attempts]
        back == [d EXCEPT !.inProgressIndex = @ \ {<<task.visibleAt, t>>},
                          !.tasks[t] = [task EXCEPT !.state = "ENQUEUED",
                                                    !.scheduledAt = scheduledAt,
                                                    !.lastFailedAt = now,
                                                    !.visibleAt = 0],
                          !.expiration = @ \cup {<<task.expiresAt, t>>}]
        queued == IF task.threadId = None
                  THEN [back EXCEPT !.queueIndex = @ \cup {<<scheduledAt, t>>}]
                  ELSE rescheduleTaskInThread(back, t, task.scheduledAt)
    IN  Count(Count(queued, "IN_PROGRESS", -1), "ENQUEUED", 1)

\* Mutant of handleTaskFailure: a task that dies counts as processed.
handleFailureCountsDead(d, t, now, dlq) ==
    LET task == d.tasks[t]
    IN  CASE task.expiresAt < now -> deleteTask(d, t, "EXPIRED")
          [] task.expiresAt >= now /\ task.attempts > Len(task.retryIntervals) ->
               Count(failTaskToDead(d, t, now, dlq), "PROCESSED", 1)
          [] OTHER -> failTaskToRetry(d, t, now)

handleTaskFailure(d, t, now, dlq) ==
    LET task == d.tasks[t]
    IN  CASE task.expiresAt < now -> deleteTask(d, t, "EXPIRED")
          [] task.expiresAt >= now /\ task.attempts > Len(task.retryIntervals) ->
               failTaskToDead(d, t, now, dlq)
          [] OTHER -> failTaskToRetry(d, t, now)

heartbeatTask(d, t, now, keepalive) ==
    LET task == d.tasks[t]
        visibleAt == now + keepalive
        extended == [d EXCEPT !.tasks[t].visibleAt = visibleAt,
                              !.inProgressIndex = (@ \ {<<task.visibleAt, t>>})
                                                     \cup {<<visibleAt, t>>}]
    IN  IF task.threadId # None /\ d.threads[task.threadId].head # t
        THEN Fail(d)
        ELSE extended

TimeOutNext(s, now, dlq) ==
    LET x == First(s.todo)
    IN  IF s.todo = {} \/ s.db.err THEN s
        ELSE [db |-> IF Exists(s.db, x[2])
                     THEN handleTaskFailure(s.db, x[2], now, dlq) ELSE Fail(s.db),
              todo |-> s.todo \ {x}]

TimeOutEach(d, S, n, now, dlq) ==
    LET after[i \in 0 .. n] ==
            IF i = 0 THEN [db |-> d, todo |-> S] ELSE TimeOutNext(after[i - 1], now, dlq)
    IN  after[n].db

\* Routes every lease nobody renewed in time through handleTaskFailure.
dequeueInProgressTasksBeforeTime(d, now, dlq) ==
    LET visited == FirstN(InRange(d.inProgressIndex,
                                  d.queueState.lastVisitedInProgress, now),
                          maxVisitedTasksForDequeuing)
    IN  TimeOutEach([d EXCEPT !.queueState.lastVisitedInProgress =
                                 IF visited = {} THEN now ELSE LastTime(visited)],
                    visited, maxVisitedTasksForDequeuing, now, dlq)

\* Mutant of Candidates: the scan starts after its cursor.
CandidatesAfterCursor(d, now) ==
    InRange(d.queueIndex, d.queueState.lastVisitedEnqueued + 1, now)

\* The items of queueIndex that one Dequeue consumes: it scans from its
\* cursor to now and stops before an item once a limit is reached.  Expired
\* tasks count against the visit budget only.
Candidates(d, now) == InRange(d.queueIndex, d.queueState.lastVisitedEnqueued, now)
IdsOf(S) == {x[2] : x \in S}
ExpiredAmong(d, S, now) == {x \in S : d.tasks[x[2]].expiresAt < now}

\* Mutant of Visited: leases granted earlier do not count.
VisitedIgnoringLeases(d, now, limit, maxInProgressTasks) ==
    {x \in Candidates(d, now) :
        LET ahead == {y \in Candidates(d, now) : Before(y, x)}
            taken == Cardinality(ahead \ ExpiredAmong(d, ahead, now))
        IN  /\ taken < limit
            /\ Cardinality(ahead) < maxVisitedTasksForDequeuing
            /\ maxInProgressTasks > 0 => taken < maxInProgressTasks}

Visited(d, now, limit, maxInProgressTasks) ==
    {x \in Candidates(d, now) :
        LET ahead == {y \in Candidates(d, now) : Before(y, x)}
            taken == Cardinality(ahead \ ExpiredAmong(d, ahead, now))
        IN  /\ taken < limit
            /\ Cardinality(ahead) < maxVisitedTasksForDequeuing
            /\ maxInProgressTasks > 0 =>
                  d.counters["IN_PROGRESS"] + taken < maxInProgressTasks}

\* What one Dequeue makes of the rows, the keys and the counters: the expired
\* tasks are dropped, the others are leased.
PulledRows(d, expired, leased, visibleAt) ==
    [t \in TaskIds |->
        CASE t \in expired -> NoTask
          [] t \in leased -> [d.tasks[t] EXCEPT !.state = "IN_PROGRESS",
                                                !.attempts = @ + 1,
                                                !.visibleAt = visibleAt]
          [] OTHER -> d.tasks[t]]

\* Mutant of PulledKeys: an expired task keeps its dedupe key.
PulledKeysKept(d, expired) == d.dedupeKeysIndex

PulledKeys(d, expired) ==
    [k \in DedupeKeys |->
        IF \E t \in expired : d.tasks[t].dedupeKey = k THEN 0 ELSE d.dedupeKeysIndex[k]]

\* Mutant of PulledCounters: expired tasks stay in the ENQUEUED gauge.
PulledCountersLeasedOnly(d, nExpired, nLeased) ==
    [d.counters EXCEPT !["ENQUEUED"] = @ - nLeased,
                       !["IN_PROGRESS"] = @ + nLeased,
                       !["EXPIRED"] = @ + nExpired]

PulledCounters(d, nExpired, nLeased) ==
    [d.counters EXCEPT !["ENQUEUED"] = @ - nExpired - nLeased,
                       !["IN_PROGRESS"] = @ + nLeased,
                       !["EXPIRED"] = @ + nExpired]

\* The index items removed are the ones under the times in the taken rows.
Pull(d, cursor, expired, leased, nExpired, nLeased, visibleAt) ==
    LET taken == expired \cup leased
    IN  [d EXCEPT
          !.queueState.lastVisitedEnqueued = cursor,
          !.queueIndex = @ \ {<<d.tasks[t].scheduledAt, t>> : t \in taken},
          !.expiration = @ \ {<<d.tasks[t].expiresAt, t>> : t \in taken},
          !.dedupeKeysIndex = PulledKeys(d, expired),
          !.tasks = PulledRows(d, expired, leased, visibleAt),
          !.inProgressIndex = @ \cup {<<visibleAt, t>> : t \in leased},
          !.counters = PulledCounters(d, nExpired, nLeased)]

\* An item without a row is an error, and so is dropping a row twice.
RowMissing(d, visited, expired) ==
    \/ \E x \in visited : ~Exists(d, x[2])
    \/ \E x, y \in expired : x # y /\ x[2] = y[2]

\* Mutant of dequeueTasksBeforeTime: the cursor always moves on to now.
dequeueCursorToNow(d, now, visited, keepalive) ==
    LET expired == ExpiredAmong(d, visited, now)
        leased == visited \ expired
    IN  IF RowMissing(d, visited, expired) THEN Fail(d)
        ELSE Pull(d, now, IdsOf(expired), IdsOf(leased),
                  Cardinality(expired), Cardinality(leased), now + keepalive)

\* The cursor moves to the last visited item.
dequeueTasksBeforeTime(d, now, visited, keepalive) ==
    LET expired == ExpiredAmong(d, visited, now)
        leased == visited \ expired
        cursor == CASE visited # {} -> LastTime(visited)
                    [] Candidates(d, now) = {} -> now
                    [] OTHER -> d.queueState.lastVisitedEnqueued
    IN  IF RowMissing(d, visited, expired) THEN Fail(d)
        ELSE Pull(d, cursor, IdsOf(expired), IdsOf(leased),
                  Cardinality(expired), Cardinality(leased), now + keepalive)

\* The whole of Dequeue on the tables: rate limit, lapsed leases, new leases.
DequeueTables(d, now, limit, keepalive, settings, dlq) ==
    LET limited == rateLimitingEnabled(settings)
        bucket == Refill(GetOrDefault(d.rateLimiter, settings, now), settings, now)
        yield == IF limited /\ bucket.tokens < limit THEN bucket.tokens ELSE limit
        reaped == dequeueInProgressTasksBeforeTime(d, now, dlq)
        visited == Visited(reaped, now, yield, settings.maxInProgressTasks)
        leased == Cardinality(visited \ ExpiredAmong(reaped, visited, now))
        pulled == dequeueTasksBeforeTime(reaped, now, visited, keepalive)
    IN  IF reaped.err THEN reaped
        ELSE IF limited
        THEN [pulled EXCEPT !.rateLimiter = [bucket EXCEPT !.tokens = @ - leased]]
        ELSE pulled

\* Mutant of restartTask: the restarted task keeps its Attempts.
restartKeepsAttempts(d, t, now, scheduledAt, expiresAt) ==
    LET task == d.tasks[t]
        undead == [d EXCEPT !.deadTasksIndex = @ \ {<<task.lastFailedAt, t>>},
                            !.expiration = @ \ {<<task.expiresAt, t>>},
                            !.counters["DEAD"] = @ - 1]
    IN  createTask(undead, t, [task EXCEPT !.state = "ENQUEUED",
                                           !.scheduledAt = scheduledAt,
                                           !.expiresAt = expiresAt])

\* A RestartTasks entry that passed its checks.
restartTask(d, t, now, scheduledAt, expiresAt) ==
    LET task == d.tasks[t]
        undead == [d EXCEPT !.deadTasksIndex = @ \ {<<task.lastFailedAt, t>>},
                            !.expiration = @ \ {<<task.expiresAt, t>>},
                            !.counters["DEAD"] = @ - 1]
    IN  createTask(undead, t, [task EXCEPT !.state = "ENQUEUED", !.attempts = 0,
                                           !.scheduledAt = scheduledAt,
                                           !.expiresAt = expiresAt,
                                           !.visibleAt = 0, !.lastFailedAt = 0])

-------------------------------------------------------------------------------
(* The calls.                                                              *)

\* Mutant of Commit: a failed transaction is written all the same.
CommitFailed(d) ==
    /\ db' = d
    /\ failed' = (failed \/ d.err)

\* The transaction of a call commits, or is discarded with its error.
Commit(d) ==
    /\ db' = IF d.err THEN db ELSE d
    /\ failed' = (failed \/ d.err)

\* The times a call may carry.
Nows == {n \in 1 .. clock : clock - n <= MaxSkew}

\* Mutant of Admitted: the purge marker is not looked at.
AdmittedMarked == (retired /\ ~db.purgeMarked) => LateCallers

\* checkQueueNotPurged; a call it rejects changes nothing.  An id without a
\* marker is called after its purge only by a gateway that still caches it.
Admitted == ~db.purgeMarked /\ (retired => LateCallers)

Enqueue(now) ==
    /\ Admitted
    /\ \E delay \in Delays, expiresIn \in ExpiresIn, retry \in RetryStrategies,
          key \in DedupeKeys \cup {None}, thread \in ThreadIds \cup {None}, fields \in Overwrites :
         LET scheduledAt == now + delay
             id == db.queueState.taskIdSequence + 1
             task == [NoTask EXCEPT !.state = "ENQUEUED", !.scheduledAt = scheduledAt,
                                    !.expiresAt = now + expiresIn, !.dedupeKey = key,
                                    !.threadId = thread, !.retryIntervals = retry]
         IN  IF key # None /\ db.dedupeKeysIndex[key] # 0
             THEN Commit(overwriteDuplicate(db, db.dedupeKeysIndex[key], fields,
                                            scheduledAt, now + expiresIn))
             ELSE /\ id \in TaskIds
                  /\ Commit(createTask([db EXCEPT !.queueState.taskIdSequence = id], id, task))
    /\ UNCHANGED <<clock, retired>>

Dequeue(now) ==
    /\ Admitted
    /\ \E limit \in Limits, keepalive \in Keepalives,
          settings \in DequeuingSettings, dlq \in DeadLetterQueueConfigs :
         Commit(DequeueTables(db, now, limit, keepalive, settings, dlq))
    /\ UNCHANGED <<clock, retired>>

\* Mutant of Fenced: the attempt of the report is not compared.
FencedByState(t, attempt) == db.tasks[t].state = "IN_PROGRESS"

\* A report is applied only to an IN_PROGRESS task whose Attempts it names.
Fenced(t, attempt) == db.tasks[t].state = "IN_PROGRESS" /\ db.tasks[t].attempts = attempt

ReportInProgress(now, t, attempt) ==
    /\ Fenced(t, attempt)
    /\ \E keepalive \in Keepalives : Commit(heartbeatTask(db, t, now, keepalive))
    /\ UNCHANGED <<clock, retired>>

ReportFailed(now, t, attempt) ==
    /\ Fenced(t, attempt)
    /\ \E dlq \in DeadLetterQueueConfigs : Commit(handleTaskFailure(db, t, now, dlq))
    /\ UNCHANGED <<clock, retired>>

ReportSucceeded(t, attempt) ==
    /\ Fenced(t, attempt)
    /\ Commit(deleteTask(db, t, "PROCESSED"))
    /\ UNCHANGED <<clock, retired>>

DeleteTasks(t) ==
    /\ Exists(db, t)
    /\ Commit(deleteTask(db, t, "NONE"))
    /\ UNCHANGED <<clock, retired>>

RestartTasks(now, t) ==
    /\ db.tasks[t].state = "DEAD"
    /\ db.tasks[t].expiresAt >= now
    /\ db.tasks[t].dedupeKey # None => db.dedupeKeysIndex[db.tasks[t].dedupeKey] \in {0, t}
    /\ \E delay \in Delays, expiresIn \in ExpiresIn :
         Commit(restartTask(db, t, now, now + delay, now + expiresIn))
    /\ UNCHANGED <<clock, retired>>

PurgeQueue ==
    /\ ~retired
    /\ retired' = TRUE
    /\ db' = [db EXCEPT !.purgeMarked = TRUE]
    /\ UNCHANGED <<clock, failed>>

\* Mutant of BudgetSpent: off by one.
BudgetSpentEarly(remaining, budget) == Cardinality(remaining) >= budget - 1

\* Mutant of Drained: the sequence and the cursors stay.
DrainedButQueueState(d) ==
    [d EXCEPT !.purgeMarked = FALSE, !.counters = EmptyDb.counters,
              !.rateLimiter = EmptyDb.rateLimiter]

\* Deletes up to budget tasks in id order; below the budget none is left, and
\* the marker goes with every other row of the queue id but its threads.
BudgetSpent(remaining, budget) == Cardinality(remaining) >= budget

Drained(d) ==
    [d EXCEPT !.purgeMarked = FALSE, !.counters = EmptyDb.counters,
              !.queueState = EmptyDb.queueState, !.rateLimiter = EmptyDb.rateLimiter]

RunPurgeQueueGarbageCollection(budget) ==
    LET remaining == {<<0, t>> : t \in {u \in TaskIds : Exists(db, u)}}
        swept == DeleteEach(db, remaining, budget, "NONE")
    IN  /\ db.purgeMarked
        /\ Commit(IF BudgetSpent(remaining, budget) THEN swept ELSE Drained(swept))
        /\ UNCHANGED <<clock, retired>>

\* Mutant of RunTasksGarbageCollection: a deadline is due a tick late.
SweepLate(now, budget) ==
    /\ Commit(DeleteEach(db, InRange(db.expiration, 0, now - 1), budget, "EXPIRED"))
    /\ UNCHANGED <<clock, retired>>

RunTasksGarbageCollection(now, budget) ==
    /\ Commit(DeleteEach(db, InRange(db.expiration, 0, now), budget, "EXPIRED"))
    /\ UNCHANGED <<clock, retired>>

Tick ==
    /\ clock < MaxTime
    /\ clock' = clock + 1
    /\ UNCHANGED <<db, retired, failed>>

Init ==
    /\ db = EmptyDb
    /\ clock = 1
    /\ retired = FALSE
    /\ failed = FALSE

\* A report that is not Fenced changes nothing, so only the attempt that
\* passes the fence is enumerated.
ReportStatus(now, t) ==
    \/ ReportInProgress(now, t, db.tasks[t].attempts)
    \/ ReportFailed(now, t, db.tasks[t].attempts)
    \/ ReportSucceeded(t, db.tasks[t].attempts)

GarbageCollection(now, budget) ==
    \/ RunTasksGarbageCollection(now, budget)
    \/ RunPurgeQueueGarbageCollection(budget)

Next ==
    \/ \E now \in Nows :
          \/ Enqueue(now)
          \/ Dequeue(now)
          \/ \E t \in TaskIds : ReportStatus(now, t) \/ RestartTasks(now, t)
          \/ \E budget \in GCBudgets : GarbageCollection(now, budget)
    \/ \E t \in TaskIds : DeleteTasks(t)
    \/ PurgeQueue
    \/ Tick

Spec == Init /\ [][Next]_vars

-------------------------------------------------------------------------------
(* Properties.                                                             *)

\* Every table holds rows and index items of its type; a committed
\* transaction carries no error.
TypeOK ==
    /\ db \in Db
    /\ ~db.err
    /\ clock \in 1 .. (MaxTime + 1)
    /\ retired \in BOOLEAN
    /\ failed \in BOOLEAN

\* The secondary indexes hold exactly what the rows say: every call that
\* changes a task's state, ScheduledAt, VisibleAt, LastFailedAt or ExpiresAt
\* removes the old item under the old time and adds the new one.  A task has
\* one active deadline: its expiration while ENQUEUED or DEAD, its lease
\* while IN_PROGRESS (core.go:1262).
IndexesMatchRows ==
    LET ItemsOf(states, Time(_)) ==
            {<<Time(t), t>> : t \in {u \in TaskIds : db.tasks[u].state \in states}}
    IN  /\ db.queueIndex = {x \in ItemsOf({"ENQUEUED"}, LAMBDA t : db.tasks[t].scheduledAt) :
                               LET h == db.tasks[x[2]].threadId
                               IN  h # None => db.threads[h].head = x[2]}
        /\ db.inProgressIndex = ItemsOf({"IN_PROGRESS"}, LAMBDA t : db.tasks[t].visibleAt)
        /\ db.deadTasksIndex = ItemsOf({"DEAD"}, LAMBDA t : db.tasks[t].lastFailedAt)
        /\ db.expiration = ItemsOf({"ENQUEUED", "DEAD"}, LAMBDA t : db.tasks[t].expiresAt)

\* A dedupe key points at a task exactly while that task is live, so two live
\* tasks never share a key (docs/unique-tasks.md): Enqueue, death, restart,
\* expiry and deletion claim and release it at the right steps.
DedupeKeyHeldByLiveTask ==
    \A k \in DedupeKeys, t \in TaskIds :
        (db.dedupeKeysIndex[k] = t) <=> (IsLive(db, t) /\ db.tasks[t].dedupeKey = k)

\* The gauges GetStatistics returns and MaxInProgressTasks is enforced
\* against equal the number of tasks in each state, whatever the mix of
\* leases, retries, deaths, evictions, restarts and deletions.
GaugesExact ==
    \A s \in TaskStates : db.counters[s] = Cardinality(InState(db, s))

\* Dequeue never scans below its two cursors, so a candidate or a lease below
\* its cursor would be invisible for ever.
NothingBehindCursors ==
    /\ \A x \in db.queueIndex : x[1] >= db.queueState.lastVisitedEnqueued
    /\ \A x \in db.inProgressIndex : x[1] >= db.queueState.lastVisitedInProgress

\* No sequence of calls makes a later call fail with a system error (a row
\* an index points at is missing, a thread row is gone).
NoSystemError == ~failed

\* A lease is granted at most once per configured retry plus one, in each
\* life of a task (docs/retries.md): an ENQUEUED task still has one to go.
RetryBudget ==
    \A t \in TaskIds :
        /\ IsLive(db, t) =>
              db.tasks[t].attempts <= Len(db.tasks[t].retryIntervals)
                 + (IF db.tasks[t].state = "ENQUEUED" THEN 0 ELSE 1)
        /\ db.tasks[t].state = "IN_PROGRESS" => db.tasks[t].attempts > 0

\* A task id enters the lifetime counters at most once: a removed task was
\* processed, or expired, or neither, and the sweeps never count it again.
CountedOnce ==
    db.counters["PROCESSED"] + db.counters["EXPIRED"]
        + Cardinality({t \in TaskIds : Exists(db, t)}) <= db.queueState.taskIdSequence

\* With a bound on in-progress tasks in every DequeuingSettings, the queue
\* never exceeds the largest of them (docs/dequeuing-settings.md:13).
InProgressBounded ==
    (\A s \in DequeuingSettings : s.maxInProgressTasks > 0) =>
        \E s \in DequeuingSettings :
            Cardinality(InState(db, "IN_PROGRESS")) <= s.maxInProgressTasks

\* With a MaxSize in every DeadLetterQueueConfig, the dead letter queue never
\* exceeds the largest of them.
DeadBounded ==
    (\A q \in DeadLetterQueueConfigs : q.maxSize > 0) =>
        \E q \in DeadLetterQueueConfigs :
            Cardinality(InState(db, "DEAD")) <= q.maxSize

\* At most one member of a thread is IN_PROGRESS (docs/threads.md:3).
SingleFlight ==
    \A t, u \in InState(db, "IN_PROGRESS") :
        (db.tasks[t].threadId # None /\ db.tasks[t].threadId = db.tasks[u].threadId) => t = u

\* Only an ENQUEUED task sits in queueIndex, under its current ScheduledAt,
\* and only if it heads its thread; an IN_PROGRESS task still heads its
\* thread (core.go:1501).
OnlyHeadsAreCandidates ==
    /\ \A x \in db.queueIndex :
         LET task == db.tasks[x[2]]
         IN  /\ task.state = "ENQUEUED" /\ task.scheduledAt = x[1]
             /\ task.threadId # None => db.threads[task.threadId].head = x[2]
    /\ \A t \in InState(db, "IN_PROGRESS") :
         db.tasks[t].threadId # None => db.threads[db.tasks[t].threadId].head = t

\* A thread row exists exactly while the thread has a live member, its head is
\* one of them, and an ENQUEUED head is the earliest of them and mirrored in
\* the thread row (docs/threads.md).
ThreadsFollowMembers ==
    \A h \in ThreadIds :
        LET thread == db.threads[h]
            members == {t \in TaskIds : IsLive(db, t) /\ db.tasks[t].threadId = h}
            items == {<<db.tasks[t].scheduledAt, t>> : t \in members}
        IN  /\ db.threadedTasksIndex[h] = items
            /\ thread = NoThread <=> members = {}
            /\ members # {} => thread.head \in members
            /\ (members # {} /\ db.tasks[thread.head].state = "ENQUEUED") =>
                  First(items) = <<thread.scheduledAt, thread.head>>

\* A thread is deleted as soon as its last member leaves (docs/threads.md:5):
\* a thread row names a head that still has a row.
ThreadHeadExists ==
    \A h \in ThreadIds : db.threads[h] # NoThread => Exists(db, db.threads[h].head)

\* A thread's head that waits for delivery is visible for dequeuing, also one
\* that was retried without a delay (core.go:1099).
WaitingHeadsVisible ==
    \A h \in ThreadIds :
        LET head == db.threads[h].head
        IN  head # 0 /\ db.tasks[head].state = "ENQUEUED" =>
                <<db.tasks[head].scheduledAt, head>> \in db.queueIndex

\* What Dequeue may still hand out is at or above its cursor.
CandidatesReachable ==
    \A x \in db.queueIndex : x[1] >= db.queueState.lastVisitedEnqueued

\* A task is leased only after every candidate that sorts before it by
\* (ScheduledAt, TaskId) and is left in place (docs/concepts.md:27): one
\* Dequeue, and any number of them around its cursor, deliver in order.
LeasedNow(t) == db.tasks[t].attempts < db'.tasks[t].attempts
LeasedInOrder ==
    [][\A t \in TaskIds : LeasedNow(t) =>
          ~\E x \in db.queueIndex \cap db'.queueIndex :
                Before(x, <<db'.tasks[t].scheduledAt, t>>)]_vars

\* When the purge marker is dropped, nothing of the queue id is left: no task,
\* no index item, no thread, no counter and no cursor.
PurgeLeavesNothing ==
    [][db.purgeMarked /\ ~db'.purgeMarked => db' = EmptyDb]_vars

-------------------------------------------------------------------------------
(* Liveness.  The tasks worker calls both collections on every shard every *)
(* five seconds (pkg/workers/tasks.go), each with the current time.        *)

Fairness ==
    /\ WF_vars(Tick)
    /\ \A budget \in GCBudgets :
         /\ WF_vars(RunPurgeQueueGarbageCollection(budget))
         /\ WF_vars(RunTasksGarbageCollection(clock, budget))

FairSpec == Spec /\ Fairness

\* A purged queue id is drained in the end, whatever reports and restarts
\* reach its remaining tasks meanwhile.
PurgeCompletes == db.purgeMarked ~> ~db.purgeMarked

\* An ENQUEUED or DEAD task past its deadline does not stay for ever, even if
\* nobody polls the queue (docs/expiration.md:10).
ExpiredTasksLeave ==
    \A t \in TaskIds :
        (db.tasks[t].state \in {"ENQUEUED", "DEAD"} /\ db.tasks[t].expiresAt <= clock)
            ~> (db.tasks[t].state \notin {"ENQUEUED", "DEAD"} \/ db.tasks[t].expiresAt > clock)
===============================================================================
