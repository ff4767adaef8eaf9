------------------------------ MODULE QueuesCore ------------------------------
(***************************************************************************)
(* QueuesCore (pkg/queues) for one account: queues under random ids and    *)
(* unique names, cron schedules, the account's counter and the records of  *)
(* deleted queues whose schedules wait for collection.  Raft applies the   *)
(* calls one at a time and each call is one transaction, so the tables are *)
(* one record qdb and each call is one action.  A call that the code       *)
(* answers without a change (a missing name, a version mismatch, a limit,  *)
(* an id collision) is not a step.                                         *)
(*                                                                         *)
(* A missing queue or schedule row has the name None and a missing entry   *)
(* of a names index is id 0.  A schedule is keyed by the id of its queue   *)
(* and its own id.  scheduledIndex is the set of its items                 *)
(* <<time, queue id, schedule id>>, iterated in the order DueBefore.       *)
(* Description, timestamps and LastCheckedAt are left out: no code path    *)
(* reads them.  Settings stands for the remaining fields of a queue.       *)
(***************************************************************************)
EXTENDS Integers, FiniteSets

CONSTANTS
    MaxQueueId,                    \* bound on the ids that can be drawn
    QueueNames,
    MaxScheduleId,                 \* bound on the ids of schedules
    ScheduleNames,
    Settings,                      \* settings a queue can have
    Crons,                         \* cron expressions, by the time between two ticks
    EnqueuedFor,                   \* LastEnqueuedFor of reports; 0 is none
    MaxNumberOfQueues,             \* the two limits sent with the requests
    MaxNumberOfSchedulesPerQueue,
    GcRecordsPageSize,             \* the budgets of RunQueuesGarbageCollection
    GcRecordSchedulesPageSize,
    MaxVisitedSchedules,
    Readers,                       \* does a client read queues before updating them?
    MaxVersion,                    \* bound on versions
    MaxTime                        \* bound on the clock

None == ""

ASSUME QueuesAssumption ==
    /\ MaxQueueId \in Nat /\ MaxScheduleId \in Nat
    /\ None \notin QueueNames /\ None \notin ScheduleNames /\ None \notin Settings
    /\ Crons \subseteq Nat \ {0} /\ EnqueuedFor \subseteq Nat
    /\ MaxNumberOfQueues \in Nat /\ MaxNumberOfSchedulesPerQueue \in Nat
    /\ GcRecordsPageSize \in Nat \ {0} /\ GcRecordSchedulesPageSize \in Nat \ {0}
    /\ MaxVisitedSchedules \in Nat \ {0}
    /\ Readers \in BOOLEAN /\ MaxVersion \in Nat /\ MaxTime \in Nat

QueueIds == 1 .. MaxQueueId
ScheduleIds == 1 .. MaxScheduleId
ScheduleKeys == QueueIds \X ScheduleIds

Queue == [name : QueueNames \cup {None}, version : Nat,
          settings : Settings \cup {None}, schedulesCount : Nat]
NoQueue == [name |-> None, version |-> 0, settings |-> None,
            schedulesCount |-> 0]

Schedule == [name : ScheduleNames \cup {None}, version : Nat, cron : Crons \cup {0},
             nextScheduledAt : Nat, lastEnqueuedFor : Nat]
NoSchedule == [name |-> None, version |-> 0, cron |-> 0,
               nextScheduledAt |-> 0, lastEnqueuedFor |-> 0]

Qdb == [queues : [QueueIds -> Queue],
        queueNames : [QueueNames -> QueueIds \cup {0}],
        schedules : [ScheduleKeys -> Schedule],
        scheduleNames : [QueueIds \X ScheduleNames -> ScheduleIds \cup {0}],
        scheduledIndex : SUBSET (Nat \X QueueIds \X ScheduleIds),
        numberOfQueues : Nat, gcRecords : SUBSET QueueIds]

EmptyQdb == [queues |-> [q \in QueueIds |-> NoQueue],
             queueNames |-> [n \in QueueNames |-> 0],
             schedules |-> [k \in ScheduleKeys |-> NoSchedule],
             scheduleNames |-> [k \in QueueIds \X ScheduleNames |-> 0],
             scheduledIndex |-> {}, numberOfQueues |-> 0, gcRecords |-> {}]

VARIABLES
    qdb,    \* the committed tables
    clock,  \* the time stamped on calls
    fate,   \* what became of each id; a random 64-bit id is not drawn twice
    seen    \* for each name, the version and the settings a client read, and
            \* whether the queue it read was deleted since

qvars == <<qdb, clock, fate, seen>>

Fates == {"unused", "live", "swapped", "deleted"}
Seen == [version : Nat, settings : Settings \cup {None}, deleted : BOOLEAN]

NotSeen == [version |-> 0, settings |-> None, deleted |-> FALSE]

-------------------------------------------------------------------------------
(* The tables.                                                             *)

QueueExists(d, q) == d.queues[q].name # None
ScheduleExists(d, q, s) == d.schedules[<<q, s>>].name # None
SchedulesOf(d, q) == {s \in ScheduleIds : ScheduleExists(d, q, s)}

\* The least element greater than t of the ticks of a cron expression (gronx).
NextTickAfter(cron, t) == (t \div cron + 1) * cron

\* The first n members of a set of ids, in ascending order.
FirstIds(S, n) == {i \in S : Cardinality({j \in S : j < i}) < n}

DueItem(d, q, s) == <<d.schedules[<<q, s>>].nextScheduledAt, q, s>>

schedulesCreate(d, q, s, row) ==
    [d EXCEPT !.scheduledIndex = @ \cup {<<row.nextScheduledAt, q, s>>},
              !.scheduleNames[<<q, row.name>>] = s,
              !.schedules[<<q, s>>] = row]

\* The stored row, not the caller's copy, tells which item leaves the index.
schedulesUpdate(d, q, s, row) ==
    [d EXCEPT !.scheduledIndex = (@ \ {DueItem(d, q, s)})
                                      \cup {<<row.nextScheduledAt, q, s>>},
              !.schedules[<<q, s>>] = row]

\* Mutant of schedulesDelete: the due items stay.
deleteKeepsDueItems(d, K) ==
    [d EXCEPT !.scheduleNames = [n \in DOMAIN @ |->
                  IF \E k \in K : n = <<k[1], d.schedules[k].name>> THEN 0 ELSE @[n]],
              !.schedules = [k \in DOMAIN @ |-> IF k \in K THEN NoSchedule ELSE @[k]]]

\* Delete, for every schedule whose key is in K.
schedulesDelete(d, K) ==
    [d EXCEPT !.scheduledIndex = @ \ {DueItem(d, k[1], k[2]) : k \in K},
              !.scheduleNames = [n \in DOMAIN @ |->
                  IF \E k \in K : n = <<k[1], d.schedules[k].name>> THEN 0 ELSE @[n]],
              !.schedules = [k \in DOMAIN @ |-> IF k \in K THEN NoSchedule ELSE @[k]]]

queuesCreate(d, q, row) ==
    [d EXCEPT !.queueNames[row.name] = q, !.queues[q] = row]

queuesDelete(d, q) ==
    [d EXCEPT !.queues[q] = NoQueue, !.queueNames[d.queues[q].name] = 0]

queuesSwapId(d, old, new, row) ==
    [d EXCEPT !.queueNames[row.name] = new,
              !.queues[new] = row, !.queues[old] = NoQueue]

-------------------------------------------------------------------------------
(* The calls that change the tables, as operators from tables to tables.   *)

createQueue(d, n, q, settings) ==
    LET row == [name |-> n, version |-> 1, settings |-> settings,
                schedulesCount |-> 0]
    IN  [queuesCreate(d, q, row) EXCEPT !.numberOfQueues = @ + 1]

\* Mutant of updateQueue: the version stays.
updateUnversioned(d, q, settings) == [d EXCEPT !.queues[q].settings = settings]

updateQueue(d, q, settings) ==
    [d EXCEPT !.queues[q].settings = settings, !.queues[q].version = @ + 1]

\* Mutant of deleteQueue: no record of the schedules left behind.
deleteUnrecorded(d, q) ==
    [queuesDelete(d, q) EXCEPT !.numberOfQueues = @ - 1]

deleteQueue(d, q) ==
    [queuesDelete(d, q) EXCEPT !.numberOfQueues = @ - 1,
                               !.gcRecords = @ \cup {q}]

\* Mutant of rekeyed: the next tick is moved on.
rekeyedLater(d, old, s) == [d.schedules[<<old, s>>] EXCEPT !.nextScheduledAt = @ + 1]

rekeyed(d, old, s) == d.schedules[<<old, s>>]

\* The pages of schedules are rekeyed one schedule at a time: each keeps its
\* row, with its next tick, and its id within the queue.
swapQueueId(d, old, new) ==
    LET moved == SchedulesOf(d, old)
        row(s) == rekeyed(d, old, s)
        without == schedulesDelete(d, {old} \X moved)
        under == [without EXCEPT
            !.scheduledIndex = @ \cup {<<row(s).nextScheduledAt, new, s>> : s \in moved},
            !.scheduleNames = [k \in DOMAIN @ |->
                IF k[1] = new /\ d.scheduleNames[<<old, k[2]>>] \in moved
                THEN d.scheduleNames[<<old, k[2]>>] ELSE @[k]],
            !.schedules = [k \in DOMAIN @ |->
                IF k[1] = new /\ k[2] \in moved THEN row(k[2]) ELSE @[k]]]
    IN  queuesSwapId(under, old, new, [d.queues[old] EXCEPT !.version = @ + 1])

createSchedule(d, q, sn, s, cron, now) ==
    LET row == [name |-> sn, version |-> 1, cron |-> cron,
                nextScheduledAt |-> NextTickAfter(cron, now),
                lastEnqueuedFor |-> 0]
    IN  [schedulesCreate(d, q, s, row) EXCEPT !.queues[q].schedulesCount = @ + 1]

updateSchedule(d, q, s, cron, now) ==
    schedulesUpdate(d, q, s,
        [d.schedules[<<q, s>>] EXCEPT !.version = @ + 1, !.cron = cron,
                                      !.nextScheduledAt = NextTickAfter(cron, now)])

\* Mutant of deleteSchedule: the denormalised count is forgotten.
deleteUncounted(d, q, s) == schedulesDelete(d, {<<q, s>>})

\* Mutant of deleteSchedule: the count is decremented by both layers.
deleteCountedTwice(d, q, s) ==
    [schedulesDelete(d, {<<q, s>>}) EXCEPT !.queues[q].schedulesCount = @ - 2]

deleteSchedule(d, q, s) ==
    [schedulesDelete(d, {<<q, s>>}) EXCEPT !.queues[q].schedulesCount = @ - 1]

\* lastEnqueuedFor is 0 when the worker enqueued nothing.
reportSchedulesStatus(d, q, s, next, lastEnqueuedFor) ==
    LET row == d.schedules[<<q, s>>]
    IN  schedulesUpdate(d, q, s,
            [row EXCEPT !.nextScheduledAt = next,
                        !.lastEnqueuedFor = IF lastEnqueuedFor # 0
                                            THEN lastEnqueuedFor ELSE @])

\* What one garbage collection visits: a page of the schedules of each record
\* of a page of records, in order, until the visit budget is spent.
KeyBefore(x, y) == x[1] < y[1] \/ (x[1] = y[1] /\ x[2] < y[2])
gcPage(d, q) == FirstIds(SchedulesOf(d, q), GcRecordSchedulesPageSize)
gcListed(d) == UNION {{q} \X gcPage(d, q) : q \in FirstIds(d.gcRecords, GcRecordsPageSize)}
gcVisited(d) ==
    LET listed == gcListed(d)
    IN  {k \in listed : Cardinality({x \in listed : KeyBefore(x, k)}) < MaxVisitedSchedules}

\* Mutant of gcDrained: the record goes although the budget cut it short.
gcDrainedUnvisited(d) ==
    {q \in FirstIds(d.gcRecords, GcRecordsPageSize) : gcPage(d, q) = SchedulesOf(d, q)}

\* The records with no schedules beyond the page.  Reaching the budget ends the
\* call before the record is dropped, even if its last schedule went.
gcDrained(d) ==
    LET listed == gcListed(d)
    IN  {q \in FirstIds(d.gcRecords, GcRecordsPageSize) :
            /\ gcPage(d, q) = SchedulesOf(d, q)
            /\ Cardinality({k \in listed : k[1] <= q}) < MaxVisitedSchedules}

runQueuesGarbageCollection(d) ==
    LET visited == gcVisited(d)
    IN  [schedulesDelete(d, visited) EXCEPT !.gcRecords = @ \ gcDrained(d)]

\* Mutant of restored: rows are inserted without the item of their next tick.
restoredNotDue(d) == [d EXCEPT !.scheduledIndex = {}]

\* Restore inserts the snapshot's queues and schedules through Create, which
\* derives the indexes again, and the counter and the records as they are.
restored(d) ==
    [queues |-> d.queues,
     queueNames |-> [n \in QueueNames |->
         IF \E q \in QueueIds : d.queues[q].name = n
         THEN CHOOSE q \in QueueIds : d.queues[q].name = n ELSE 0],
     schedules |-> d.schedules,
     scheduleNames |-> [k \in QueueIds \X ScheduleNames |->
         IF \E s \in ScheduleIds : d.schedules[<<k[1], s>>].name = k[2]
         THEN CHOOSE s \in ScheduleIds : d.schedules[<<k[1], s>>].name = k[2] ELSE 0],
     scheduledIndex |-> {DueItem(d, k[1], k[2]) :
                            k \in {x \in ScheduleKeys : ScheduleExists(d, x[1], x[2])}},
     numberOfQueues |-> d.numberOfQueues, gcRecords |-> d.gcRecords]

-------------------------------------------------------------------------------
(* One action per call that changes the tables.                            *)

getByName(d, n) ==
    LET q == d.queueNames[n] IN IF q # 0 /\ QueueExists(d, q) THEN q ELSE 0

getScheduleByName(d, q, sn) ==
    LET s == d.scheduleNames[<<q, sn>>]
    IN  IF s # 0 /\ ScheduleExists(d, q, s) THEN s ELSE 0

CreateQueue(n, q, settings) ==
    /\ getByName(qdb, n) = 0
    /\ qdb.numberOfQueues < MaxNumberOfQueues
    /\ ~QueueExists(qdb, q) /\ fate[q] = "unused"
    /\ qdb' = createQueue(qdb, n, q, settings)
    /\ fate' = [fate EXCEPT ![q] = "live"]
    /\ UNCHANGED <<clock, seen>>

\* A read: the tables stay, the client remembers.
GetQueue(n) ==
    LET q == getByName(qdb, n) IN
    /\ Readers /\ q # 0
    /\ seen' = [seen EXCEPT ![n] = [version |-> qdb.queues[q].version,
                                    settings |-> qdb.queues[q].settings,
                                    deleted |-> FALSE]]
    /\ UNCHANGED <<qdb, clock, fate>>

UpdateQueue(n, expectedVersion, settings) ==
    LET q == getByName(qdb, n) IN
    /\ q # 0
    /\ Readers => expectedVersion = seen[n].version
    /\ qdb.queues[q].version = expectedVersion /\ expectedVersion < MaxVersion
    /\ qdb' = updateQueue(qdb, q, settings)
    /\ UNCHANGED <<clock, fate, seen>>

DeleteQueue(n) ==
    LET q == getByName(qdb, n) IN
    /\ q # 0
    /\ qdb' = deleteQueue(qdb, q)
    /\ fate' = [fate EXCEPT ![q] = "deleted"]
    /\ seen' = IF Readers THEN [seen EXCEPT ![n].deleted = TRUE] ELSE seen
    /\ UNCHANGED clock

SwapQueueId(n, new) ==
    LET old == getByName(qdb, n) IN
    /\ old # 0 /\ qdb.queues[old].version < MaxVersion
    /\ ~QueueExists(qdb, new) /\ fate[new] = "unused"
    /\ qdb' = swapQueueId(qdb, old, new)
    /\ fate' = [fate EXCEPT ![new] = "live", ![old] = "swapped"]
    /\ UNCHANGED <<clock, seen>>

CreateSchedule(n, sn, s, cron) ==
    LET q == getByName(qdb, n) IN
    /\ q # 0
    /\ ~ScheduleExists(qdb, q, s)
    /\ qdb.queues[q].schedulesCount < MaxNumberOfSchedulesPerQueue
    /\ getScheduleByName(qdb, q, sn) = 0
    /\ qdb' = createSchedule(qdb, q, sn, s, cron, clock)
    /\ UNCHANGED <<clock, fate, seen>>

UpdateSchedule(n, sn, expectedVersion, cron) ==
    LET q == getByName(qdb, n)
        s == getScheduleByName(qdb, q, sn) IN
    /\ q # 0 /\ s # 0
    /\ qdb.schedules[<<q, s>>].version = expectedVersion /\ expectedVersion < MaxVersion
    /\ qdb' = updateSchedule(qdb, q, s, cron, clock)
    /\ UNCHANGED <<clock, fate, seen>>

DeleteSchedule(n, sn) ==
    LET q == getByName(qdb, n)
        s == getScheduleByName(qdb, q, sn) IN
    /\ q # 0 /\ s # 0
    /\ qdb' = deleteSchedule(qdb, q, s)
    /\ UNCHANGED <<clock, fate, seen>>

ReportSchedulesStatus(q, s, next, lastEnqueuedFor) ==
    /\ ScheduleExists(qdb, q, s)
    /\ qdb' = reportSchedulesStatus(qdb, q, s, next, lastEnqueuedFor)
    /\ UNCHANGED <<clock, fate, seen>>

RunQueuesGarbageCollection ==
    /\ qdb.gcRecords # {}
    /\ qdb' = runQueuesGarbageCollection(qdb)
    /\ UNCHANGED <<clock, fate, seen>>

\* A replica restores the latest snapshot, or a shard is seeded with it.
Restore ==
    /\ qdb' = restored(qdb)
    /\ UNCHANGED <<clock, fate, seen>>

Tick ==
    /\ clock < MaxTime
    /\ clock' = clock + 1
    /\ UNCHANGED <<qdb, fate, seen>>

Init ==
    /\ qdb = EmptyQdb /\ clock = 0
    /\ fate = [q \in QueueIds |-> "unused"]
    /\ seen = [n \in QueueNames |-> NotSeen]

QueueCalls ==
    \E n \in QueueNames :
        \/ \E q \in QueueIds, x \in Settings : CreateQueue(n, q, x)
        \/ GetQueue(n)
        \/ \E v \in 1 .. MaxVersion, x \in Settings : UpdateQueue(n, v, x)
        \/ DeleteQueue(n)
        \/ \E q \in QueueIds : SwapQueueId(n, q)

ScheduleCalls ==
    \E n \in QueueNames, sn \in ScheduleNames :
        \/ \E s \in ScheduleIds, c \in Crons : CreateSchedule(n, sn, s, c)
        \/ \E v \in 1 .. MaxVersion, c \in Crons : UpdateSchedule(n, sn, v, c)
        \/ DeleteSchedule(n, sn)

Next ==
    \/ QueueCalls
    \/ ScheduleCalls
    \/ \E q \in QueueIds, s \in ScheduleIds, t \in 1 .. MaxTime, e \in EnqueuedFor :
            ReportSchedulesStatus(q, s, t, e)
    \/ RunQueuesGarbageCollection
    \/ Restore
    \/ Tick

Spec == Init /\ [][Next]_qvars

-------------------------------------------------------------------------------
(* Properties.                                                             *)

\* The variables have their types.
QueuesTypeOK ==
    /\ qdb \in Qdb /\ clock \in 0 .. MaxTime
    /\ fate \in [QueueIds -> Fates] /\ seen \in [QueueNames -> Seen]

\* The two names indexes and scheduledIndex hold exactly what the rows say, so
\* a lookup by name finds every row and ListDue never meets a missing one.
QueueIndexesMatchRows ==
    /\ \A n \in QueueNames, q \in QueueIds :
          qdb.queueNames[n] = q <=> qdb.queues[q].name = n
    /\ \A q \in QueueIds, sn \in ScheduleNames, s \in ScheduleIds :
          qdb.scheduleNames[<<q, sn>>] = s <=> qdb.schedules[<<q, s>>].name = sn
    /\ qdb.scheduledIndex = {DueItem(qdb, k[1], k[2]) :
          k \in {x \in ScheduleKeys : ScheduleExists(qdb, x[1], x[2])}}

\* The counters that guard the two limits are exact: NumberOfQueues counts the
\* rows and SchedulesCount of every queue counts its schedules, through
\* deletions, id swaps and collections.
CountsExact ==
    /\ qdb.numberOfQueues = Cardinality({q \in QueueIds : QueueExists(qdb, q)})
    /\ \A q \in QueueIds : QueueExists(qdb, q) =>
          qdb.queues[q].schedulesCount = Cardinality(SchedulesOf(qdb, q))

\* A schedule is reachable through its queue or awaits collection: no call
\* leaves one under an id nobody will look at again.
NoLostSchedules ==
    \A q \in QueueIds : SchedulesOf(qdb, q) # {} =>
        \/ fate[q] = "live" /\ QueueExists(qdb, q)
        \/ fate[q] = "deleted" /\ q \in qdb.gcRecords

\* What a client sees of the schedules of a named queue.
SchedulesSeen(d, n) ==
    LET q == getByName(d, n) IN {d.schedules[<<q, s>>] : s \in SchedulesOf(d, q)}

\* Moving a name to another id (SwapQueueId) keeps the schedules of the queue,
\* each with its next tick; nobody sees the queue without them.
SwapKeepsSchedules ==
    [][\A n \in QueueNames :
          LET old == getByName(qdb, n)
              new == getByName(qdb', n)
          IN  old # 0 /\ fate'[old] = "swapped" =>
                /\ new # 0 /\ SchedulesSeen(qdb', n) = SchedulesSeen(qdb, n)
                /\ SchedulesOf(qdb', old) = {}]_qvars

\* A restore from a snapshot of the rows rebuilds the very tables the calls
\* had left, so replicas that replay and replicas that restore agree.
RestoreIsExact == restored(qdb) = qdb

\* The version check of UpdateQueue prevents lost updates: what it overwrites
\* is what its caller had read, unless that queue was deleted meanwhile.
NoLostUpdate ==
    [][\A n \in QueueNames, v \in 1 .. MaxVersion, x \in Settings :
          Readers /\ UpdateQueue(n, v, x) /\ ~seen[n].deleted
          => qdb.queues[getByName(qdb, n)].settings = seen[n].settings]_qvars

\* DequeSchedules resolves the queue of every due schedule and treats a missing
\* one as a corrupted index: it should find each.
DueSchedulesHaveQueues ==
    \A x \in qdb.scheduledIndex : x[1] <= clock => QueueExists(qdb, x[2])
===============================================================================
