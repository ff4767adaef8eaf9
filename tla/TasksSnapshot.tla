---------------------------- MODULE TasksSnapshot -----------------------------
(***************************************************************************)
(* Snapshot and Restore of the tasks core.  A snapshot holds the rows of   *)
(* every table and no index.  Restore is a step between two calls: a       *)
(* replica that lags, or a shard that is split, continues from it while    *)
(* other replicas replay the calls, so it should bring back the very       *)
(* tables the calls had left.                                              *)
(***************************************************************************)
EXTENDS TasksCore

RowsIn(d, state) == {t \in TaskIds : d.tasks[t].state = state}

\* The items of an index that holds the rows of S under the time in a field.
IndexedBy(d, S, field) == {<<d.tasks[t][field], t>> : t \in S}

\* taskRestorer.RestoreEntity: the thread index of a row, and whether it heads
\* its thread, whose row was restored before.
restoredHead(d, t) ==
    LET h == d.tasks[t].threadId IN h # None => d.threads[h].head = t

threadRowMissing(d) ==
    \E t \in TaskIds : /\ Exists(d, t) /\ d.tasks[t].threadId # None
                       /\ d.threads[d.tasks[t].threadId] = NoThread

\* Mutant of restoredKeys: dead tasks claim their key as well.
restoredKeysOfDead(d) ==
    [k \in DedupeKeys |->
        LET holders == {t \in TaskIds : Exists(d, t) /\ d.tasks[t].dedupeKey = k}
        IN  IF holders = {} THEN 0 ELSE CHOOSE t \in holders : \A u \in holders : u <= t]

\* Rows are restored in id order: the last one that claims a key holds it.
restoredKeys(d) ==
    [k \in DedupeKeys |->
        LET holders == {t \in TaskIds : /\ Exists(d, t) /\ d.tasks[t].state # "DEAD"
                                        /\ d.tasks[t].dedupeKey = k}
        IN  IF holders = {} THEN 0 ELSE CHOOSE t \in holders : \A u \in holders : u <= t]

\* Mutant of restoredQueueIndex: members that do not head their thread as well.
restoredQueueIndexOfAll(d) ==
    IndexedBy(d, RowsIn(d, "ENQUEUED"), "scheduledAt")

restoredQueueIndex(d) ==
    IndexedBy(d, {t \in RowsIn(d, "ENQUEUED") : restoredHead(d, t)}, "scheduledAt")

\* restoreIndexes, for every row: every task is given a deadline.
restored(d) ==
    [d EXCEPT
        !.dedupeKeysIndex = restoredKeys(d),
        !.queueIndex = restoredQueueIndex(d),
        !.inProgressIndex = IndexedBy(d, RowsIn(d, "IN_PROGRESS"), "visibleAt"),
        !.deadTasksIndex = IndexedBy(d, RowsIn(d, "DEAD"), "lastFailedAt"),
        !.expiration = IndexedBy(d, {t \in TaskIds : Exists(d, t)}, "expiresAt"),
        !.threadedTasksIndex =
            [h \in ThreadIds |->
                IndexedBy(d, {t \in TaskIds : Exists(d, t) /\ d.tasks[t].threadId = h},
                          "scheduledAt")],
        !.err = threadRowMissing(d)]

\* A Restore that fails leaves the replica without tables; others go on.
Restore ==
    /\ ~restored(db).err
    /\ db' = restored(db)
    /\ UNCHANGED <<clock, retired, failed>>

SnapshotSpec == Init /\ [][Next \/ Restore]_vars

-------------------------------------------------------------------------------
(* Properties.                                                             *)

\* A restore rebuilds every index as the calls had left it, but for the
\* expiration index, which gains the deadlines of leased tasks and sheds none.
RestoreRebuildsIndexes ==
    /\ [restored(db) EXCEPT !.expiration = db.expiration] = db
    /\ {x \in restored(db).expiration : db.tasks[x[2]].state # "IN_PROGRESS"}
          \subseteq db.expiration

\* Restore never fails: the thread row of every threaded task it meets exists.
RestoreSucceeds == ~restored(db).err

\* The collection of expired tasks never touches a leased one
\* (docs/expiration.md:11).
LeasedTasksNotCollected ==
    [][\A now \in Nows, budget \in GCBudgets :
          RunTasksGarbageCollection(now, budget) =>
             InState(db, "IN_PROGRESS") \subseteq InState(db', "IN_PROGRESS")]_vars
===============================================================================
