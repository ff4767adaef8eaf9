------------------------------ MODULE TaskLeases ------------------------------
(***************************************************************************)
(* Workers and their leases on one queue.  Dequeue hands a worker a task   *)
(* and its Attempts; the worker reports with both, perhaps long after the  *)
(* lease lapsed and the task was leased again, failed, died or was         *)
(* restarted.  The core knows no workers: Fenced is all that tells a       *)
(* current report from a stale one.                                        *)
(***************************************************************************)
EXTENDS TasksCore

CONSTANT MaxGrants   \* bound on the leases granted on one task

VARIABLES
    held,     \* the leases workers hold: <<task, attempt, number of the grant>>
    grants,   \* how many leases were granted on each task
    born      \* how many of them before its last restart

lvars == <<db, clock, retired, failed, held, grants, born>>

LeaseInit ==
    /\ Init
    /\ held = {} /\ grants = [t \in TaskIds |-> 0] /\ born = grants

\* Dequeue, and the response on its way to the worker.
Take(now) ==
    LET granted == {t \in TaskIds : /\ db'.tasks[t].state = "IN_PROGRESS"
                                    /\ db'.tasks[t].attempts # db.tasks[t].attempts}
    IN  /\ Dequeue(now)
        /\ \A t \in granted : grants[t] < MaxGrants
        /\ grants' = [t \in TaskIds |-> IF t \in granted THEN grants[t] + 1 ELSE grants[t]]
        /\ held' = held \cup {<<t, db'.tasks[t].attempts, grants'[t]>> : t \in granted}
        /\ UNCHANGED born

\* The last report of a lease; a report that is not Fenced changes nothing.
Settle(now, lease) ==
    /\ held' = held \ {lease}
    /\ IF Fenced(lease[1], lease[2])
       THEN ReportFailed(now, lease[1], lease[2]) \/ ReportSucceeded(lease[1], lease[2])
       ELSE UNCHANGED vars
    /\ UNCHANGED <<grants, born>>

Heartbeat(now, lease) ==
    /\ ReportInProgress(now, lease[1], lease[2])
    /\ UNCHANGED <<held, grants, born>>

Restart(now, t) ==
    /\ RestartTasks(now, t)
    /\ born' = [born EXCEPT ![t] = grants[t]]
    /\ UNCHANGED <<held, grants>>

\* The other calls of producers, operators and collections.
Others ==
    /\ \/ \E now \in Nows :
             \/ Enqueue(now)
             \/ \E budget \in GCBudgets : RunTasksGarbageCollection(now, budget)
       \/ \E t \in TaskIds : DeleteTasks(t)
       \/ PurgeQueue
       \/ \E budget \in GCBudgets : RunPurgeQueueGarbageCollection(budget)
       \/ Tick
    /\ UNCHANGED <<held, grants, born>>

LeaseNext ==
    \/ \E now \in Nows :
          \/ Take(now)
          \/ \E lease \in held : Settle(now, lease) \/ Heartbeat(now, lease)
          \/ \E t \in TaskIds : Restart(now, t)
    \/ Others

LeaseSpec == LeaseInit /\ [][LeaseNext]_lvars

-------------------------------------------------------------------------------
(* Properties.                                                             *)

\* The latest lease on its task, and one from before its last restart.
Current(lease) == grants[lease[1]] = lease[3]
FromEarlierLife(lease) == lease[3] <= born[lease[1]]

Reports(lease) == \E now \in Nows : Settle(now, lease) \/ Heartbeat(now, lease)

\* A report of a worker whose task was leased to another one since, after a
\* time-out, a failure or a death, changes nothing (docs/retries.md:22): no
\* other worker's lease is renewed, failed or completed by it.
StaleReportsIgnored ==
    [][\A lease \in held : Reports(lease) /\ db' # db =>
          Current(lease) \/ FromEarlierLife(lease)]_lvars

\* The same across restarts of the task.
StaleReportsIgnoredForEver ==
    [][\A lease \in held : Reports(lease) /\ db' # db => Current(lease)]_lvars
===============================================================================
