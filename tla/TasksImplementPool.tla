-------------------------- MODULE TasksImplementPool --------------------------
(***************************************************************************)
(* TasksCore implements the pool of tasks of its queue id.                 *)
(***************************************************************************)
EXTENDS TasksCore

\* What the rows and the id sequence say about each task id.
StatusOf(d) ==
    [t \in TaskIds |->
        CASE d.tasks[t].state = "ENQUEUED" -> "waiting"
          [] d.tasks[t].state = "IN_PROGRESS" -> "leased"
          [] d.tasks[t].state = "DEAD" -> "dead"
          [] OTHER -> IF t <= d.queueState.taskIdSequence THEN "gone" ELSE "none"]

Pool == INSTANCE TaskPool WITH
            PoolIds <- {1}, MaxPoolTask <- MaxTaskId,
            pools <- [q \in {1} |-> [status |-> StatusOf(db), marked |-> db.purgeMarked]]

\* Every call to the tasks core is a step of the abstract pool or changes
\* nothing in it: task ids are used in sequence and once, a lease is granted to
\* a waiting task only, a finished task does not come back, a dead one only by
\* a restart, nothing is added or leased under a purge marker, and the marker
\* goes only with the last task.
ImplementsPool == Pool!PoolSpec
===============================================================================
