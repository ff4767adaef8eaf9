------------------------------- MODULE TaskPool -------------------------------
(***************************************************************************)
(* What the tasks core promises about the tasks of each queue id, whatever *)
(* its indexes, limits, threads and settings do.  A task id is unused      *)
(* ("none"), or its task waits for a lease, is leased, is dead, or is      *)
(* gone.  Ids are handed out in sequence and a gone task does not come     *)
(* back.  Under a purge marker nothing is added or leased, and the marker  *)
(* is dropped together with everything else under the id.                  *)
(*                                                                         *)
(* Gateway composes these pools with the queues core, and TasksCore is     *)
(* checked to implement one of them (TasksImplementPool).                  *)
(***************************************************************************)
EXTENDS Integers

CONSTANTS
    PoolIds,        \* the queue ids
    MaxPoolTask     \* bound on the task ids under one queue id

VARIABLE pools

PoolTasks == 1 .. MaxPoolTask
PoolStates == {"none", "waiting", "leased", "dead", "gone"}
Pool == [status : [PoolTasks -> PoolStates], marked : BOOLEAN]
EmptyPool == [status |-> [t \in PoolTasks |-> "none"], marked |-> FALSE]

\* The changes of one task that one call may make.  Reports, restarts and
\* deletions do not look at the marker.
Moves(marked) ==
    {<<s, s>> : s \in PoolStates}
        \cup {"waiting", "leased", "dead"} \X {"gone"}
        \cup {<<"leased", "waiting">>, <<"leased", "dead">>, <<"dead", "waiting">>}
        \cup (IF marked THEN {} ELSE {<<"waiting", "leased">>})

\* The next id of the sequence is used.
PoolEnqueue(q, t) ==
    /\ ~pools[q].marked
    /\ \A u \in PoolTasks : pools[q].status[u] = "none" <=> u >= t
    /\ pools' = [pools EXCEPT ![q].status[t] = "waiting"]

PoolLease(q, t) ==
    /\ ~pools[q].marked /\ pools[q].status[t] = "waiting"
    /\ pools' = [pools EXCEPT ![q].status[t] = "leased"]

PoolComplete(q, t) ==
    /\ pools[q].status[t] = "leased"
    /\ pools' = [pools EXCEPT ![q].status[t] = "gone"]

PoolMark(q) == pools' = [pools EXCEPT ![q].marked = TRUE]

PoolDrain(q) ==
    /\ pools[q].marked
    /\ pools' = [pools EXCEPT ![q] = EmptyPool]

\* One call may move several tasks: Dequeue, the collections.
PoolMove(q) ==
    /\ pools' = [pools EXCEPT ![q].status = pools'[q].status]
    /\ \A t \in PoolTasks :
          <<pools[q].status[t], pools'[q].status[t]>> \in Moves(pools[q].marked)

PoolInit == pools = [q \in PoolIds |-> EmptyPool]

PoolNext ==
    \E q \in PoolIds :
        \/ \E t \in PoolTasks : PoolEnqueue(q, t)
        \/ PoolMark(q)
        \/ PoolDrain(q)
        \/ PoolMove(q)

PoolSpec == PoolInit /\ [][PoolNext]_pools
===============================================================================
