------------------------------- MODULE Gateway --------------------------------
(***************************************************************************)
(* The gateway handlers (pkg/server/v0/handler.go) between clients, the    *)
(* queues core and the tasks core.  Each gateway process caches queues by  *)
(* name for about a second, NotFound answers included; an entry can expire *)
(* at any step.  A request is a process of its own: between its cache      *)
(* lookup, its core calls and its cache writes other requests and other    *)
(* gateways take steps.  No transaction spans the two cores.               *)
(*                                                                         *)
(* The tasks core is the abstract pool of each queue id (TaskPool).  A     *)
(* task here is leased once at most, so the Attempt of a report is the one *)
(* of every lease and is left out.                                         *)
(*                                                                         *)
(* The settings that come with a queue are left out: they are the limits   *)
(* of TasksCore, and a Dequeue of a paused queue ends before it calls.     *)
(*                                                                         *)
(* ListTasks resolves and retries as Dequeue does, DeleteTasks,            *)
(* RestartTasks and GetTask resolve as ReportStatus does; they add no      *)
(* case.                                                                   *)
(***************************************************************************)
EXTENDS QueuesCore

CONSTANTS
    Gateways,
    Requests,
    Ops,              \* the requests clients make
    MaxPoolTask,      \* bound on the task ids under one queue id
    MarkerOutlives,   \* does a purge marker stay until no gateway uses its id?
    Crashes           \* may a gateway stop between two steps?

ASSUME GatewayAssumption ==
    /\ Ops \subseteq {"Enqueue", "Dequeue", "Purge", "Delete", "Report"}
    /\ MaxPoolTask \in Nat
    /\ MarkerOutlives \in BOOLEAN /\ Crashes \in BOOLEAN

VARIABLES
    pools,    \* the tasks core
    cache,    \* queuesCache of each gateway
    req,      \* the requests under way
    leases,   \* the leases workers hold, as <<queue id, task id>>
    closed,   \* the ids whose purge or deletion was acknowledged to the client
    cut       \* the ids whose purge or deletion a crash cut short

INSTANCE TaskPool WITH PoolIds <- QueueIds

gvars == <<qdb, clock, fate, seen, pools, cache, req, leases, closed, cut>>

\* An entry is the id of a cached queue, a cached NotFound, or absent.
NotFound == 0
Absent == -1
Entry == QueueIds \cup {NotFound, Absent}

\* queue is what the request resolved the name to; before is closed as it was
\* when the request began.
NoRequest == [op |-> None, pc |-> "idle", gateway |-> None, name |-> None,
              queue |-> Absent, retried |-> FALSE, task |-> 0, owner |-> 0, before |-> {}]

Done(r) == req' = [req EXCEPT ![r] = NoRequest]
Goto(r, pc) == req' = [req EXCEPT ![r].pc = pc]
At(r, ops, pc) == req[r].op \in ops /\ req[r].pc = pc

Resolvers == {"Enqueue", "Dequeue"}
Closers == {"Purge", "Delete"}

-------------------------------------------------------------------------------
(* getQueue, retryWithFreshQueueIfPurged and the calls behind them.        *)

\* Every pool has room for the tasks of the requests under way: a bound.
Room ==
    \A q \in QueueIds :
        Cardinality({t \in PoolTasks : pools[q].status[t] # "none"})
            + Cardinality({r \in Requests : req[r].op = "Enqueue"}) < MaxPoolTask

Begin(r, g, n, op) ==
    /\ req[r] = NoRequest /\ op # "Report"
    /\ op = "Enqueue" => Room
    /\ req' = [req EXCEPT ![r] = [NoRequest EXCEPT
                  !.op = op, !.gateway = g, !.name = n, !.before = closed,
                  !.pc = IF op \in Resolvers THEN "resolve" ELSE "close"]]
    /\ UNCHANGED <<qvars, pools, cache, leases, closed, cut>>

\* Mutant of Resolved: a cached NotFound is taken for a queue.
ResolvedMissing(r, queue) == req' = [req EXCEPT ![r].queue = queue, ![r].pc = "call"]

Resolved(r, queue) ==
    IF queue = NotFound THEN Done(r)
    ELSE req' = [req EXCEPT ![r].queue = queue, ![r].pc = "call"]

\* getQueue, with an entry in the cache and without.
Resolve(r) ==
    LET entry == cache[req[r].gateway][req[r].name] IN
    /\ At(r, Resolvers, "resolve")
    /\ IF entry # Absent THEN Resolved(r, entry)
       ELSE req' = [req EXCEPT ![r].queue = getByName(qdb, req[r].name),
                               ![r].pc = "loaded"]
    /\ UNCHANGED <<qvars, pools, cache, leases, closed, cut>>

\* What was read is cached in a later step, whatever happened in between.
CacheLoaded(r) ==
    /\ At(r, Resolvers, "loaded")
    /\ cache' = [cache EXCEPT ![req[r].gateway][req[r].name] = req[r].queue]
    /\ Resolved(r, req[r].queue)
    /\ UNCHANGED <<qvars, pools, leases, closed, cut>>

Expire(g, n) ==
    /\ cache[g][n] # Absent
    /\ cache' = [cache EXCEPT ![g][n] = Absent]
    /\ UNCHANGED <<qvars, pools, req, leases, closed, cut>>

\* The tasks core answered NotFound: drop the entry, resolve and try once more.
Refused(r) ==
    /\ cache' = IF req[r].retried THEN cache
                ELSE [cache EXCEPT ![req[r].gateway][req[r].name] = Absent]
    /\ IF req[r].retried THEN Done(r)
       ELSE req' = [req EXCEPT ![r].pc = "resolve", ![r].retried = TRUE,
                               ![r].queue = Absent]

CallRefused(r) ==
    /\ At(r, Resolvers, "call") /\ pools[req[r].queue].marked
    /\ Refused(r)
    /\ UNCHANGED <<qvars, pools, leases, closed, cut>>

CallEnqueue(r) ==
    /\ At(r, {"Enqueue"}, "call")
    /\ \E t \in PoolTasks : PoolEnqueue(req[r].queue, t)
    /\ Done(r)
    /\ UNCHANGED <<qvars, cache, leases, closed, cut>>

CallDequeue(r) ==
    LET q == req[r].queue IN
    /\ At(r, {"Dequeue"}, "call") /\ ~pools[q].marked
    /\ \/ \E t \in PoolTasks : /\ PoolLease(q, t)
                               /\ leases' = IF "Report" \in Ops
                                             THEN leases \cup {<<q, t>>} ELSE leases
       \/ /\ \A t \in PoolTasks : pools[q].status[t] # "waiting"
          /\ UNCHANGED <<pools, leases>>
    /\ Done(r)
    /\ UNCHANGED <<qvars, cache, closed, cut>>

-------------------------------------------------------------------------------
(* PurgeQueue and DeleteQueue: a call to the queues core, the entry of this *)
(* gateway's cache, a call to the tasks core.                              *)

Close(r) ==
    LET n == req[r].name
        old == getByName(qdb, n) IN
    /\ At(r, Closers, "close")
    /\ IF old = NotFound THEN Done(r) /\ UNCHANGED qvars
       ELSE /\ \/ req[r].op = "Delete" /\ DeleteQueue(n)
               \/ req[r].op = "Purge" /\ \E new \in QueueIds : SwapQueueId(n, new)
            /\ req' = [req EXCEPT ![r].queue = old, ![r].pc = "forget"]
    /\ UNCHANGED <<pools, cache, leases, closed, cut>>

Forget(r) ==
    /\ At(r, Closers, "forget")
    /\ cache' = [cache EXCEPT ![req[r].gateway][req[r].name] = Absent]
    /\ Goto(r, "mark")
    /\ UNCHANGED <<qvars, pools, leases, closed, cut>>

\* Mutant of Mark: the tasks under the old id are left alone.
MarkNothing(r) ==
    /\ At(r, Closers, "mark")
    /\ closed' = closed \cup {req[r].queue}
    /\ Done(r)
    /\ UNCHANGED <<qvars, pools, cache, leases, cut>>

Mark(r) ==
    /\ At(r, Closers, "mark")
    /\ PoolMark(req[r].queue)
    /\ closed' = closed \cup {req[r].queue}
    /\ Done(r)
    /\ UNCHANGED <<qvars, cache, leases, cut>>

-------------------------------------------------------------------------------
(* ReportStatus: the name is resolved by the queues core on every request, *)
(* and the task id of the report is looked up under the id it has now.     *)

BeginReport(r, g, n, lease) ==
    /\ req[r] = NoRequest /\ "Report" \in Ops
    /\ leases' = leases \ {lease}
    /\ req' = [req EXCEPT ![r] = [NoRequest EXCEPT
                  !.op = "Report", !.gateway = g, !.name = n, !.pc = "lookup",
                  !.owner = lease[1], !.task = lease[2]]]
    /\ UNCHANGED <<qvars, pools, cache, closed, cut>>

Lookup(r) ==
    LET q == getByName(qdb, req[r].name) IN
    /\ At(r, {"Report"}, "lookup")
    /\ IF q = NotFound THEN Done(r)
       ELSE req' = [req EXCEPT ![r].queue = q, ![r].pc = "apply"]
    /\ UNCHANGED <<qvars, pools, cache, leases, closed, cut>>

Apply(r) ==
    LET q == req[r].queue IN
    /\ At(r, {"Report"}, "apply")
    /\ \/ PoolComplete(q, req[r].task)
       \/ pools[q].status[req[r].task] # "leased" /\ pools' = pools
    /\ Done(r)
    /\ UNCHANGED <<qvars, cache, leases, closed, cut>>

-------------------------------------------------------------------------------
(* The tasks worker, crashes, the specification.                           *)

\* The id is neither cached nor resolved by a request under way.
Unused(q) ==
    /\ \A g \in Gateways, n \in QueueNames : cache[g][n] # q
    /\ \A r \in Requests : req[r].queue # q

Collect(q) ==
    /\ PoolDrain(q)
    /\ MarkerOutlives => Unused(q)
    /\ UNCHANGED <<qvars, cache, req, leases, closed, cut>>

\* The id lost its name and its tasks are not marked yet.
Closing(r) == At(r, Closers, "forget") \/ At(r, Closers, "mark")

Crash(g) ==
    /\ Crashes
    /\ req' = [r \in Requests |-> IF req[r].gateway = g THEN NoRequest ELSE req[r]]
    /\ cache' = [cache EXCEPT ![g] = [n \in QueueNames |-> Absent]]
    /\ cut' = cut \cup {req[r].queue : r \in {s \in Requests : req[s].gateway = g /\ Closing(s)}}
    /\ UNCHANGED <<qvars, pools, leases, closed>>

\* CreateQueue through a gateway leaves its cache alone.
Create ==
    /\ \E n \in QueueNames, q \in QueueIds, x \in Settings : CreateQueue(n, q, x)
    /\ UNCHANGED <<pools, cache, req, leases, closed, cut>>

Step(r) ==
    \/ Resolve(r) \/ CacheLoaded(r)
    \/ CallRefused(r) \/ CallEnqueue(r) \/ CallDequeue(r)
    \/ Close(r) \/ Forget(r) \/ Mark(r)
    \/ Lookup(r) \/ Apply(r)

GatewayInit ==
    /\ Init
    /\ PoolInit
    /\ cache = [g \in Gateways |-> [n \in QueueNames |-> Absent]]
    /\ req = [r \in Requests |-> NoRequest]
    /\ leases = {} /\ closed = {} /\ cut = {}

GatewayNext ==
    \/ Create
    \/ \E r \in Requests :
          \/ Step(r)
          \/ \E g \in Gateways, n \in QueueNames :
                \/ \E op \in Ops : Begin(r, g, n, op)
                \/ \E lease \in leases : BeginReport(r, g, n, lease)
    \/ \E g \in Gateways : Crash(g) \/ \E n \in QueueNames : Expire(g, n)
    \/ \E q \in QueueIds : Collect(q)

GatewaySpec == GatewayInit /\ [][GatewayNext]_gvars

-------------------------------------------------------------------------------
(* Properties.                                                             *)

\* The variables have their types, and a request that calls a core has an id.
GatewayTypeOK ==
    /\ pools \in [QueueIds -> Pool]
    /\ cache \in [Gateways -> [QueueNames -> Entry]]
    /\ \A r \in Requests :
          /\ req[r].queue \in Entry /\ req[r].before \subseteq QueueIds
          /\ req[r].pc \in {"idle", "resolve", "loaded", "call", "close", "forget",
                            "mark", "lookup", "apply"}
          /\ req[r].pc \in {"call", "forget", "mark", "apply"} => req[r].queue \in QueueIds
    /\ leases \subseteq QueueIds \X PoolTasks /\ closed \subseteq QueueIds /\ cut \subseteq QueueIds

\* Once a purge or a deletion was acknowledged, a request that begins later,
\* through whichever gateway, neither adds a task under the old id nor leases
\* one from it (docs/api/v0/purge-queue.md, handler.go:120).
PurgeHolds ==
    [][\A r \in Requests :
          At(r, Resolvers, "call") /\ req'[r] = NoRequest
             /\ pools'[req[r].queue] # pools[req[r].queue]
          => req[r].queue \notin req[r].before]_gvars

\* What is left under an id that lost its name is marked for the tasks worker
\* to drain, or the request that took the name is about to mark it.
Kept(q) ==
    fate[q] \in {"swapped", "deleted"} /\ pools[q] # EmptyPool =>
        pools[q].marked \/ \E r \in Requests : Closing(r) /\ req[r].queue = q

\* The tasks under an id that a purge or a deletion took the name from are not
\* left there, whichever requests race with it and whatever the gateways
\* cached, unless the gateway stops between its calls to the two cores.
StrandedOnlyByCrash == \A q \in QueueIds \ cut : Kept(q)

\* Purges and deletions leave no tasks "to rot forever unreachable"
\* (handler.go:118).
NothingStranded == \A q \in QueueIds : Kept(q)

\* A report settles the task its worker was given, or nothing
\* (docs/retries.md:23): it is applied under the id the lease came from.
ReportsSettleOwnTask ==
    [][\A r \in Requests :
          At(r, {"Report"}, "apply") /\ req'[r] = NoRequest /\ pools' # pools
          => req[r].queue = req[r].owner]_gvars
===============================================================================
