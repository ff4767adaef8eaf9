----------------------------- MODULE GatewayProofs ----------------------------
(***************************************************************************)
(* Proofs about Gateway, on top of the invariant of the queues core.  An   *)
(* id that lost its name is safe once it is settled: its tasks carry the   *)
(* marker, or they are gone and nobody can reach the id any more.          *)
(***************************************************************************)
EXTENDS Gateway, QueuesCoreProofs

Gone == {"swapped", "deleted"}

Pcs == {"idle", "resolve", "loaded", "call", "close", "forget", "mark", "lookup", "apply"}

Request == [op : Ops \cup {None}, pc : Pcs, gateway : Gateways \cup {None},
            name : QueueNames \cup {None}, queue : Entry, retried : BOOLEAN,
            task : PoolTasks \cup {0}, owner : QueueIds \cup {0}, before : SUBSET QueueIds]

\* A request knows its gateway and name, and has an id before it uses one.
RequestOK(x) ==
    /\ x.op # None => x.gateway \in Gateways /\ x.name \in QueueNames
    /\ x.pc \in {"call", "forget", "mark", "apply"} => x.queue \in QueueIds
    /\ x.pc = "loaded" => x.queue # Absent

Typed ==
    /\ pools \in [QueueIds -> Pool]
    /\ cache \in [Gateways -> [QueueNames -> Entry]]
    /\ req \in [Requests -> Request] /\ \A r \in Requests : RequestOK(req[r])
    /\ leases \subseteq QueueIds \X PoolTasks /\ closed \subseteq QueueIds /\ cut \subseteq QueueIds

\* A request is between taking the name of q and marking its tasks.
BeingClosed(q) == \E r \in Requests : Closing(r) /\ req[r].queue = q

Settled(q) == pools[q].marked \/ (pools[q] = EmptyPool /\ Unused(q))

\* The inductive invariant, beside that of the queues core.
GatewayInv ==
    /\ Typed
    /\ \A r \in Requests : Closing(r) => fate[req[r].queue] \in Gone
    /\ \A r \in Requests : req[r].before \subseteq closed
    /\ MarkerOutlives =>
          /\ \A q \in closed : fate[q] \in Gone /\ Settled(q)
          /\ \A q \in QueueIds \ cut : fate[q] \in Gone => Settled(q) \/ BeingClosed(q)

\* What a step may do to the ids: one that lost its name stays lost, is not
\* taken into use again, and keeps its marker until its tasks are gone.
Orderly ==
    /\ \A q \in QueueIds :
          /\ fate[q] \in Gone => fate'[q] \in Gone
          /\ fate'[q] \in Gone => fate[q] \in Gone \/ BeingClosed(q)'
          /\ fate[q] \in Gone /\ Unused(q) => Unused(q)'
          /\ Unused(q) /\ pools[q] = EmptyPool => pools'[q] = EmptyPool
          /\ pools[q].marked => \/ pools'[q].marked
                                \/ pools'[q] = EmptyPool /\ (MarkerOutlives => Unused(q)')
          /\ BeingClosed(q) => BeingClosed(q)' \/ q \in cut' \/ pools'[q].marked
    /\ closed \subseteq closed' /\ cut \subseteq cut'
    /\ \A q \in closed' \ closed : fate'[q] \in Gone /\ pools'[q].marked
    /\ \A r \in Requests : req'[r].before \subseteq closed'
    /\ \A r \in Requests : Closing(r)' => fate'[req'[r].queue] \in Gone

LEMMA OrderlyInv == GatewayInv /\ Typed' /\ Orderly => GatewayInv'
<1> SUFFICES ASSUME GatewayInv, Typed', Orderly PROVE GatewayInv'
  OBVIOUS
<1>1. /\ \A r \in Requests : Closing(r)' => fate'[req'[r].queue] \in Gone
      /\ \A r \in Requests : req'[r].before \subseteq closed'
  BY Zenon DEF Orderly
<1>2. ASSUME MarkerOutlives, NEW q \in QueueIds, fate[q] \in Gone, Settled(q)
      PROVE  Settled(q)'
  BY <1>2, Zenon DEF Orderly, Settled
<1>3. closed \subseteq QueueIds /\ closed' \subseteq QueueIds
  BY Zenon DEF GatewayInv, Typed
<1>4. ASSUME MarkerOutlives, NEW q \in closed'
      PROVE  fate'[q] \in Gone /\ Settled(q)'
  <2>1. CASE q \in closed
    <3>1. q \in QueueIds /\ fate[q] \in Gone /\ Settled(q)
      BY <1>3, <1>4, <2>1, Zenon DEF GatewayInv
    <3>. QED
      BY <3>1, <1>2, <1>4, Zenon DEF Orderly
  <2>2. CASE q \notin closed
    BY <1>4, <2>2, Zenon DEF Orderly, Settled
  <2>. QED
    BY <2>1, <2>2
<1>5. ASSUME MarkerOutlives, NEW q \in QueueIds \ cut', fate'[q] \in Gone
      PROVE  Settled(q)' \/ BeingClosed(q)'
  <2>1. q \in QueueIds \ cut
    BY <1>5, Zenon DEF Orderly
  <2>2. CASE fate[q] \notin Gone
    BY <1>5, <2>1, <2>2, Zenon DEF Orderly
  <2>3. CASE fate[q] \in Gone /\ Settled(q)
    BY <1>2, <1>5, <2>3
  <2>4. CASE fate[q] \in Gone /\ BeingClosed(q)
    BY <1>5, <2>4, Zenon DEF Orderly, Settled
  <2>. QED
    BY <1>5, <2>1, <2>2, <2>3, <2>4, Zenon DEF GatewayInv
<1>. QED
  BY <1>1, <1>4, <1>5, Zenon DEF GatewayInv

-------------------------------------------------------------------------------
(* Steps.                                                                  *)

LEMMA GatewayIds ==
  /\ NotFound \notin QueueIds /\ Absent \notin QueueIds /\ NotFound # Absent
  /\ QueueIds \subseteq Entry /\ NotFound \in Entry /\ Absent \in Entry
BY QueuesAssumption DEF NotFound, Absent, Entry, QueueIds

LEMMA Resolves ==
  ASSUME IInv, NEW n \in QueueNames
  PROVE  /\ getByName(qdb, n) \in QueueIds \cup {NotFound}
         /\ getByName(qdb, n) # NotFound => fate[getByName(qdb, n)] = "live"
<1>1. qdb \in Qdb /\ NamesOK(qdb) /\ FateOK(qdb, fate)
  BY IInvTables DEF IInv
<1>2. NotFound = 0
  BY DEF NotFound
<1>. QED
  BY <1>1, <1>2, LookupQueue, Zenon DEF FateOK

LEMMA NoRequestOK == NoRequest \in Request /\ RequestOK(NoRequest)
BY GatewayIds DEF NoRequest, Request, RequestOK, Pcs

\* One request moves, the others stay.
LEMMA OneRequest ==
  ASSUME Typed, NEW r \in Requests, NEW x \in Request, RequestOK(x),
         req' = [req EXCEPT ![r] = x]
  PROVE  /\ req' \in [Requests -> Request] /\ \A s \in Requests : RequestOK(req'[s])
         /\ req'[r] = x /\ \A s \in Requests \ {r} : req'[s] = req[s]
<1>1. req \in [Requests -> Request] /\ \A s \in Requests : RequestOK(req[s])
  BY DEF Typed
<1>. QED
  BY <1>1

\* A step of a request that leaves the cores alone.
LEMMA RequestMoves ==
  ASSUME GatewayInv, NEW r \in Requests, NEW x \in Request, RequestOK(x),
         req' = [req EXCEPT ![r] = x],
         cache' \in [Gateways -> [QueueNames -> Entry]], leases' \subseteq QueueIds \X PoolTasks,
         UNCHANGED <<qvars, pools, closed, cut>>,
         \* the request takes up no id that lost its name, and caches none it does not use
         \A q \in QueueIds : fate[q] \in Gone /\ Unused(q) =>
             x.queue # q /\ \A g \in Gateways, n \in QueueNames : cache'[g][n] # q,
         Closing(r) => /\ x.op \in Closers /\ x.pc \in {"forget", "mark"}
                       /\ x.queue = req[r].queue,
         ~Closing(r) => ~(x.op \in Closers /\ x.pc \in {"forget", "mark"}),
         x.before \subseteq closed
  PROVE  GatewayInv'
<1>1. /\ req' \in [Requests -> Request] /\ \A s \in Requests : RequestOK(req'[s])
      /\ req'[r] = x /\ \A s \in Requests \ {r} : req'[s] = req[s]
  BY OneRequest DEF GatewayInv
<1>2. Typed'
  BY <1>1, Zenon DEF GatewayInv, Typed
<1>3. \A s \in Requests : /\ Closing(s)' <=> Closing(s)
                          /\ Closing(s) => req'[s].queue = req[s].queue
  BY <1>1 DEF Closing, At
<1>4. fate' = fate /\ pools' = pools /\ closed' = closed /\ cut' = cut
  BY DEF qvars
<1>5. \A q \in QueueIds : BeingClosed(q) => BeingClosed(q)'
  BY <1>3, Zenon DEF BeingClosed
<1>6. \A q \in QueueIds : fate[q] \in Gone /\ Unused(q) => Unused(q)'
  BY <1>1, Zenon DEF Unused
<1>7. \A s \in Requests : req'[s].before \subseteq closed'
  BY <1>1, <1>4, Zenon DEF GatewayInv
<1>8. \A s \in Requests : Closing(s)' => fate'[req'[s].queue] \in Gone
  BY <1>3, <1>4 DEF GatewayInv
<1>9. Orderly
  BY <1>4, <1>5, <1>6, <1>7, <1>8, Zenon DEF Orderly
<1>. QED
  BY <1>2, <1>9, OrderlyInv
\* A step in which requests, caches and queues stay.
LEMMA Quiet ==
  ASSUME GatewayInv, UNCHANGED <<fate, pools, cache, req, leases, closed, cut>>
  PROVE  GatewayInv'
BY DEF GatewayInv, Typed, Closing, At, Settled, Unused, BeingClosed

LEMMA BeginStep ==
  ASSUME GatewayInv, NEW r \in Requests, NEW g \in Gateways, NEW n \in QueueNames,
         NEW op \in Ops, Begin(r, g, n, op)
  PROVE  GatewayInv'
<1> DEFINE x == [NoRequest EXCEPT !.op = op, !.gateway = g, !.name = n, !.before = closed,
                    !.pc = IF op \in Resolvers THEN "resolve" ELSE "close"]
<1>1. /\ req[r] = NoRequest /\ req' = [req EXCEPT ![r] = x]
      /\ UNCHANGED <<qvars, pools, cache, leases, closed, cut>>
  BY DEF Begin
<1>2. closed \subseteq QueueIds /\ cache \in [Gateways -> [QueueNames -> Entry]]
      /\ leases \subseteq QueueIds \X PoolTasks
  BY Zenon DEF GatewayInv, Typed
<1>3. x \in Request /\ RequestOK(x)
  BY <1>2, GatewayIds DEF NoRequest, Request, RequestOK, Pcs
<1>4. /\ x.queue = Absent /\ x.pc \notin {"forget", "mark"} /\ x.before = closed
      /\ ~Closing(r)
  BY <1>1 DEF NoRequest, Closing, At, Closers
<1>. HIDE DEF x
<1>5. \A q \in QueueIds : fate[q] \in Gone /\ Unused(q) =>
         x.queue # q /\ \A h \in Gateways, m \in QueueNames : cache'[h][m] # q
  BY <1>1, <1>4, GatewayIds DEF Unused
<1>. QED
  BY <1>1, <1>2, <1>3, <1>4, <1>5, RequestMoves

LEMMA BeginReportStep ==
  ASSUME GatewayInv, NEW r \in Requests, NEW g \in Gateways, NEW n \in QueueNames,
         NEW lease \in leases, BeginReport(r, g, n, lease)
  PROVE  GatewayInv'
<1> DEFINE x == [NoRequest EXCEPT !.op = "Report", !.gateway = g, !.name = n, !.pc = "lookup",
                    !.owner = lease[1], !.task = lease[2]]
<1>1. /\ req[r] = NoRequest /\ req' = [req EXCEPT ![r] = x] /\ "Report" \in Ops
      /\ leases' = leases \ {lease} /\ UNCHANGED <<qvars, pools, cache, closed, cut>>
  BY DEF BeginReport
<1>2. cache \in [Gateways -> [QueueNames -> Entry]] /\ leases \subseteq QueueIds \X PoolTasks
  BY Zenon DEF GatewayInv, Typed
<1>3. x \in Request /\ RequestOK(x)
  BY <1>1, <1>2, GatewayIds DEF NoRequest, Request, RequestOK, Pcs
<1>4. /\ x.queue = Absent /\ x.pc \notin {"forget", "mark"} /\ x.before = {}
      /\ ~Closing(r)
  BY <1>1 DEF NoRequest, Closing, At, Closers
<1>. HIDE DEF x
<1>5. \A q \in QueueIds : fate[q] \in Gone /\ Unused(q) =>
         x.queue # q /\ \A h \in Gateways, m \in QueueNames : cache'[h][m] # q
  BY <1>1, <1>4, GatewayIds DEF Unused
<1>6. leases' \subseteq QueueIds \X PoolTasks
  BY <1>1, <1>2
<1>. QED
  BY <1>1, <1>2, <1>3, <1>4, <1>5, <1>6, RequestMoves

\* The request ends, or its queue and pc change and nothing else.
LEMMA Movable ==
  ASSUME GatewayInv, NEW r \in Requests, req[r].op # None
  PROVE  /\ req[r] \in Request /\ RequestOK(req[r]) /\ req[r].before \subseteq closed
         /\ req[r].gateway \in Gateways /\ req[r].name \in QueueNames
         /\ cache[req[r].gateway][req[r].name] \in Entry
         /\ cache \in [Gateways -> [QueueNames -> Entry]]
         /\ leases \subseteq QueueIds \X PoolTasks
<1>1. req[r] \in Request /\ RequestOK(req[r]) /\ req[r].before \subseteq closed
      /\ cache \in [Gateways -> [QueueNames -> Entry]] /\ leases \subseteq QueueIds \X PoolTasks
  BY Zenon DEF GatewayInv, Typed
<1>2. req[r].gateway \in Gateways /\ req[r].name \in QueueNames
  BY <1>1 DEF RequestOK
<1>. QED
  BY <1>1, <1>2

\* The request ends; only its gateway's cache may have changed.
LEMMA RequestEnds ==
  ASSUME GatewayInv, NEW r \in Requests, Done(r), ~Closing(r),
         cache' \in [Gateways -> [QueueNames -> Entry]], leases' \subseteq QueueIds \X PoolTasks,
         UNCHANGED <<qvars, pools, closed, cut>>,
         \A q \in QueueIds : fate[q] \in Gone /\ Unused(q) =>
             \A g \in Gateways, n \in QueueNames : cache'[g][n] # q
  PROVE  GatewayInv'
<1>1. req' = [req EXCEPT ![r] = NoRequest]
  BY DEF Done
<1>2. NoRequest.queue = Absent /\ NoRequest.pc = "idle" /\ NoRequest.before = {}
  BY DEF NoRequest
<1>3. \A q \in QueueIds : fate[q] \in Gone /\ Unused(q) =>
         NoRequest.queue # q /\ \A g \in Gateways, n \in QueueNames : cache'[g][n] # q
  BY <1>2, GatewayIds
<1>4. ~(NoRequest.op \in Closers /\ NoRequest.pc \in {"forget", "mark"})
  BY <1>2
<1>. HIDE DEF NoRequest
<1>. QED
  BY <1>1, <1>2, <1>3, <1>4, NoRequestOK, RequestMoves

LEMMA ResolvedStep ==
  ASSUME GatewayInv, NEW r \in Requests, NEW queue \in QueueIds \cup {NotFound},
         req[r].op \in Resolvers, Resolved(r, queue),
         cache' \in [Gateways -> [QueueNames -> Entry]],
         UNCHANGED <<qvars, pools, leases, closed, cut>>,
         \A q \in QueueIds : fate[q] \in Gone /\ Unused(q) =>
             queue # q /\ \A g \in Gateways, n \in QueueNames : cache'[g][n] # q
  PROVE  GatewayInv'
<1>1. req[r].op # None /\ ~Closing(r) /\ req[r].op \notin Closers
  BY DEF Resolvers, Closing, At, Closers, None
<1>2. /\ req[r] \in Request /\ RequestOK(req[r]) /\ req[r].before \subseteq closed
      /\ leases \subseteq QueueIds \X PoolTasks
  BY <1>1, Movable
<1>3. CASE queue = NotFound
  BY <1>1, <1>2, <1>3, RequestEnds DEF Resolved
<1>4. CASE queue # NotFound
  <2> DEFINE x == [req[r] EXCEPT !.queue = queue, !.pc = "call"]
  <2>1. queue \in QueueIds /\ req' = [req EXCEPT ![r] = x]
    <3>1. req' = [req EXCEPT ![r].queue = queue, ![r].pc = "call"]
      BY <1>4 DEF Resolved
    <3>2. req \in [Requests -> Request]
      BY Zenon DEF GatewayInv, Typed
    <3>. QED
      BY <1>4, <3>1, <3>2
  <2>2. /\ x \in Request /\ RequestOK(x) /\ x.queue = queue /\ x.op = req[r].op
        /\ x.before = req[r].before
    BY <1>2, <2>1, GatewayIds DEF Request, RequestOK, Pcs
  <2>. HIDE DEF x
  <2>. QED
    BY <1>1, <1>2, <2>1, <2>2, RequestMoves
<1>. QED
  BY <1>3, <1>4
LEMMA ResolveStep ==
  ASSUME IInv, GatewayInv, NEW r \in Requests, Resolve(r)
  PROVE  GatewayInv'
<1> DEFINE entry == cache[req[r].gateway][req[r].name]
           loaded == getByName(qdb, req[r].name)
<1>1. /\ req[r].op \in Resolvers /\ UNCHANGED <<qvars, pools, cache, leases, closed, cut>>
      /\ IF entry # Absent THEN Resolved(r, entry)
         ELSE req' = [req EXCEPT ![r].queue = loaded, ![r].pc = "loaded"]
  BY DEF Resolve, At
<1>2. req[r].op # None /\ ~Closing(r) /\ req[r].op \notin Closers
  BY <1>1 DEF Resolvers, Closing, At, Closers, None
<1>3. /\ req[r] \in Request /\ RequestOK(req[r]) /\ req[r].before \subseteq closed
      /\ req[r].gateway \in Gateways /\ req[r].name \in QueueNames /\ entry \in Entry
      /\ cache \in [Gateways -> [QueueNames -> Entry]]
      /\ leases \subseteq QueueIds \X PoolTasks
  BY <1>2, Movable
<1>4. CASE entry # Absent
  <2>1. entry \in QueueIds \cup {NotFound}
    BY <1>3, <1>4 DEF Entry
  <2>2. \A q \in QueueIds : fate[q] \in Gone /\ Unused(q) =>
           entry # q /\ \A g \in Gateways, n \in QueueNames : cache'[g][n] # q
    BY <1>1, <1>3, Zenon DEF Unused
  <2>. HIDE DEF entry
  <2>. QED
    BY <1>1, <1>3, <1>4, <2>1, <2>2, ResolvedStep
<1>5. CASE entry = Absent
  <2> DEFINE x == [req[r] EXCEPT !.queue = loaded, !.pc = "loaded"]
  <2>1. /\ loaded \in QueueIds \cup {NotFound}
        /\ loaded # NotFound => fate[loaded] = "live"
    BY <1>3, Resolves
  <2>. HIDE DEF loaded
  <2>2. req' = [req EXCEPT ![r] = x]
    <3>1. req \in [Requests -> Request]
      BY Zenon DEF GatewayInv, Typed
    <3>. QED
      BY <1>1, <1>5, <3>1
  <2>3. /\ x \in Request /\ RequestOK(x) /\ x.queue = loaded /\ x.op = req[r].op
        /\ x.before = req[r].before
    BY <1>3, <2>1, GatewayIds DEF Request, RequestOK, Pcs
  <2>4. \A q \in QueueIds : fate[q] \in Gone /\ Unused(q) =>
           loaded # q /\ \A g \in Gateways, n \in QueueNames : cache'[g][n] # q
    BY <1>1, <2>1, GatewayIds DEF Unused, Gone
  <2>. HIDE DEF x
  <2>. QED
    BY <1>1, <1>2, <1>3, <2>2, <2>3, <2>4, RequestMoves
<1>. QED
  BY <1>4, <1>5

\* One entry of one cache changes.
LEMMA OneEntry ==
  ASSUME GatewayInv, NEW g \in Gateways, NEW n \in QueueNames, NEW entry \in Entry,
         cache' = [cache EXCEPT ![g][n] = entry]
  PROVE  /\ cache' \in [Gateways -> [QueueNames -> Entry]]
         /\ \A h \in Gateways, m \in QueueNames :
               cache'[h][m] = entry \/ cache'[h][m] = cache[h][m]
<1>1. cache \in [Gateways -> [QueueNames -> Entry]]
  BY Zenon DEF GatewayInv, Typed
<1>. QED
  BY <1>1

LEMMA CacheLoadedStep ==
  ASSUME IInv, GatewayInv, NEW r \in Requests, CacheLoaded(r)
  PROVE  GatewayInv'
<1> DEFINE queue == req[r].queue
<1>1. /\ req[r].op \in Resolvers /\ req[r].pc = "loaded" /\ Resolved(r, queue)
      /\ cache' = [cache EXCEPT ![req[r].gateway][req[r].name] = queue]
      /\ UNCHANGED <<qvars, pools, leases, closed, cut>>
  BY DEF CacheLoaded, At
<1>2. req[r].op # None
  BY <1>1 DEF Resolvers, None
<1>3. /\ req[r] \in Request /\ RequestOK(req[r])
      /\ req[r].gateway \in Gateways /\ req[r].name \in QueueNames
  BY <1>2, Movable
<1>4. queue \in Entry /\ queue # Absent
  BY <1>1, <1>3 DEF Request, RequestOK
<1>5. queue \in QueueIds \cup {NotFound}
  BY <1>4 DEF Entry
<1>6. /\ cache' \in [Gateways -> [QueueNames -> Entry]]
      /\ \A h \in Gateways, m \in QueueNames :
            cache'[h][m] = queue \/ cache'[h][m] = cache[h][m]
  BY <1>1, <1>3, <1>4, OneEntry
<1>7. \A q \in QueueIds : fate[q] \in Gone /\ Unused(q) =>
         queue # q /\ \A g \in Gateways, n \in QueueNames : cache'[g][n] # q
  BY <1>6, Zenon DEF Unused
<1>. HIDE DEF queue
<1>. QED
  BY <1>1, <1>5, <1>6, <1>7, ResolvedStep

LEMMA ExpireStep ==
  ASSUME GatewayInv, NEW g \in Gateways, NEW n \in QueueNames, Expire(g, n)
  PROVE  GatewayInv'
<1>1. /\ cache' = [cache EXCEPT ![g][n] = Absent]
      /\ UNCHANGED <<qvars, pools, req, leases, closed, cut>>
  BY DEF Expire
<1>2. /\ cache' \in [Gateways -> [QueueNames -> Entry]]
      /\ \A h \in Gateways, m \in QueueNames :
            cache'[h][m] = Absent \/ cache'[h][m] = cache[h][m]
  BY <1>1, GatewayIds, OneEntry
<1>3. fate' = fate /\ pools' = pools /\ closed' = closed /\ cut' = cut /\ req' = req
  BY <1>1 DEF qvars
<1>4. Typed'
  BY <1>1, <1>2, Zenon DEF GatewayInv, Typed
<1>5. \A q \in QueueIds : Unused(q) => Unused(q)'
  BY <1>2, <1>3, GatewayIds DEF Unused
<1>6. \A r \in Requests : Closing(r)' <=> Closing(r)
  BY <1>3, Zenon DEF Closing, At
<1>7. \A q \in QueueIds : BeingClosed(q) => BeingClosed(q)'
  BY <1>3, <1>6, Zenon DEF BeingClosed
<1>8. Orderly
  BY <1>3, <1>5, <1>6, <1>7, Zenon DEF Orderly, GatewayInv
<1>. QED
  BY <1>4, <1>8, OrderlyInv

LEMMA CallRefusedStep ==
  ASSUME GatewayInv, NEW r \in Requests, CallRefused(r)
  PROVE  GatewayInv'
<1>1. /\ req[r].op \in Resolvers /\ Refused(r)
      /\ UNCHANGED <<qvars, pools, leases, closed, cut>>
  BY DEF CallRefused, At
<1>2. req[r].op # None /\ ~Closing(r) /\ req[r].op \notin Closers
  BY <1>1 DEF Resolvers, Closing, At, Closers, None
<1>3. /\ req[r] \in Request /\ RequestOK(req[r]) /\ req[r].before \subseteq closed
      /\ req[r].gateway \in Gateways /\ req[r].name \in QueueNames
      /\ cache \in [Gateways -> [QueueNames -> Entry]]
      /\ leases \subseteq QueueIds \X PoolTasks
  BY <1>2, Movable
<1>4. CASE req[r].retried
  <2>1. cache' = cache /\ Done(r)
    BY <1>1, <1>4 DEF Refused
  <2>2. \A q \in QueueIds : fate[q] \in Gone /\ Unused(q) =>
           \A g \in Gateways, n \in QueueNames : cache'[g][n] # q
    BY <2>1, Zenon DEF Unused
  <2>. QED
    BY <1>1, <1>2, <1>3, <2>1, <2>2, RequestEnds
<1>5. CASE ~req[r].retried
  <2> DEFINE x == [req[r] EXCEPT !.pc = "resolve", !.retried = TRUE, !.queue = Absent]
  <2>1. req' = [req EXCEPT ![r] = x]
    <3>1. req \in [Requests -> Request]
      BY Zenon DEF GatewayInv, Typed
    <3>. QED
      BY <1>1, <1>5, <3>1 DEF Refused
  <2>2. cache' = [cache EXCEPT ![req[r].gateway][req[r].name] = Absent]
    BY <1>1, <1>5 DEF Refused
  <2>3. /\ cache' \in [Gateways -> [QueueNames -> Entry]]
        /\ \A h \in Gateways, m \in QueueNames :
              cache'[h][m] = Absent \/ cache'[h][m] = cache[h][m]
    BY <1>3, <2>2, GatewayIds, OneEntry
  <2>4. /\ x \in Request /\ RequestOK(x) /\ x.queue = Absent /\ x.op = req[r].op
        /\ x.before = req[r].before
    BY <1>3, GatewayIds DEF Request, RequestOK, Pcs
  <2>. HIDE DEF x
  <2>5. \A q \in QueueIds : fate[q] \in Gone /\ Unused(q) =>
           x.queue # q /\ \A g \in Gateways, n \in QueueNames : cache'[g][n] # q
    BY <2>3, <2>4, GatewayIds DEF Unused
  <2>. QED
    BY <1>1, <1>2, <1>3, <2>1, <2>3, <2>4, <2>5, RequestMoves
<1>. QED
  BY <1>4, <1>5
LEMMA ForgetStep ==
  ASSUME GatewayInv, NEW r \in Requests, Forget(r)
  PROVE  GatewayInv'
<1> DEFINE x == [req[r] EXCEPT !.pc = "mark"]
<1>1. /\ req[r].op \in Closers /\ req[r].pc = "forget" /\ Goto(r, "mark")
      /\ cache' = [cache EXCEPT ![req[r].gateway][req[r].name] = Absent]
      /\ UNCHANGED <<qvars, pools, leases, closed, cut>>
  BY DEF Forget, At
<1>2. req[r].op # None /\ Closing(r)
  BY <1>1 DEF Closing, At, Closers, None
<1>3. /\ req[r] \in Request /\ RequestOK(req[r]) /\ req[r].before \subseteq closed
      /\ req[r].gateway \in Gateways /\ req[r].name \in QueueNames
      /\ leases \subseteq QueueIds \X PoolTasks
  BY <1>2, Movable
<1>4. req' = [req EXCEPT ![r] = x]
  <2>1. req \in [Requests -> Request]
    BY Zenon DEF GatewayInv, Typed
  <2>. QED
    BY <1>1, <2>1 DEF Goto
<1>5. /\ cache' \in [Gateways -> [QueueNames -> Entry]]
      /\ \A h \in Gateways, m \in QueueNames :
            cache'[h][m] = Absent \/ cache'[h][m] = cache[h][m]
  BY <1>1, <1>3, GatewayIds, OneEntry
<1>6. /\ x \in Request /\ RequestOK(x) /\ x.queue = req[r].queue /\ x.op = req[r].op
      /\ x.before = req[r].before /\ x.pc = "mark"
  BY <1>1, <1>3, GatewayIds DEF Request, RequestOK, Pcs
<1>. HIDE DEF x
<1>7. \A q \in QueueIds : fate[q] \in Gone /\ Unused(q) =>
         x.queue # q /\ \A g \in Gateways, n \in QueueNames : cache'[g][n] # q
  BY <1>5, <1>6, GatewayIds DEF Unused
<1>. QED
  BY <1>1, <1>2, <1>3, <1>4, <1>5, <1>6, <1>7, RequestMoves

LEMMA LookupStep ==
  ASSUME IInv, GatewayInv, NEW r \in Requests, Lookup(r)
  PROVE  GatewayInv'
<1> DEFINE q == getByName(qdb, req[r].name)
           x == [req[r] EXCEPT !.queue = q, !.pc = "apply"]
<1>1. /\ req[r].op = "Report" /\ UNCHANGED <<qvars, pools, cache, leases, closed, cut>>
      /\ IF q = NotFound THEN Done(r)
         ELSE req' = [req EXCEPT ![r].queue = q, ![r].pc = "apply"]
  BY DEF Lookup, At
<1>2. req[r].op # None /\ ~Closing(r) /\ req[r].op \notin Closers
  BY <1>1 DEF Closing, At, Closers, None
<1>3. /\ req[r] \in Request /\ RequestOK(req[r]) /\ req[r].before \subseteq closed
      /\ req[r].gateway \in Gateways /\ req[r].name \in QueueNames
      /\ cache \in [Gateways -> [QueueNames -> Entry]]
      /\ leases \subseteq QueueIds \X PoolTasks
  BY <1>2, Movable
<1>4. q \in QueueIds \cup {NotFound} /\ (q # NotFound => fate[q] = "live")
  BY <1>3, Resolves
<1>. HIDE DEF q
<1>5. \A p \in QueueIds : fate[p] \in Gone /\ Unused(p) =>
         q # p /\ \A g \in Gateways, n \in QueueNames : cache'[g][n] # p
  BY <1>1, <1>4, GatewayIds DEF Unused, Gone
<1>6. CASE q = NotFound
  BY <1>1, <1>2, <1>3, <1>5, <1>6, RequestEnds
<1>7. CASE q # NotFound
  <2>1. q \in QueueIds /\ req' = [req EXCEPT ![r] = x]
    <3>1. req \in [Requests -> Request]
      BY Zenon DEF GatewayInv, Typed
    <3>. QED
      BY <1>1, <1>4, <1>7, <3>1
  <2>2. /\ x \in Request /\ RequestOK(x) /\ x.queue = q /\ x.op = req[r].op
        /\ x.before = req[r].before
    BY <1>3, <2>1, GatewayIds DEF Request, RequestOK, Pcs
  <2>. HIDE DEF x
  <2>. QED
    BY <1>1, <1>2, <1>3, <1>5, <2>1, <2>2, RequestMoves
<1>. QED
  BY <1>6, <1>7

\* A request ends with a call that touches the tasks under its id.
LEMMA RequestCalls ==
  ASSUME GatewayInv, NEW r \in Requests, Done(r), NEW q \in QueueIds, req[r].queue = q,
         ~Closing(r) \/ pools'[q].marked,
         pools' \in [QueueIds -> Pool], \A p \in QueueIds \ {q} : pools'[p] = pools[p],
         pools[q].marked => pools'[q].marked,
         leases' \subseteq QueueIds \X PoolTasks,
         closed' = closed \/ (closed' = closed \cup {q} /\ Closing(r) /\ pools'[q].marked),
         UNCHANGED <<fate, cache, cut>>
  PROVE  GatewayInv'
<1>1. /\ req' \in [Requests -> Request] /\ \A s \in Requests : RequestOK(req'[s])
      /\ req'[r] = NoRequest /\ \A s \in Requests \ {r} : req'[s] = req[s]
  BY NoRequestOK, OneRequest DEF GatewayInv, Done
<1>2. Typed'
  BY <1>1, Zenon DEF GatewayInv, Typed
<1>3. ~Closing(r)' /\ req'[r].queue \notin QueueIds /\ req'[r].before = {}
  BY <1>1, GatewayIds DEF Closing, At, NoRequest
<1>4. \A s \in Requests \ {r} : Closing(s)' <=> Closing(s)
  BY <1>1, Zenon DEF Closing, At
<1>5. \A p \in QueueIds : Unused(p) => Unused(p)' /\ p # q
  BY <1>1, <1>3, Zenon DEF Unused
<1>6. \A p \in QueueIds : BeingClosed(p) => BeingClosed(p)' \/ pools'[p].marked
  <2>1. SUFFICES ASSUME NEW p \in QueueIds, NEW s \in Requests, Closing(s), req[s].queue = p
                 PROVE  BeingClosed(p)' \/ pools'[p].marked
    BY Zenon DEF BeingClosed
  <2>2. CASE s = r
    BY <2>1, <2>2
  <2>3. CASE s # r
    BY <1>1, <1>4, <2>1, <2>3, Zenon DEF BeingClosed
  <2>. QED
    BY <2>2, <2>3
<1>7. \A s \in Requests : req'[s].before \subseteq closed'
  BY <1>1, <1>3, Zenon DEF GatewayInv
<1>8. \A s \in Requests : Closing(s)' => fate'[req'[s].queue] \in Gone
  BY <1>1, <1>3, <1>4, Zenon DEF GatewayInv
<1>9. closed \subseteq closed' /\ \A p \in closed' \ closed : fate'[p] \in Gone /\ pools'[p].marked
  BY Zenon DEF GatewayInv
<1>10. \A p \in QueueIds : /\ Unused(p) /\ pools[p] = EmptyPool => pools'[p] = EmptyPool
                           /\ pools[p].marked => pools'[p].marked
  BY <1>5, Zenon
<1>11. Orderly
  BY <1>5, <1>6, <1>7, <1>8, <1>9, <1>10, Zenon DEF Orderly
<1>. QED
  BY <1>2, <1>11, OrderlyInv

\* The tasks of one pool after a change of one of them.
LEMMA OneTask ==
  ASSUME GatewayInv, NEW q \in QueueIds, NEW t, NEW s \in PoolStates,
         pools' = [pools EXCEPT ![q].status[t] = s]
  PROVE  /\ pools' \in [QueueIds -> Pool] /\ \A p \in QueueIds \ {q} : pools'[p] = pools[p]
         /\ pools'[q].marked = pools[q].marked
<1>1. pools \in [QueueIds -> Pool]
  BY Zenon DEF GatewayInv, Typed
<1> DEFINE st == [pools[q].status EXCEPT ![t] = s]
<1>2. pools[q] \in Pool /\ pools[q].status \in [PoolTasks -> PoolStates]
  BY <1>1 DEF Pool
<1>3. st \in [PoolTasks -> PoolStates]
  BY <1>2
<1>4. pools' = [pools EXCEPT ![q] = [pools[q] EXCEPT !.status = st]]
  BY <1>1
<1>. HIDE DEF st
<1>5. [pools[q] EXCEPT !.status = st] \in Pool /\ [pools[q] EXCEPT !.status = st].marked = pools[q].marked
  BY <1>2, <1>3 DEF Pool
<1>. QED
  BY <1>1, <1>4, <1>5

LEMMA CallStep ==
  ASSUME GatewayInv, NEW r \in Requests,
         CallEnqueue(r) \/ CallDequeue(r) \/ Apply(r)
  PROVE  GatewayInv'
<1> DEFINE q == req[r].queue
<1>1. /\ req[r].op \in {"Enqueue", "Dequeue", "Report"} /\ req[r].pc \in {"call", "apply"}
      /\ Done(r) /\ UNCHANGED <<qvars, cache, closed, cut>>
  BY DEF CallEnqueue, CallDequeue, Apply, At
<1>2. req[r].op # None /\ ~Closing(r)
  BY <1>1 DEF Closing, At, Closers, None
<1>3. q \in QueueIds /\ leases \subseteq QueueIds \X PoolTasks
  BY <1>1, <1>2, Movable DEF RequestOK
<1>4. leases' \subseteq QueueIds \X PoolTasks
  BY <1>3 DEF CallEnqueue, CallDequeue, Apply
<1>5. \/ pools' = pools
      \/ \E t \in PoolTasks \cup {0}, s \in PoolStates :
            pools' = [pools EXCEPT ![q].status[t] = s]
  <2>1. CASE CallEnqueue(r)
    BY <2>1, Zenon DEF CallEnqueue, PoolEnqueue, PoolStates
  <2>2. CASE CallDequeue(r)
    BY <2>2, Zenon DEF CallDequeue, PoolLease, PoolStates
  <2>3. CASE Apply(r)
    <3>1. req[r].task \in PoolTasks \cup {0}
      BY <1>2, Movable DEF Request
    <3>. QED
      BY <2>3, <3>1, Zenon DEF Apply, PoolComplete, PoolStates
  <2>. QED
    BY <2>1, <2>2, <2>3
<1>. HIDE DEF q
<1>6. pools \in [QueueIds -> Pool]
  BY Zenon DEF GatewayInv, Typed
<1>7. /\ pools' \in [QueueIds -> Pool] /\ \A p \in QueueIds \ {q} : pools'[p] = pools[p]
      /\ pools'[q].marked = pools[q].marked
  BY <1>3, <1>5, <1>6, OneTask
<1>8. fate' = fate
  BY <1>1 DEF qvars
<1>. QED
  BY <1>1, <1>2, <1>3, <1>4, <1>7, <1>8, RequestCalls DEF q
LEMMA MarkStep ==
  ASSUME GatewayInv, NEW r \in Requests, Mark(r)
  PROVE  GatewayInv'
<1> DEFINE q == req[r].queue
<1>1. /\ req[r].op \in Closers /\ req[r].pc = "mark" /\ Done(r)
      /\ pools' = [pools EXCEPT ![q].marked = TRUE] /\ closed' = closed \cup {q}
      /\ UNCHANGED <<qvars, cache, leases, cut>>
  BY DEF Mark, At, PoolMark
<1>2. req[r].op # None /\ Closing(r)
  BY <1>1 DEF Closing, At, Closers, None
<1>3. q \in QueueIds /\ leases \subseteq QueueIds \X PoolTasks
  BY <1>1, <1>2, Movable DEF RequestOK
<1>. HIDE DEF q
<1>4. pools \in [QueueIds -> Pool]
  BY Zenon DEF GatewayInv, Typed
<1>5. /\ pools' \in [QueueIds -> Pool] /\ \A p \in QueueIds \ {q} : pools'[p] = pools[p]
      /\ pools'[q].marked
  BY <1>1, <1>3, <1>4 DEF Pool
<1>6. fate' = fate
  BY <1>1 DEF qvars
<1>. QED
  BY <1>1, <1>2, <1>3, <1>5, <1>6, RequestCalls DEF q

\* The call takes the name from a live id, and gives it to an unused one or
\* to none.
LEMMA CloseFate ==
  ASSUME IInv, NEW r \in Requests, req[r].name \in QueueNames, Close(r),
         getByName(qdb, req[r].name) # NotFound
  PROVE  LET old == getByName(qdb, req[r].name) IN
         /\ old \in QueueIds /\ fate[old] = "live"
         /\ \A q \in QueueIds : fate'[q] \in Gone <=> fate[q] \in Gone \/ q = old
<1> DEFINE n == req[r].name
           old == getByName(qdb, n)
<1>1. old \in QueueIds /\ fate[old] = "live" /\ fate \in [QueueIds -> Fates]
  BY Resolves DEF IInv
<1>2. \/ fate' = [fate EXCEPT ![old] = "deleted"]
      \/ \E new \in QueueIds : /\ fate[new] = "unused"
                               /\ fate' = [fate EXCEPT ![new] = "live", ![old] = "swapped"]
  BY Zenon DEF Close, DeleteQueue, SwapQueueId
<1>. HIDE DEF old
<1>3. \A q \in QueueIds : fate'[q] \in Gone <=> fate[q] \in Gone \/ q = old
  <2>1. CASE fate' = [fate EXCEPT ![old] = "deleted"]
    BY <1>1, <2>1 DEF Gone
  <2>2. ASSUME NEW new \in QueueIds, fate[new] = "unused",
               fate' = [fate EXCEPT ![new] = "live", ![old] = "swapped"]
        PROVE  \A q \in QueueIds : fate'[q] \in Gone <=> fate[q] \in Gone \/ q = old
    BY <1>1, <2>2 DEF Gone
  <2>. QED
    BY <1>2, <2>1, <2>2
<1>. QED
  BY <1>1, <1>3 DEF old

LEMMA CloseStep ==
  ASSUME IInv, GatewayInv, NEW r \in Requests, Close(r)
  PROVE  GatewayInv'
<1> DEFINE old == getByName(qdb, req[r].name)
           x == [req[r] EXCEPT !.queue = old, !.pc = "forget"]
<1>1. /\ req[r].op \in Closers /\ req[r].pc = "close"
      /\ UNCHANGED <<pools, cache, leases, closed, cut>>
      /\ old = NotFound => Done(r) /\ UNCHANGED qvars
      /\ old # NotFound => req' = [req EXCEPT ![r].queue = old, ![r].pc = "forget"]
  BY DEF Close, At
<1>2. req[r].op # None /\ ~Closing(r)
  BY <1>1 DEF Closing, At, Closers, None
<1>3. /\ req[r] \in Request /\ RequestOK(req[r]) /\ req[r].before \subseteq closed
      /\ req[r].gateway \in Gateways /\ req[r].name \in QueueNames
      /\ cache \in [Gateways -> [QueueNames -> Entry]]
      /\ leases \subseteq QueueIds \X PoolTasks
  BY <1>2, Movable
<1>4. CASE old = NotFound
  <2>1. \A p \in QueueIds : fate[p] \in Gone /\ Unused(p) =>
           \A g \in Gateways, n \in QueueNames : cache'[g][n] # p
    BY <1>1, Zenon DEF Unused
  <2>. QED
    BY <1>1, <1>2, <1>3, <1>4, <2>1, RequestEnds
<1>5. CASE old # NotFound
  <2>1. /\ old \in QueueIds /\ fate[old] = "live"
        /\ \A q \in QueueIds : fate'[q] \in Gone <=> fate[q] \in Gone \/ q = old
    BY <1>3, <1>5, CloseFate
  <2>. HIDE DEF old
  <2>2. req' = [req EXCEPT ![r] = x]
    <3>1. req \in [Requests -> Request]
      BY Zenon DEF GatewayInv, Typed
    <3>. QED
      BY <1>1, <1>5, <3>1
  <2>3. /\ x \in Request /\ RequestOK(x) /\ x.queue = old /\ x.op = req[r].op
        /\ x.pc = "forget" /\ x.before = req[r].before
    BY <1>3, <2>1, GatewayIds DEF Request, RequestOK, Pcs
  <2>. HIDE DEF x
  <2>4. /\ req' \in [Requests -> Request] /\ \A s \in Requests : RequestOK(req'[s])
        /\ req'[r] = x /\ \A s \in Requests \ {r} : req'[s] = req[s]
    BY <2>2, <2>3, OneRequest DEF GatewayInv
  <2>5. Typed'
    BY <1>1, <2>4, Zenon DEF GatewayInv, Typed
  <2>6. /\ Closing(r)' /\ req'[r].queue = old
        /\ \A s \in Requests \ {r} : Closing(s)' <=> Closing(s)
    BY <1>1, <2>3, <2>4 DEF Closing, At
  <2>7. \A q \in QueueIds : BeingClosed(q) \/ q = old => BeingClosed(q)'
    BY <1>2, <2>4, <2>6, Zenon DEF BeingClosed
  <2>8. \A q \in QueueIds : fate[q] \in Gone /\ Unused(q) => Unused(q)'
    <3>1. fate[old] \notin Gone
      BY <2>1 DEF Gone
    <3>. QED
      BY <1>1, <2>4, <2>6, <3>1, Zenon DEF Unused
  <2>9. \A s \in Requests : req'[s].before \subseteq closed'
    BY <1>1, <1>3, <2>3, <2>4, Zenon DEF GatewayInv
  <2>10. \A s \in Requests : Closing(s) => req[s].queue \in QueueIds /\ fate[req[s].queue] \in Gone
    BY DEF GatewayInv, Typed, RequestOK, Closing, At
  <2>11. \A s \in Requests : Closing(s)' => fate'[req'[s].queue] \in Gone
    BY <2>1, <2>4, <2>6, <2>10, Zenon
  <2>12. Orderly
    BY <1>1, <2>1, <2>7, <2>8, <2>9, <2>11, Zenon DEF Orderly
  <2>. QED
    BY <2>5, <2>12, OrderlyInv
<1>. QED
  BY <1>4, <1>5

LEMMA CollectStep ==
  ASSUME GatewayInv, NEW q \in QueueIds, Collect(q)
  PROVE  GatewayInv'
<1>1. /\ pools[q].marked /\ pools' = [pools EXCEPT ![q] = EmptyPool]
      /\ MarkerOutlives => Unused(q)
      /\ UNCHANGED <<qvars, cache, req, leases, closed, cut>>
  BY DEF Collect, PoolDrain
<1>2. EmptyPool \in Pool
  BY DEF EmptyPool, Pool, PoolStates
<1>3. pools \in [QueueIds -> Pool]
  BY Zenon DEF GatewayInv, Typed
<1>4. /\ pools' \in [QueueIds -> Pool] /\ pools'[q] = EmptyPool
      /\ \A p \in QueueIds \ {q} : pools'[p] = pools[p]
  BY <1>1, <1>2, <1>3
<1>5. fate' = fate /\ cache' = cache /\ req' = req /\ closed' = closed /\ cut' = cut
  BY <1>1 DEF qvars
<1>6. Typed'
  BY <1>1, <1>4, Zenon DEF GatewayInv, Typed
<1>7. \A p \in QueueIds : /\ Unused(p)' <=> Unused(p)
                          /\ BeingClosed(p)' <=> BeingClosed(p)
  BY <1>5 DEF Unused, BeingClosed, Closing, At
<1>8. \A r \in Requests : Closing(r)' <=> Closing(r)
  BY <1>5, Zenon DEF Closing, At
<1>9. ASSUME NEW p \in QueueIds
      PROVE  /\ Unused(p) /\ pools[p] = EmptyPool => pools'[p] = EmptyPool
             /\ pools[p].marked => \/ pools'[p].marked
                                   \/ pools'[p] = EmptyPool /\ (MarkerOutlives => Unused(p)')
  <2>1. CASE p = q
    BY <1>1, <1>4, <1>7, <2>1, Zenon
  <2>2. CASE p # q
    BY <1>4, <2>2
  <2>. QED
    BY <2>1, <2>2
<1>10. Orderly
  BY <1>5, <1>7, <1>8, <1>9, Zenon DEF Orderly, GatewayInv
<1>. QED
  BY <1>6, <1>10, OrderlyInv

LEMMA CrashStep ==
  ASSUME GatewayInv, NEW g \in Gateways, Crash(g)
  PROVE  GatewayInv'
<1>1. /\ req' = [r \in Requests |-> IF req[r].gateway = g THEN NoRequest ELSE req[r]]
      /\ cache' = [cache EXCEPT ![g] = [n \in QueueNames |-> Absent]]
      /\ cut' = cut \cup {req[r].queue : r \in {s \in Requests : req[s].gateway = g /\ Closing(s)}}
      /\ UNCHANGED <<qvars, pools, leases, closed>>
  BY DEF Crash
<1>2. /\ req \in [Requests -> Request] /\ \A r \in Requests : RequestOK(req[r])
      /\ cache \in [Gateways -> [QueueNames -> Entry]] /\ cut \subseteq QueueIds
  BY Zenon DEF GatewayInv, Typed
<1>3. /\ req' \in [Requests -> Request] /\ \A r \in Requests : RequestOK(req'[r])
      /\ \A r \in Requests : req'[r] = IF req[r].gateway = g THEN NoRequest ELSE req[r]
  BY <1>1, <1>2, NoRequestOK
<1>4. /\ cache' \in [Gateways -> [QueueNames -> Entry]]
      /\ \A h \in Gateways, n \in QueueNames :
            cache'[h][n] = Absent \/ cache'[h][n] = cache[h][n]
  BY <1>1, <1>2, GatewayIds
<1>5. \A r \in Requests : Closing(r) => req[r].queue \in QueueIds
  BY <1>2 DEF RequestOK, Closing, At
<1>6. cut' \subseteq QueueIds /\ cut \subseteq cut'
  BY <1>1, <1>2, <1>5
<1>7. Typed'
  BY <1>1, <1>3, <1>4, <1>6, Zenon DEF GatewayInv, Typed
<1>8. NoRequest.queue = Absent /\ NoRequest.pc = "idle" /\ NoRequest.before = {}
  BY DEF NoRequest
<1>. HIDE DEF NoRequest
<1>9. \A r \in Requests : Closing(r)' => Closing(r) /\ req'[r] = req[r]
  BY <1>3, <1>8 DEF Closing, At
<1>10. \A q \in QueueIds : Unused(q) => Unused(q)'
  BY <1>3, <1>4, <1>8, GatewayIds DEF Unused
<1>11. \A q \in QueueIds : BeingClosed(q) => BeingClosed(q)' \/ q \in cut'
  <2>1. SUFFICES ASSUME NEW q \in QueueIds, NEW r \in Requests, Closing(r), req[r].queue = q
                 PROVE  BeingClosed(q)' \/ q \in cut'
    BY Zenon DEF BeingClosed
  <2>2. CASE req[r].gateway = g
    BY <1>1, <2>1, <2>2
  <2>3. CASE req[r].gateway # g
    <3>1. req'[r] = req[r]
      BY <1>3, <2>3
    <3>2. Closing(r)'
      BY <2>1, <3>1, Zenon DEF Closing, At
    <3>. QED
      BY <2>1, <3>1, <3>2, Zenon DEF BeingClosed
  <2>. QED
    BY <2>2, <2>3
<1>12. fate' = fate /\ pools' = pools /\ closed' = closed
  BY <1>1 DEF qvars
<1>13. \A r \in Requests : req'[r].before \subseteq closed'
  BY <1>3, <1>8, <1>12 DEF GatewayInv
<1>14. \A r \in Requests : Closing(r)' => fate'[req'[r].queue] \in Gone
  BY <1>9, <1>12, Zenon DEF GatewayInv
<1>15. Orderly
  BY <1>6, <1>10, <1>11, <1>12, <1>13, <1>14, Zenon DEF Orderly
<1>. QED
  BY <1>7, <1>15, OrderlyInv

LEMMA CreateStep ==
  ASSUME IInv, GatewayInv, Create
  PROVE  GatewayInv'
<1>1. PICK n \in QueueNames, q \in QueueIds, x \in Settings : CreateQueue(n, q, x)
  BY DEF Create
<1>2. UNCHANGED <<pools, cache, req, leases, closed, cut>>
  BY DEF Create
<1>3. fate[q] = "unused" /\ fate' = [fate EXCEPT ![q] = "live"] /\ fate \in [QueueIds -> Fates]
  BY <1>1 DEF CreateQueue, IInv
<1>4. \A p \in QueueIds : fate'[p] \in Gone <=> fate[p] \in Gone
  BY <1>3 DEF Gone
<1>5. Typed'
  BY <1>2, Zenon DEF GatewayInv, Typed
<1>6. \A p \in QueueIds : /\ Unused(p)' <=> Unused(p)
                          /\ BeingClosed(p)' <=> BeingClosed(p)
  BY <1>2 DEF Unused, BeingClosed, Closing, At
<1>7. \A r \in Requests : /\ Closing(r)' <=> Closing(r)
                          /\ Closing(r) => req[r].queue \in QueueIds /\ fate[req[r].queue] \in Gone
  BY <1>2 DEF Closing, At, GatewayInv, Typed, RequestOK
<1>8. Orderly
  BY <1>2, <1>4, <1>6, <1>7, Zenon DEF Orderly, GatewayInv
<1>. QED
  BY <1>5, <1>8, OrderlyInv
-------------------------------------------------------------------------------
(* The theorems.                                                           *)

LEMMA GatewayInitInv == GatewayInit => IInv /\ GatewayInv
<1> SUFFICES ASSUME GatewayInit PROVE IInv /\ GatewayInv
  OBVIOUS
<1>1. IInv
  BY InitInv DEF GatewayInit
<1>2. /\ pools = [q \in QueueIds |-> EmptyPool] /\ fate = [q \in QueueIds |-> "unused"]
      /\ cache = [g \in Gateways |-> [n \in QueueNames |-> Absent]]
      /\ req = [r \in Requests |-> NoRequest] /\ leases = {} /\ closed = {} /\ cut = {}
  BY DEF GatewayInit, PoolInit, Init
<1>3. EmptyPool \in Pool
  BY DEF EmptyPool, Pool, PoolStates
<1>4. Typed
  BY <1>2, <1>3, NoRequestOK, GatewayIds DEF Typed
<1>5. \A r \in Requests : ~Closing(r) /\ req[r].before = {}
  BY <1>2 DEF Closing, At, NoRequest
<1>6. \A q \in QueueIds : fate[q] \notin Gone
  BY <1>2 DEF Gone
<1>. QED
  BY <1>1, <1>2, <1>4, <1>5, <1>6 DEF GatewayInv

LEMMA GatewayStep ==
  ASSUME IInv, GatewayInv, [GatewayNext]_gvars
  PROVE  IInv' /\ GatewayInv'
<1>1. CASE Create
  <2>1. Next
    BY <1>1, Zenon DEF Create, Next, QueueCalls
  <2>. QED
    BY <1>1, <2>1, StepInv, CreateStep
<1>2. ASSUME NEW r \in Requests, Close(r)
      PROVE  IInv' /\ GatewayInv'
  <2>1. req[r].op # None
    BY <1>2 DEF Close, At, Closers, None
  <2>2. req[r].name \in QueueNames
    BY <2>1, Movable
  <2>3. [Next]_qvars
    BY <1>2, <2>2, Zenon DEF Close, Next, QueueCalls
  <2>. QED
    BY <1>2, <2>3, StepInv, CloseStep
<1>3. ASSUME UNCHANGED qvars
      PROVE  IInv'
  BY <1>3, StepInv
<1>4. ASSUME NEW r \in Requests, Step(r)
      PROVE  IInv' /\ GatewayInv'
  <2>1. CASE Resolve(r)
    BY <1>3, <2>1, ResolveStep DEF Resolve
  <2>2. CASE CacheLoaded(r)
    BY <1>3, <2>2, CacheLoadedStep DEF CacheLoaded
  <2>3. CASE CallRefused(r)
    BY <1>3, <2>3, CallRefusedStep DEF CallRefused
  <2>4. CASE CallEnqueue(r) \/ CallDequeue(r) \/ Apply(r)
    <3>1. UNCHANGED qvars
      BY <2>4 DEF CallEnqueue, CallDequeue, Apply
    <3>. QED
      BY <1>3, <2>4, <3>1, CallStep
  <2>5. CASE Close(r)
    BY <1>2, <2>5
  <2>6. CASE Forget(r)
    BY <1>3, <2>6, ForgetStep DEF Forget
  <2>7. CASE Mark(r)
    BY <1>3, <2>7, MarkStep DEF Mark
  <2>8. CASE Lookup(r)
    BY <1>3, <2>8, LookupStep DEF Lookup
  <2>. QED
    BY <1>4, <2>1, <2>2, <2>3, <2>4, <2>5, <2>6, <2>7, <2>8, Zenon DEF Step
<1>5. ASSUME NEW r \in Requests, NEW g \in Gateways, NEW n \in QueueNames, NEW op \in Ops,
             Begin(r, g, n, op)
      PROVE  IInv' /\ GatewayInv'
  BY <1>3, <1>5, BeginStep DEF Begin
<1>6. ASSUME NEW r \in Requests, NEW g \in Gateways, NEW n \in QueueNames, NEW lease \in leases,
             BeginReport(r, g, n, lease)
      PROVE  IInv' /\ GatewayInv'
  BY <1>3, <1>6, BeginReportStep DEF BeginReport
<1>7. ASSUME NEW g \in Gateways, Crash(g)
      PROVE  IInv' /\ GatewayInv'
  BY <1>3, <1>7, CrashStep DEF Crash
<1>8. ASSUME NEW g \in Gateways, NEW n \in QueueNames, Expire(g, n)
      PROVE  IInv' /\ GatewayInv'
  BY <1>3, <1>8, ExpireStep DEF Expire
<1>9. ASSUME NEW q \in QueueIds, Collect(q)
      PROVE  IInv' /\ GatewayInv'
  BY <1>3, <1>9, CollectStep DEF Collect
<1>10. CASE UNCHANGED gvars
  BY <1>3, <1>10, Quiet DEF gvars, qvars
<1>. QED
  BY <1>1, <1>4, <1>5, <1>6, <1>7, <1>8, <1>9, <1>10, Zenon DEF GatewayNext

THEOREM GatewayInvariant == GatewaySpec => [](IInv /\ GatewayInv)
<1>1. IInv /\ GatewayInv /\ [GatewayNext]_gvars => (IInv /\ GatewayInv)'
  BY GatewayStep
<1>. QED
  BY <1>1, GatewayInitInv, PTL DEF GatewaySpec

\* A request has a queue id whenever it calls a core, and every variable of
\* the gateways keeps its type, whatever the caches answer and whenever a
\* gateway stops (getQueue, retryWithFreshQueueIfPurged).
THEOREM GatewayTypes == GatewaySpec => []GatewayTypeOK
<1>1. GatewayInv => GatewayTypeOK
  <2> SUFFICES ASSUME GatewayInv PROVE GatewayTypeOK
    OBVIOUS
  <2>1. Typed
    BY DEF GatewayInv
  <2>2. ASSUME NEW r \in Requests
        PROVE  /\ req[r].queue \in Entry /\ req[r].before \subseteq QueueIds
               /\ req[r].pc \in Pcs
               /\ req[r].pc \in {"call", "forget", "mark", "apply"} => req[r].queue \in QueueIds
    <3>1. req[r] \in Request /\ RequestOK(req[r])
      BY <2>1 DEF Typed
    <3>. QED
      BY <3>1 DEF Request, RequestOK
  <2>. QED
    BY <2>1, <2>2, Zenon DEF GatewayTypeOK, Typed, Pcs
<1>. QED
  BY <1>1, GatewayInvariant, PTL

\* PurgeQueue and DeleteQueue strand no tasks but by a crash between their two
\* calls: for any number of gateways, requests, names and tasks, as long as a
\* marker stays until no gateway uses its id.
THEOREM StrandedByCrashOnly ==
  ASSUME MarkerOutlives PROVE GatewaySpec => []StrandedOnlyByCrash
<1>1. GatewayInv => StrandedOnlyByCrash
  BY Zenon DEF GatewayInv, StrandedOnlyByCrash, Kept, Settled, BeingClosed, Gone
<1>. QED
  BY <1>1, GatewayInvariant, PTL

\* An acknowledged PurgeQueue or DeleteQueue holds for every request that
\* begins after it, through whichever gateway and with whatever in its cache.
THEOREM PurgesHold ==
  ASSUME MarkerOutlives PROVE GatewaySpec => PurgeHolds
<1>1. ASSUME GatewayInv, [GatewayNext]_gvars, NEW r \in Requests, At(r, Resolvers, "call"),
             req'[r] = NoRequest, pools'[req[r].queue] # pools[req[r].queue],
             req[r].queue \in req[r].before
      PROVE  FALSE
  <2> DEFINE q == req[r].queue
  <2>1. q \in closed
    BY <1>1 DEF GatewayInv
  <2>2. pools[q].marked
    <3>1. Settled(q) /\ ~Unused(q)
      BY <1>1, <2>1, Zenon DEF GatewayInv, Unused
    <3>. QED
      BY <3>1 DEF Settled
  <2>3. req[r].op \in Resolvers /\ req[r].pc = "call" /\ req[r] # NoRequest
    <3>1. NoRequest.op = None /\ None \notin Resolvers
      BY DEF NoRequest, None, Resolvers
    <3>. QED
      BY <1>1, <3>1, Zenon DEF At
  <2>4. req' # req /\ pools' # pools
    BY <1>1, <2>3
  <2>5. \E s \in Requests : CallEnqueue(s) \/ CallDequeue(s) \/ Apply(s) \/ Mark(s)
    BY <1>1, <2>4, Zenon DEF GatewayNext, gvars, Step, Create, Resolve, CacheLoaded, CallRefused,
          Close, Forget, Lookup, Begin, BeginReport, Crash, Expire, Collect
  <2>6. PICK s \in Requests : CallEnqueue(s) \/ CallDequeue(s) \/ Apply(s) \/ Mark(s)
    BY <2>5
  <2>7. Done(s)
    BY <2>6 DEF CallEnqueue, CallDequeue, Apply, Mark
  <2>8. s = r
    <3>1. req \in [Requests -> Request]
      BY <1>1, Zenon DEF GatewayInv, Typed
    <3>. QED
      BY <1>1, <2>3, <2>7, <3>1 DEF Done
  <2>9. ~Apply(r) /\ ~Mark(r)
    BY <2>3 DEF Apply, Mark, At
  <2>. QED
    BY <2>2, <2>6, <2>8, <2>9 DEF CallEnqueue, CallDequeue, PoolEnqueue
<1>2. GatewayInv /\ [GatewayNext]_gvars =>
         [\A r \in Requests :
             At(r, Resolvers, "call") /\ req'[r] = NoRequest
                /\ pools'[req[r].queue] # pools[req[r].queue]
             => req[r].queue \notin req[r].before]_gvars
  BY <1>1, Zenon
<1>. QED
  BY <1>2, GatewayInvariant, PTL DEF GatewaySpec, PurgeHolds
===============================================================================
