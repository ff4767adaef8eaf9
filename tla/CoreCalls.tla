----------------------------- MODULE CoreCalls ------------------------------
(*************************************************************************)
(* A call on its way to a core and back, through the clustered stub and  *)
(* the adapters of a node (moab gateway, worker and node) or through the *)
(* nonclustered stub (moab single-node), and a row that is stored by one *)
(* version of the program and rewritten by another.                      *)
(*                                                                       *)
(* cores    the cores of the application called, by their shard bounds,  *)
(*          each with the updates its tables hold, as the ids of the     *)
(*          rows they wrote                                              *)
(* call     the one call                                                 *)
(* row      the one row                                                  *)
(* lacking  the field that the other version of the program does not     *)
(*          have, <<message, field>>, if the versions differ             *)
(*************************************************************************)
EXTENDS Wire, CoreApis, FiniteSets

CONSTANTS Keyspace,     \* number of shard keys
          Shards,       \* numbers of shards an application starts with
          MaxRewrites,  \* bound on the times a row is rewritten
          MaxMoves      \* bound on splits and merges

ASSUME CallsAssumption ==
  /\ Keyspace \in Nat \ {0}
  /\ \A n \in Shards : n \in 1..Keyspace /\ Keyspace % n = 0
  /\ MaxRewrites \in Nat
  /\ MaxMoves \in Nat

VARIABLES clustered, cores, moves, call, row, lacking

vars == <<clustered, cores, moves, call, row, lacking>>

-----------------------------------------------------------------------------
(* Shard keys. *)

Number(m, f) == IF IsSet(m, f) THEN m.fields[f] ELSE 0

Nested(m, f) == IF IsSet(m, f) THEN m.fields[f] ELSE Empty("QueueId")

(* The hash of the ids, some number below Keyspace. *)
GetShardKey(ids) == FoldLeft(LAMBDA h, id : (2 * h + id) % Keyspace, 0, ids)

ByAccount(account) == GetShardKey(<<account>>)

ByAccountAndQueue(account, queue) == GetShardKey(<<account, queue>>)

KeyedByQueueId == {"CreateQueueRequest", "GetQueueRequest",
                   "ListSchedulesRequest"}

KeyedByAccount == {"CreateScheduleRequest", "DeleteQueueRequest",
                   "DeleteScheduleRequest", "GetQueueByNameRequest",
                   "GetScheduleRequest", "ListQueuesRequest",
                   "SwapQueueIdRequest", "UpdateQueueRequest",
                   "UpdateScheduleRequest"}

(* The message or field that has the ids a request is about. *)
IdOf(r) ==
  IF r.type \in KeyedByAccount THEN r
  ELSE Nested(r, IF r.type = "GetTaskRequest" THEN "TaskId" ELSE "QueueId")

ShardKey(r) ==
  LET id == IdOf(r)
  IN  IF r.type \in KeyedByAccount \cup KeyedByQueueId
      THEN ByAccount(Number(id, "AccountId"))
      ELSE ByAccountAndQueue(Number(id, "AccountId"), Number(id, "QueueId"))

(* The rows an update writes: their account and queue. *)
RowIds(r) ==
  LET id == IdOf(r)
  IN  <<Number(id, "AccountId"),
        IF r.type \in KeyedByAccount THEN 0 ELSE Number(id, "QueueId")>>

-----------------------------------------------------------------------------
(* Cores and their shards. *)

Core(lower, upper, applied) ==
  [lower |-> lower, upper |-> upper, applied |-> applied]

(* The equal shards of NewMoabNonclusteredStub. *)
NewCores(n) ==
  LET size == Keyspace \div n
  IN  {Core(i * size, (i + 1) * size - 1, {}) : i \in 0..(n - 1)}

Owns(core, key) == core.lower <= key /\ key <= core.upper

(* The shard key by which RestoreEntity decides whether a row is owned. *)
TaskRowKey(ids) == ByAccountAndQueue(ids[1], ids[2])

QueueRowKey(ids) == ByAccount(ids[1])

RowKey(app, ids) ==
  IF app = "MoabTasks" THEN TaskRowKey(ids) ELSE QueueRowKey(ids)

(* Core.Restore: the union of the streams within the bounds. *)
Restore(app, lower, upper, streams) ==
  Core(lower, upper,
       {u \in UNION {c.applied : c \in streams} :
          Owns(Core(lower, upper, {}), RowKey(app, u))})

(* The adapters of a nonclustered stub, in the order of their bounds. *)
Adapters == SetToSortSeq(cores, LAMBDA a, b : a.lower < b.lower)

(* findMoabQueuesAdapter, findMoabTasksAdapter: sort.Search for the first *)
(* adapter that starts above the key; the one before it, if that has it.  *)
findAdapter(key) ==
  LET above == {i \in DOMAIN Adapters : Adapters[i].lower > key}
      i     == IF above = {} THEN Len(Adapters) + 1 ELSE Min(above)
  IN  IF i > 1 /\ key <= Adapters[i - 1].upper THEN {Adapters[i - 1]} ELSE {}

(* Mutant of checkShardBounds: the upper bound is not checked. *)
checkLowerBound(key, core) == key >= core.lower

checkShardBounds(key, core) == ~(key < core.lower \/ key > core.upper)

-----------------------------------------------------------------------------
(* The messages of an instance: nothing set, one field set, all set.     *)
(* Numbers of one, two and ten bytes, strings on both sides of the       *)
(* length that needs a second byte, ids that reach every shard key.      *)

RECURSIVE Full(_)

Values(type) ==
  CASE type \in {String, Bytes} -> {1, 128}
    [] type \in {Int64, Int32} -> {1, 300, -1}
    [] type = Uint64 -> {1, 2}
    [] type \in {Bool, Enum} -> {1}
    [] type \in {Int64s, Uint64s, Enums} -> {<<1>>, <<300, 1>>}
    [] type[1] = "*" -> {Empty(type[2]), Full(type[2])}
    [] type[1] = "[]*" ->
         {<<Full(type[2])>>, <<Empty(type[2]), Full(type[2])>>}

Full(type) ==
  Message(type, [f \in DOMAIN Fields[type] |->
                   LET t == Fields[type][f]
                   IN  CASE t[1] = "*" -> Full(t[2])
                         [] t[1] = "[]*" -> <<Empty(t[2]), Full(t[2])>>
                         [] t \in {Int64s, Uint64s, Enums} -> <<300, 1>>
                         [] OTHER -> 1])

Contents(type) ==
  {Empty(type), Full(type)}
    \cup UNION {{Message(type, [g \in {f} |-> v]) : v \in Values(Fields[type][f])}
                 : f \in DOMAIN Fields[type]}

SetField(m, f, v) ==
  [m EXCEPT !.fields = [g \in (DOMAIN @) \cup {f} |->
                          IF g = f THEN v ELSE @[g]]]

(* A request with the ids it is about; Validate refuses one without. *)
WithIds(r, account, queue) ==
  LET type == IF r.type = "GetTaskRequest" THEN "TaskId" ELSE "QueueId"
      id   == IF IsSet(r, type) THEN r.fields[type] ELSE Empty(type)
      ids  == SetField(SetField(id, "AccountId", account), "QueueId", queue)
  IN  IF r.type \in KeyedByAccount THEN SetField(r, "AccountId", account)
      ELSE SetField(r, type, ids)

RECURSIVE Parts(_)

(* The fields that are set in a message and in the messages in it. *)
Parts(m) ==
  {<<m.type, f>> : f \in DOMAIN m.fields}
    \cup UNION {CASE Fields[m.type][f][1] = "*" -> Parts(m.fields[f])
                  [] Fields[m.type][f][1] = "[]*" ->
                       UNION {Parts(m.fields[f][i]) : i \in DOMAIN m.fields[f]}
                  [] OTHER -> {}
                 : f \in DOMAIN m.fields}

(* The fields that every version has: the ids by which calls are routed. *)
Routing == {<<t, f>> : t \in {"QueueId", "TaskId"},
                       f \in {"AccountId", "QueueId"}}
             \cup {<<t, "AccountId">> : t \in KeyedByAccount}
             \cup {<<Stub[x].request, f>> : x \in DOMAIN Stub,
                                           f \in {"QueueId", "TaskId"}}

(* What the other version may lack. *)
Lacking(m) == {{}} \cup {{p} : p \in Parts(m) \ Routing}

Rows == {"Queue", "Schedule", "QueuesCounter",
         "QueuesGarbageCollectionRecord", "Task", "ExpirationIndexRecord",
         "Thread", "PurgeQueueGarbageCollectionRecord", "TasksCounter",
         "QueueState", "RateLimiterState"}

-----------------------------------------------------------------------------
(* The calls. *)

Init ==
  /\ clustered \in BOOLEAN
  /\ \E n \in Shards : cores = NewCores(n)
  /\ moves = 0
  /\ call = [pc |-> "none"]
  /\ row = [pc |-> "none"]
  /\ lacking = {}

Idle == call.pc = "none" /\ row.pc = "none"

Bounds(core) == <<core.lower, core.upper>>

Keyed(x) == Stub[x].call \in {"Read", "Update"}

Kind(x) == IF Stub[x].call \in {"Read", "ReadShard"} THEN "Read" ELSE "Update"

Requests(x) ==
  IF Keyed(x)
  THEN {WithIds(m, a, q) : m \in Contents(Stub[x].request), a, q \in {1, 2}}
  ELSE Contents(Stub[x].request)

(* Where the Monstera client may take a call. It routes a shard key by   *)
(* what it knows of the cluster, which may be out of date: to any shard. *)
(* A shard id, from ListShards, leads to that shard only.                *)
Routes(x) ==
  IF Keyed(x) THEN {(0..(Keyspace - 1)) \X (0..(Keyspace - 1))}
  ELSE {{Bounds(c)} : c \in cores}

(* A method of MoabMonsteraStub up to the call of the Monstera client;   *)
(* Validate has let the request pass.                                    *)
Send(x) ==
  /\ Idle /\ clustered
  /\ \E m \in Requests(x), to \in Routes(x) :
       /\ lacking' \in Lacking(m)
       /\ call' = [pc |-> "sent", method |-> x, sent |-> m,
                   wire |-> MarshalBinary(m), to |-> to]
  /\ UNCHANGED <<clustered, cores, moves, row>>

(* What a method of a core may return, in a node that may lack a field:  *)
(* an application error without a payload, or a response.                *)
Outcomes(x) ==
  {[error |-> TRUE, reply |-> Empty(Stub[x].response)]}
    \cup {[error |-> FALSE, reply |-> Seen(r, lacking)]
            : r \in Contents(Stub[x].response)}

(* An update by key that succeeds is in the tables of the core. *)
CoresAfter(x, m, c, error) ==
  IF error \/ Kind(x) = "Read" \/ ~Keyed(x) THEN cores
  ELSE (cores \ {c}) \cup {[c EXCEPT !.applied = @ \cup {RowIds(m)}]}

(* A method that has run on a core: the request as the core got it, what *)
(* it ran and whether no other call could run on the core meanwhile.     *)
Ran(pc, x, sent, got, c, runs, exclusive, o, answer) ==
  [pc |-> pc, method |-> x, sent |-> sent, got |-> got, on |-> Bounds(c),
   ran |-> runs, exclusive |-> exclusive, error |-> o.error,
   reply |-> o.reply, answer |-> answer]

Failed(why) == [pc |-> "failed", method |-> call.method, why |-> why]

(* Update or Read of the adapter of a core: the case of the method       *)
(* number decodes the request, checks the bounds, runs the method and    *)
(* encodes the payload of the response, if there is one. Updates go      *)
(* through the Raft log, one at a time.                                  *)
Deliver(c) ==
  LET x       == call.method
      case    == Adapter[Stub[x].app][Kind(x)][Stub[x].number]
      got     == UnmarshalBinary(case.request, call.wire, lacking)
      refused == \/ got = Garbled
                 \/ case.bounds /\ ~checkShardBounds(ShardKey(got), c)
  IN  /\ call.pc = "sent" /\ Bounds(c) \in call.to
      /\ \/ /\ refused
            /\ call' = Failed(IF got = Garbled THEN "garbled" ELSE "routing")
            /\ UNCHANGED cores
         \/ /\ ~refused
            /\ \E o \in Outcomes(case.runs) :
                 /\ cores' = CoresAfter(case.runs, got, c, o.error)
                 /\ call' = Ran("ran", x, call.sent, got, c, case.runs,
                                Kind(x) = "Update", o,
                                IF o.error THEN << >> ELSE MarshalBinary(o.reply))
      /\ UNCHANGED <<clustered, moves, row, lacking>>

(* The shard that a shard id names is gone when the call arrives. *)
Unreachable ==
  /\ call.pc = "sent" /\ \A c \in cores : Bounds(c) \notin call.to
  /\ call' = Failed("unreachable")
  /\ UNCHANGED <<clustered, cores, moves, row, lacking>>

(* The rest of the method of MoabMonsteraStub. *)
Receive ==
  /\ call.pc = "ran"
  /\ call' = [call EXCEPT !.pc = "done",
                !.answer = UnmarshalBinary(Stub[call.method].response, @, {})]
  /\ UNCHANGED <<clustered, cores, moves, row, lacking>>

(* A method of MoabNonclusteredStub. It fails if no adapter is found. *)
CallNonclustered(x) ==
  LET stub == Nonclustered[x]
  IN  /\ Idle /\ ~clustered
      /\ \E m \in Requests(x), o \in Outcomes(stub.runs) :
         \E c \in IF stub.byKey THEN findAdapter(ShardKey(m)) ELSE cores :
           /\ cores' = CoresAfter(stub.runs, m, c, o.error)
           /\ call' = Ran("done", x, m, m, c, stub.runs,
                          stub.lock = "Lock", o, o.reply)
      /\ UNCHANGED <<clustered, moves, row, lacking>>

-----------------------------------------------------------------------------
(* The cluster is reorganised while a call is on its way or after it. *)

Move(from, to) ==
  /\ clustered /\ call.pc # "none" /\ moves < MaxMoves
  /\ cores' = (cores \ from) \cup to
  /\ moves' = moves + 1
  /\ UNCHANGED <<clustered, call, row, lacking>>

(* The application of the call, which decides how rows are restored. *)
App == Stub[call.method].app

(* A shard is split: both halves are seeded with its snapshot. *)
Split(c) ==
  LET half == (c.lower + c.upper) \div 2
  IN  /\ c.lower < c.upper
      /\ Move({c}, {Restore(App, c.lower, half, {c}),
                    Restore(App, half + 1, c.upper, {c})})

(* Two neighbours are merged: the shard is seeded with both snapshots. *)
Merge(c, d) ==
  /\ c.upper + 1 = d.lower
  /\ Move({c, d}, {Restore(App, c.lower, d.upper, {c, d})})

-----------------------------------------------------------------------------
(* A row through a rolling upgrade. *)

(* A table writes a row. *)
WriteRow(t) ==
  /\ Idle /\ ~clustered
  /\ \E m \in Contents(t) :
       /\ lacking' \in Lacking(m)
       /\ row' = [pc |-> "stored", written |-> m, wire |-> MarshalBinary(m),
                  rewrites |-> 0]
  /\ UNCHANGED <<clustered, cores, moves, call>>

(* A node of the other version reads the row and writes it back. *)
RewriteRow ==
  /\ row.pc = "stored" /\ row.rewrites < MaxRewrites
  /\ LET got == UnmarshalBinary(row.written.type, row.wire, lacking)
     IN  /\ got # Garbled
         /\ row' = [row EXCEPT !.rewrites = @ + 1, !.wire = MarshalBinary(got)]
  /\ UNCHANGED <<clustered, cores, moves, call, lacking>>

ReadRow ==
  /\ row.pc = "stored"
  /\ row' = [pc |-> "read", written |-> row.written,
             got |-> UnmarshalBinary(row.written.type, row.wire, {})]
  /\ UNCHANGED <<clustered, cores, moves, call, lacking>>

Next ==
  \/ \E x \in DOMAIN Stub : Send(x) \/ CallNonclustered(x)
  \/ \E c \in cores : Deliver(c) \/ Split(c)
  \/ \E c, d \in cores : Merge(c, d)
  \/ Unreachable \/ Receive
  \/ \E t \in Rows : WriteRow(t)
  \/ RewriteRow \/ ReadRow

Spec == Init /\ [][Next]_vars

-----------------------------------------------------------------------------
(* The properties. *)

(* A core gets the fields the caller set, but for those its version of   *)
(* the program does not have, and the caller gets the response the core  *)
(* gave: the sizes, tags and cases of the generated MarshalVT, SizeVT    *)
(* and UnmarshalVT agree for every message of every method, also when    *)
(* the two ends run different versions.                                  *)
ArrivesAsSent ==
  /\ call.pc = "failed" => call.why # "garbled"
  /\ call.pc \in {"ran", "done"} =>
       /\ call.got.type = call.sent.type
       /\ Seen(call.got, lacking) = Seen(call.sent, lacking)
  /\ call.pc = "done" => call.answer = call.reply

(* A row that nodes of an older version read and wrote back during a     *)
(* rolling upgrade is read as it was first written, the fields they do   *)
(* not know included: UnmarshalVT keeps them in unknownFields and        *)
(* MarshalVT writes them out, at every depth.                            *)
RowsSurviveOlderNodes == row.pc = "read" => row.got = row.written

(* The method that a caller names is the method that runs, on the core   *)
(* whose shard has the request's key, and alone if it is an update: the  *)
(* numbers, names and routes in the stubs match the switches of the      *)
(* adapters, and the binary search finds an adapter for every key.       *)
RunsAsCalled ==
  /\ call.pc \in {"ran", "done"} =>
       /\ call.ran = call.method
       /\ call.exclusive = (Kind(call.method) = "Update")
       /\ Keyed(call.method) =>
            ShardKey(call.sent) \in (call.on[1])..(call.on[2])
  /\ ~clustered => \A key \in 0..(Keyspace - 1) :
                     findAdapter(key) = {c \in cores : Owns(c, key)}

(* An update is in the tables of the core that owns its key and of no    *)
(* other, wherever the caller's view of the cluster took it and however  *)
(* the shards are split and merged meanwhile: the key that routes the    *)
(* request is the key by which its rows are restored.                    *)
UpdatesStayWithOwner ==
  call.pc \in {"ran", "done"} /\ Keyed(call.method) =>
    \A c \in cores :
      c.applied = IF /\ ~call.error /\ Kind(call.method) = "Update"
                     /\ Owns(c, ShardKey(call.sent))
                  THEN {RowIds(call.sent)} ELSE {}
=============================================================================
