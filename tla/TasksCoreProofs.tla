---------------------------- MODULE TasksCoreProofs ---------------------------
(***************************************************************************)
(* TasksCore keeps its tables typed, leases at most one member of a thread *)
(* at a time and stays within the retry budget of every task, for every    *)
(* number of tasks, keys, threads and settings.                            *)
(***************************************************************************)
EXTENDS TaskRowsProofs

\* The loop of DeleteEach is a sequence of loop states.
LEMMA DeleteLoop ==
  ASSUME NEW d, NEW S, NEW n \in Nat, NEW reason
  PROVE  \E f : /\ f[0] = [db |-> d, todo |-> S]
                /\ \A i \in 1 .. n : f[i] = DeleteNext(f[i - 1], reason)
                /\ DeleteEach(d, S, n, reason) = f[n].db
<1> DEFINE Start == [db |-> d, todo |-> S]
           Runs(g, m) == g = [i \in 0 .. m |-> IF i = 0 THEN Start
                                               ELSE DeleteNext(g[i - 1], reason)]
           Q == {m \in Nat : \E g : Runs(g, m)}
<1>1. 0 \in Q
  <2>1. Runs([i \in 0 .. 0 |-> Start], 0)
    OBVIOUS
  <2>. QED
    BY <2>1, ZenonT(30)
<1>2. ASSUME NEW m \in 0 .. (n - 1), m \in Q PROVE m + 1 \in Q
  <2>1. PICK g : Runs(g, m)
    BY <1>2
  <2> DEFINE h == [i \in 0 .. (m + 1) |-> IF i = m + 1 THEN DeleteNext(g[m], reason) ELSE g[i]]
  <2>2. ASSUME NEW i \in 0 .. (m + 1)
        PROVE  h[i] = IF i = 0 THEN Start ELSE DeleteNext(h[i - 1], reason)
    <3>1. CASE i = m + 1
      <4>1. h[i] = DeleteNext(g[m], reason) /\ h[m] = g[m] /\ i - 1 = m /\ i # 0
        BY <3>1
      <4>. QED
        BY <4>1
    <3>2. CASE i # m + 1
      <4>1. /\ i \in 0 .. m /\ h[i] = g[i]
            /\ i # 0 => i - 1 \in 0 .. m /\ h[i - 1] = g[i - 1]
        BY <3>2
      <4>2. g[i] = IF i = 0 THEN Start ELSE DeleteNext(g[i - 1], reason)
        BY <2>1, <4>1
      <4>. QED
        BY <4>1, <4>2
    <3>. QED
      BY <3>1, <3>2
  <2>3. Runs(h, m + 1)
    BY <2>2
  <2>. HIDE DEF Runs, h
  <2>. QED
    BY <2>3
<1>3. n \in Q
  <2>. HIDE DEF Q
  <2>1. \A i \in 0 .. n : i \in Q
    BY <1>1, <1>2, UpTo
  <2>. QED
    BY <2>1
<1>4. PICK f : f = CHOOSE g : Runs(g, n)
  OBVIOUS
<1>5. Runs(f, n)
  BY <1>3, <1>4, Zenon
<1>6. DeleteEach(d, S, n, reason) = f[n].db
  BY <1>4 DEF DeleteEach
<1>7. f[0] = Start /\ \A i \in 1 .. n : f[i] = DeleteNext(f[i - 1], reason)
  BY <1>5
<1>. QED
  BY <1>6, <1>7

\* Deletions compose.
LEMMA DeletesTrans ==
  ASSUME NEW d, NEW e, NEW f, Deletes(d, e), Deletes(e, f)
  PROVE  Deletes(d, f)
BY DEF Deletes

\* One turn of the loop, on an item whose row may be gone.
LEMMA DeleteNextInv ==
  ASSUME NEW d, NEW s, CoreInv(s.db), Deletes(d, s.db), s.todo \in SUBSET Items,
         NEW reason \in {"NONE", "PROCESSED", "EXPIRED"}
  PROVE  LET z == DeleteNext(s, reason)
         IN  CoreInv(z.db) /\ Deletes(d, z.db) /\ z.todo \in SUBSET Items
<1> DEFINE x == First(s.todo)
           missing == IF reason = "EXPIRED" THEN [s.db EXCEPT !.expiration = @ \ {x}]
                      ELSE Fail(s.db)
           next == IF Exists(s.db, x[2]) THEN deleteTask(s.db, x[2], reason) ELSE missing
           z == DeleteNext(s, reason)
<1>1. z = IF s.todo = {} \/ s.db.err THEN s ELSE [db |-> next, todo |-> s.todo \ {x}]
  BY DEF DeleteNext
<1>2. s.db \in Db
  BY DEF CoreInv, CoreInvBut
<1>3. Deletes(s.db, missing)
  <2>1. Deletes(s.db, Fail(s.db))
    BY FailSame DEF Deletes, CoreInv
  <2>2. SameCore(s.db, [s.db EXCEPT !.expiration = @ \ {x}])
    BY <1>2 DEF Db, SameCore, SameThreads
  <2> DEFINE m == [s.db EXCEPT !.expiration = @ \ {x}]
  <2>3. Deletes(s.db, m)
    <3>. HIDE DEF m
    <3>1. SameCore(s.db, m)
      BY <2>2 DEF m
    <3>2. CoreInv(m)
      BY <3>1, SameCoreInv DEF CoreInv
    <3>. QED
      BY <3>1, <3>2 DEF Deletes, SameCore, SameThreads, SeqOK, Exists
  <2>. QED
    BY <2>1, <2>3
<1>4. ASSUME s.todo # {} PROVE Deletes(s.db, next)
  <2>1. x \in s.todo /\ x[2] \in TaskIds
    BY <1>4, FirstInIndex DEF Items
  <2>. HIDE DEF x, missing
  <2>. QED
    BY <2>1, <1>3, DeleteTaskInv
<1>5. z.todo \in SUBSET Items
  <2>. HIDE DEF next
  <2>. QED
    BY <1>1
<1>6. Deletes(d, z.db)
  <2>1. CASE s.todo = {} \/ s.db.err
    BY <1>1, <2>1
  <2>2. CASE ~(s.todo = {} \/ s.db.err)
    <3>. HIDE DEF next, z
    <3>1. z.db = next
      BY <1>1, <2>2
    <3>. QED
      BY <2>2, <3>1, <1>4, DeletesTrans
  <2>. QED
    BY <2>1, <2>2
<1>. QED
  BY <1>5, <1>6 DEF Deletes

\* The whole loop, whatever items it is given.
LEMMA DeleteEachInv ==
  ASSUME NEW d, CoreInv(d), NEW S \in SUBSET Items, NEW n \in Nat,
         NEW reason \in {"NONE", "PROCESSED", "EXPIRED"}
  PROVE  Deletes(d, DeleteEach(d, S, n, reason))
<1>1. PICK f : /\ f[0] = [db |-> d, todo |-> S]
               /\ \A i \in 1 .. n : f[i] = DeleteNext(f[i - 1], reason)
               /\ DeleteEach(d, S, n, reason) = f[n].db
  BY DeleteLoop
<1> DEFINE Q == {i \in 0 .. n : /\ CoreInv(f[i].db) /\ Deletes(d, f[i].db)
                                /\ f[i].todo \in SUBSET Items}
<1>2. 0 \in Q
  BY <1>1 DEF Deletes
<1>3. ASSUME NEW i \in 0 .. (n - 1), i \in Q PROVE i + 1 \in Q
  <2>1. CoreInv(f[i].db) /\ Deletes(d, f[i].db) /\ f[i].todo \in SUBSET Items
    BY <1>3
  <2>2. i + 1 \in 1 .. n /\ (i + 1) - 1 = i
    OBVIOUS
  <2>3. f[i + 1] = DeleteNext(f[i], reason)
    BY <2>2, <1>1
  <2>4. /\ CoreInv(f[i + 1].db) /\ Deletes(d, f[i + 1].db)
        /\ f[i + 1].todo \in SUBSET Items
    <3>. HIDE DEF Q
    <3> DEFINE s == f[i]
    <3>1. CoreInv(s.db) /\ Deletes(d, s.db) /\ s.todo \in SUBSET Items
      BY <2>1
    <3>. HIDE DEF s
    <3>2. LET z == DeleteNext(s, reason)
          IN  CoreInv(z.db) /\ Deletes(d, z.db) /\ z.todo \in SUBSET Items
      BY <3>1, DeleteNextInv, ZenonT(30)
    <3>. QED
      BY <2>3, <3>2 DEF s
  <2>. QED
    BY <2>2, <2>4
<1>4. n \in Q
  <2>. HIDE DEF Q
  <2>1. \A i \in 0 .. n : i \in Q
    BY <1>2, <1>3, UpTo
  <2>. QED
    BY <2>1
<1>. QED
  BY <1>1, <1>4

\* The eviction of dead tasks over MaxSize.
LEMMA EvictInv ==
  ASSUME NEW d, CoreInv(d), NEW maxSize \in Nat
  PROVE  Deletes(d, evictExcessDeadTasks(d, maxSize))
<1>1. d \in Db
  BY DEF CoreInv, CoreInvBut
<1>2. d.deadTasksIndex \in SUBSET Items /\ d.counters["DEAD"] \in Int
  BY <1>1 DEF Db, Counters, TaskStates
<1>3. CASE maxSize = 0 \/ d.counters["DEAD"] - maxSize <= 0
  BY <1>3 DEF evictExcessDeadTasks, Deletes
<1>4. CASE ~(maxSize = 0 \/ d.counters["DEAD"] - maxSize <= 0)
  <2> DEFINE n == d.counters["DEAD"] - maxSize
  <2>1. n \in Nat /\ evictExcessDeadTasks(d, maxSize) = DeleteEach(d, d.deadTasksIndex, n, "NONE")
    BY <1>2, <1>4 DEF evictExcessDeadTasks
  <2>. HIDE DEF n
  <2>. QED
    BY <1>2, <2>1, DeleteEachInv
<1>. QED
  BY <1>3, <1>4

\* After an error the loop has no more effect.
LEMMA EvictErr ==
  ASSUME NEW d \in Db, d.err, NEW maxSize \in Nat
  PROVE  evictExcessDeadTasks(d, maxSize) = d
<1>1. ASSUME NEW n \in Nat PROVE DeleteEach(d, d.deadTasksIndex, n, "NONE") = d
  <2>1. PICK f : /\ f[0] = [db |-> d, todo |-> d.deadTasksIndex]
                 /\ \A i \in 1 .. n : f[i] = DeleteNext(f[i - 1], "NONE")
                 /\ DeleteEach(d, d.deadTasksIndex, n, "NONE") = f[n].db
    BY DeleteLoop
  <2> DEFINE Q == {i \in 0 .. n : f[i].db = d}
  <2>2. 0 \in Q
    BY <2>1
  <2>3. ASSUME NEW i \in 0 .. (n - 1), i \in Q PROVE i + 1 \in Q
    <3>1. f[i].db = d /\ f[i].db.err
      BY <2>3
    <3>2. i + 1 \in 1 .. n /\ (i + 1) - 1 = i
      OBVIOUS
    <3>3. f[i + 1] = DeleteNext(f[i], "NONE")
      BY <3>2, <2>1
    <3>4. f[i + 1] = f[i]
      BY <3>1, <3>3 DEF DeleteNext
    <3>. QED
      BY <3>1, <3>2, <3>4
  <2>4. n \in Q
    <3>. HIDE DEF Q
    <3>1. \A i \in 0 .. n : i \in Q
      BY <2>2, <2>3, UpTo
    <3>. QED
      BY <3>1
  <2>. QED
    BY <2>1, <2>4
<1>2. d.counters["DEAD"] \in Int
  BY DEF Db, Counters, TaskStates
<1>3. CASE maxSize = 0 \/ d.counters["DEAD"] - maxSize <= 0
  BY <1>3 DEF evictExcessDeadTasks
<1>4. CASE ~(maxSize = 0 \/ d.counters["DEAD"] - maxSize <= 0)
  <2>1. d.counters["DEAD"] - maxSize \in Nat
    BY <1>2, <1>4
  <2>. QED
    BY <1>1, <1>4, <2>1 DEF evictExcessDeadTasks
<1>. QED
  BY <1>3, <1>4

\* What the failure of t leaves of the other rows.
OthersStay(d, e, t) ==
    \A u \in TaskIds \ {t} : e.tasks[u] = d.tasks[u] \/ e.tasks[u] = NoTask

\* The last failure: the task dies and leaves its thread, or is deleted.
LEMMA DeadInv ==
  ASSUME NEW d, CoreInv(d), NEW t \in TaskIds, NEW now \in Nat,
         d.tasks[t].state = "IN_PROGRESS",
         NEW dlq \in [enable : BOOLEAN, retention : Nat, maxSize : Nat]
  PROVE  LET e == failTaskToDead(d, t, now, dlq)
         IN  Good(d, e) /\ OthersStay(d, e, t)
<1> DEFINE task == d.tasks[t]
           expiresAt == now + dlq.retention
           row == [task EXCEPT !.state = "DEAD", !.lastFailedAt = now, !.expiresAt = expiresAt]
           out == [d EXCEPT !.inProgressIndex = @ \ {<<task.visibleAt, t>>},
                            !.tasks[t] = row,
                            !.expiration = @ \cup {<<expiresAt, t>>}]
           dead == SetDedupeKey(out, task.dedupeKey, 0)
           detached == IF task.threadId = None THEN dead ELSE detachTaskFromThread(dead, t)
           indexed == [detached EXCEPT !.deadTasksIndex = @ \cup {<<now, t>>}]
           c1 == Count(indexed, "IN_PROGRESS", -1)
           counted == Count(c1, "DEAD", 1)
           e == failTaskToDead(d, t, now, dlq)
<1>1. e = IF dlq.enable THEN evictExcessDeadTasks(counted, dlq.maxSize)
          ELSE deleteTask(d, t, "NONE")
  BY DEF failTaskToDead
<1>2. /\ d \in Db /\ t # 0 /\ task \in Task /\ dlq.maxSize \in Nat /\ expiresAt \in Nat
      /\ task.dedupeKey \in DedupeKeys \cup {None} /\ task.threadId \in ThreadIds \cup {None}
      /\ task.scheduledAt \in Nat /\ task.visibleAt \in Nat
  BY RowFields, TaskFields DEF CoreInv, CoreInvBut
<1>3. /\ row \in Task /\ row.state = "DEAD" /\ row.scheduledAt = task.scheduledAt
      /\ row.threadId = task.threadId
  <2>. HIDE DEF task, expiresAt
  <2>. QED
    BY <1>2, ZenonT(30) DEF Task, TaskStates
<1>4. /\ \A x \in d.queueIndex : x[2] # t
      /\ \A x \in d.inProgressIndex : x[2] = t => x = <<task.visibleAt, t>>
      /\ \A h \in ThreadIds : \A x \in d.threadedTasksIndex[h] :
            x[2] = t => h = task.threadId /\ x = <<task.scheduledAt, t>>
  BY ItemsOfTask DEF Exists
<1>5. task = d.tasks[t]
  OBVIOUS
<1>. SUFFICES Good(d, e) /\ OthersStay(d, e, t)
  OBVIOUS
<1>6. /\ dead = SetDedupeKey(out, task.dedupeKey, 0)
      /\ detached = IF task.threadId = None THEN dead ELSE detachTaskFromThread(dead, t)
      /\ indexed = [detached EXCEPT !.deadTasksIndex = @ \cup {<<now, t>>}]
      /\ c1 = Count(indexed, "IN_PROGRESS", -1)
      /\ counted = Count(c1, "DEAD", 1)
  OBVIOUS
<1>. HIDE DEF task, expiresAt, row, dead, detached, indexed, c1, counted, e
<1>7. TakenOut(d, out, t) /\ out.tasks[t] = row
  <2> DEFINE r == [d.tasks EXCEPT ![t] = row]
             x == d.expiration \cup {<<expiresAt, t>>}
             p == d.inProgressIndex \ {<<task.visibleAt, t>>}
  <2>1. /\ d.tasks \in [TaskIds -> Task] /\ d.expiration \in SUBSET Items
        /\ d.inProgressIndex \in SUBSET Items
    BY <1>2 DEF Db
  <2>2. out = [d EXCEPT !.inProgressIndex = p, !.tasks = r, !.expiration = x]
    BY <1>2, <2>1 DEF Db
  <2>3. r \in [TaskIds -> Task] /\ x \in SUBSET Items /\ p \in SUBSET Items
    BY <1>2, <1>3, <2>1, TimeItem
  <2>4. r[t] = row /\ \A u \in TaskIds \ {t} : r[u] = d.tasks[u]
    BY <2>1
  <2>5. \A y \in p : y \in d.inProgressIndex /\ y[2] # t
    BY <1>4
  <2>. HIDE DEF r, x, p, out
  <2>6. out \in Db
    BY <1>2, <2>2, <2>3, ZenonT(30) DEF Db
  <2>7. /\ out.tasks = r /\ out.inProgressIndex = p /\ out.queueIndex = d.queueIndex
        /\ out.threads = d.threads /\ out.threadedTasksIndex = d.threadedTasksIndex
        /\ out.queueState = d.queueState /\ out.err = d.err /\ out.purgeMarked = d.purgeMarked
    BY <1>2, <2>2 DEF Db
  <2>. QED
    BY <2>4, <2>5, <2>6, <2>7, <1>4 DEF TakenOut
<1>. HIDE DEF out
<1>8. /\ CoreInvBut(dead, t) /\ dead \in Db /\ dead.tasks[t] = row
      /\ \A u \in TaskIds \ {t} : dead.tasks[u] = d.tasks[u]
      /\ dead.threadedTasksIndex = d.threadedTasksIndex
      /\ dead.queueState = d.queueState /\ dead.err = d.err /\ dead.purgeMarked = d.purgeMarked
  <2>1. CoreInvBut(out, t) /\ out \in Db
    BY <1>7, TakeOut DEF TakenOut
  <2>2. SameCore(out, dead)
    BY <2>1, <1>2, <1>6, SetDedupeSame
  <2>3. CoreInvBut(dead, t)
    BY <2>1, <2>2, SameCoreInv
  <2>. QED
    BY <2>2, <2>3, <1>7 DEF TakenOut, SameCore, SameThreads
<1>9. /\ CoreInvBut(detached, t) /\ detached \in Db /\ detached.tasks = dead.tasks
      /\ detached.queueState = d.queueState /\ (d.err => detached.err)
      /\ detached.purgeMarked = d.purgeMarked /\ MembersWithin(d, detached, t)
      /\ detached.err \/ \A h \in ThreadIds : \A x \in detached.threadedTasksIndex[h] : x[2] # t
  <2>1. CASE task.threadId = None
    <3>1. detached = dead
      BY <1>6, <2>1
    <3>. QED
      BY <2>1, <3>1, <1>4, <1>8, TablesAssumption DEF MembersWithin
  <2>2. CASE task.threadId # None
    <3>1. detached = detachTaskFromThread(dead, t)
      BY <1>6, <2>2
    <3>2. \A h \in ThreadIds : \A x \in dead.threadedTasksIndex[h] :
             x[2] = t => h = dead.tasks[t].threadId /\ x = <<dead.tasks[t].scheduledAt, t>>
      BY <1>3, <1>4, <1>8
    <3>3. dead.tasks[t].threadId # None /\ ThreadInv(dead, t)
      BY <2>2, <1>3, <1>8 DEF CoreInvBut
    <3>4. /\ SameRows(dead, detached) /\ MembersWithin(dead, detached, t)
          /\ ThreadInv(detached, t)
          /\ detached.err \/ \A h \in ThreadIds :
                \A x \in detached.threadedTasksIndex[h] : x[2] # t
      BY <3>1, <3>2, <3>3, <1>8, DetachInv
    <3>5. CoreInvBut(detached, t)
      BY <3>4, <1>8, SameRowsInv
    <3>. QED
      BY <3>4, <3>5, <1>8 DEF SameRows, MembersWithin
  <2>. QED
    BY <2>1, <2>2
<1>10. SameCore(detached, counted)
  <2>1. SameCore(detached, indexed)
    <3> DEFINE items == detached.deadTasksIndex \cup {<<now, t>>}
    <3>1. detached \in Db /\ <<now, t>> \in Items
      BY <1>9, TimeItem
    <3>2. items \in SUBSET Items /\ indexed = [detached EXCEPT !.deadTasksIndex = items]
      BY <3>1, <1>6 DEF Db
    <3>. HIDE DEF items
    <3>3. indexed \in Db
      BY <3>1, <3>2 DEF Db
    <3>. QED
      BY <3>1, <3>2, <3>3 DEF Db, SameCore, SameThreads
  <2>2. indexed \in Db /\ "IN_PROGRESS" \in Counters /\ "DEAD" \in Counters
    BY <2>1 DEF SameCore, Counters, TaskStates
  <2>3. SameCore(indexed, c1)
    BY <2>2, <1>6, CountSame
  <2>4. c1 \in Db
    BY <2>3 DEF SameCore
  <2>5. SameCore(c1, counted)
    BY <2>2, <2>4, <1>6, CountSame
  <2>. QED
    BY <2>1, <2>3, <2>5 DEF SameCore, SameThreads
<1>11. ASSUME ~counted.err PROVE CoreInv(counted)
  <2>1. /\ counted \in Db /\ counted.tasks = detached.tasks /\ counted.err = detached.err
        /\ counted.threads = detached.threads /\ counted.queueIndex = detached.queueIndex
        /\ counted.threadedTasksIndex = detached.threadedTasksIndex
        /\ counted.inProgressIndex = detached.inProgressIndex
    BY <1>10 DEF SameCore, SameThreads
  <2>2. RowOK(counted.tasks[t]) /\ counted.tasks[t].state # "IN_PROGRESS"
    BY <2>1, <1>3, <1>8, <1>9 DEF RowOK
  <2>3. \A h \in ThreadIds : \A x \in counted.threadedTasksIndex[h] : x[2] # t
    BY <2>1, <1>9, <1>11
  <2>. QED
    BY <2>1, <2>2, <2>3, <1>9, PutBack
<1>12. Good(d, counted) /\ \A u \in TaskIds \ {t} : counted.tasks[u] = d.tasks[u]
  <2>1. /\ counted \in Db /\ counted.tasks = detached.tasks /\ counted.err = detached.err
        /\ counted.queueState = detached.queueState
        /\ counted.purgeMarked = detached.purgeMarked
        /\ counted.threadedTasksIndex = detached.threadedTasksIndex
    BY <1>10 DEF SameCore, SameThreads
  <2>2. ASSUME SeqOK(d) PROVE SeqOK(counted)
    <3>1. \A u \in TaskIds : Exists(counted, u) => u = t \/ Exists(d, u)
      BY <2>1, <1>8, <1>9 DEF Exists
    <3>2. t <= d.queueState.taskIdSequence
      BY <2>2 DEF SeqOK, Exists
    <3>. QED
      BY <2>1, <2>2, <3>1, <3>2, <1>9 DEF SeqOK, MembersWithin
  <2>3. \A u \in TaskIds \ {t} : counted.tasks[u] = d.tasks[u]
    BY <2>1, <1>8, <1>9
  <2>. QED
    BY <2>1, <2>2, <2>3, <1>9, <1>11 DEF Good
<1>13. CASE ~dlq.enable
  <2>1. e = deleteTask(d, t, "NONE")
    BY <1>1, <1>13
  <2>2. Exists(d, t)
    BY DEF Exists
  <2>3. Deletes(d, e)
    BY <2>1, <2>2, DeleteTaskInv
  <2>. QED
    BY <2>3, DeletesGood DEF Deletes, OthersStay
<1>14. CASE dlq.enable
  <2>1. e = evictExcessDeadTasks(counted, dlq.maxSize) /\ counted \in Db
    BY <1>1, <1>12, <1>14 DEF Good
  <2>2. CASE counted.err
    <3>1. e = counted
      BY <2>1, <2>2, <1>2, EvictErr
    <3>. QED
      BY <3>1, <1>12 DEF OthersStay
  <2>3. CASE ~counted.err
    <3>1. Deletes(counted, e)
      BY <2>1, <2>3, <1>2, <1>11, <1>14, EvictInv
    <3>2. Good(d, e)
      BY <3>1, <1>12, DeletesGood, GoodTrans
    <3>. QED
      BY <3>1, <3>2, <1>12 DEF Deletes, OthersStay
  <2>. QED
    BY <2>2, <2>3
<1>. QED
  BY <1>13, <1>14

\* A failed or lapsed attempt.
LEMMA FailureInv ==
  ASSUME NEW d, CoreInv(d), NEW t \in TaskIds, NEW now \in Nat,
         d.tasks[t].state = "IN_PROGRESS",
         NEW dlq \in [enable : BOOLEAN, retention : Nat, maxSize : Nat]
  PROVE  LET e == handleTaskFailure(d, t, now, dlq)
         IN  Good(d, e) /\ OthersStay(d, e, t)
<1> DEFINE e == handleTaskFailure(d, t, now, dlq)
<1>1. d \in Db /\ d.tasks[t].expiresAt \in Nat /\ d.tasks[t].attempts \in Nat
  BY RowFields, TaskFields DEF CoreInv, CoreInvBut
<1>2. Len(d.tasks[t].retryIntervals) \in Nat
  <2>1. d.tasks[t].retryIntervals \in RetryStrategies \cup {<< >>}
    BY <1>1, RowFields, TaskFields
  <2>2. << >> \in Seq(Nat) /\ \A r \in RetryStrategies : r \in Seq(Nat)
    BY TablesAssumption
  <2>. QED
    BY <2>1, <2>2
<1>3. CASE d.tasks[t].expiresAt < now
  <2>1. e = deleteTask(d, t, "EXPIRED")
    BY <1>1, <1>3 DEF handleTaskFailure
  <2>. HIDE DEF e
  <2>2. Exists(d, t)
    BY DEF Exists
  <2>3. Deletes(d, e)
    BY <2>1, <2>2, DeleteTaskInv
  <2>4. Good(d, e) /\ OthersStay(d, e, t)
    BY <2>3, DeletesGood DEF Deletes, OthersStay
  <2>. QED
    BY <2>4 DEF e
<1>4. CASE d.tasks[t].expiresAt >= now /\ d.tasks[t].attempts > Len(d.tasks[t].retryIntervals)
  <2>1. e = failTaskToDead(d, t, now, dlq)
    BY <1>1, <1>2, <1>4 DEF handleTaskFailure
  <2>. QED
    BY <2>1, DeadInv
<1>5. CASE d.tasks[t].expiresAt >= now /\ d.tasks[t].attempts <= Len(d.tasks[t].retryIntervals)
  <2>1. e = failTaskToRetry(d, t, now)
    BY <1>1, <1>2, <1>5 DEF handleTaskFailure
  <2>2. Good(d, e) /\ \A u \in TaskIds \ {t} : e.tasks[u] = d.tasks[u]
    BY <2>1, <1>5, RetryInv
  <2>. QED
    BY <2>2 DEF OthersStay
<1>. QED
  BY <1>1, <1>2, <1>3, <1>4, <1>5, SMTT(30)

\* So is the loop of TimeOutEach.
LEMMA TimeOutLoop ==
  ASSUME NEW d, NEW S, NEW n \in Nat, NEW now, NEW dlq
  PROVE  \E f : /\ f[0] = [db |-> d, todo |-> S]
                /\ \A i \in 1 .. n : f[i] = TimeOutNext(f[i - 1], now, dlq)
                /\ TimeOutEach(d, S, n, now, dlq) = f[n].db
<1> DEFINE Start == [db |-> d, todo |-> S]
           Runs(g, m) == g = [i \in 0 .. m |-> IF i = 0 THEN Start
                                               ELSE TimeOutNext(g[i - 1], now, dlq)]
           Q == {m \in Nat : \E g : Runs(g, m)}
<1>1. 0 \in Q
  <2>1. Runs([i \in 0 .. 0 |-> Start], 0)
    OBVIOUS
  <2>. QED
    BY <2>1, ZenonT(30)
<1>2. ASSUME NEW m \in 0 .. (n - 1), m \in Q PROVE m + 1 \in Q
  <2>1. PICK g : Runs(g, m)
    BY <1>2
  <2> DEFINE h == [i \in 0 .. (m + 1) |-> IF i = m + 1 THEN TimeOutNext(g[m], now, dlq) ELSE g[i]]
  <2>2. ASSUME NEW i \in 0 .. (m + 1)
        PROVE  h[i] = IF i = 0 THEN Start ELSE TimeOutNext(h[i - 1], now, dlq)
    <3>1. CASE i = m + 1
      <4>1. h[i] = TimeOutNext(g[m], now, dlq) /\ h[m] = g[m] /\ i - 1 = m /\ i # 0
        BY <3>1
      <4>. QED
        BY <4>1
    <3>2. CASE i # m + 1
      <4>1. /\ i \in 0 .. m /\ h[i] = g[i]
            /\ i # 0 => i - 1 \in 0 .. m /\ h[i - 1] = g[i - 1]
        BY <3>2
      <4>2. g[i] = IF i = 0 THEN Start ELSE TimeOutNext(g[i - 1], now, dlq)
        BY <2>1, <4>1
      <4>. QED
        BY <4>1, <4>2
    <3>. QED
      BY <3>1, <3>2
  <2>3. Runs(h, m + 1)
    BY <2>2
  <2>. HIDE DEF Runs, h
  <2>. QED
    BY <2>3
<1>3. n \in Q
  <2>. HIDE DEF Q
  <2>1. \A i \in 0 .. n : i \in Q
    BY <1>1, <1>2, UpTo
  <2>. QED
    BY <2>1
<1>4. PICK f : f = CHOOSE g : Runs(g, n)
  OBVIOUS
<1>5. Runs(f, n)
  BY <1>3, <1>4, Zenon
<1>6. TimeOutEach(d, S, n, now, dlq) = f[n].db
  BY <1>4 DEF TimeOutEach
<1>7. f[0] = Start /\ \A i \in 1 .. n : f[i] = TimeOutNext(f[i - 1], now, dlq)
  BY <1>5
<1>. QED
  BY <1>6, <1>7

\* The leases a Dequeue still has to time out: the tasks are IN_PROGRESS, or
\* were evicted from the dead letter queue by an earlier turn, and each has
\* one item.
Lapsing(s) ==
    /\ s.todo \in SUBSET Items
    /\ \A x \in s.todo : s.db.tasks[x[2]].state \in {"IN_PROGRESS", "ABSENT"}
    /\ \A x, y \in s.todo : x[2] = y[2] => x = y

\* One turn of the loop over lapsed leases.
LEMMA TimeOutNextInv ==
  ASSUME NEW d, NEW s, Good(d, s.db), ~s.db.err => Lapsing(s), NEW now \in Nat,
         NEW dlq \in [enable : BOOLEAN, retention : Nat, maxSize : Nat]
  PROVE  LET z == TimeOutNext(s, now, dlq)
         IN  Good(d, z.db) /\ (~z.db.err => Lapsing(z))
<1> DEFINE x == First(s.todo)
           next == IF Exists(s.db, x[2]) THEN handleTaskFailure(s.db, x[2], now, dlq)
                   ELSE Fail(s.db)
           z == TimeOutNext(s, now, dlq)
<1>1. z = IF s.todo = {} \/ s.db.err THEN s ELSE [db |-> next, todo |-> s.todo \ {x}]
  BY DEF TimeOutNext
<1>2. CASE s.todo = {} \/ s.db.err
  BY <1>1, <1>2
<1>3. CASE ~(s.todo = {} \/ s.db.err)
  <2>1. CoreInv(s.db) /\ Lapsing(s) /\ s.todo # {}
    BY <1>3 DEF Good
  <2>2. x \in s.todo /\ x[2] \in TaskIds
    BY <2>1, FirstInIndex DEF Lapsing, Items
  <2>3. z.db = next /\ z.todo = s.todo \ {x}
    <3>. HIDE DEF next
    <3>. QED
      BY <1>1, <1>3
  <2>4. \A y \in s.todo \ {x} : y[2] \in TaskIds \ {x[2]}
    BY <2>1, <2>2 DEF Lapsing, Items
  <2>. HIDE DEF x
  <2>5. Good(s.db, next) /\ (next.err \/ OthersStay(s.db, next, x[2]))
    <3>1. CASE Exists(s.db, x[2])
      <4>1. s.db.tasks[x[2]].state = "IN_PROGRESS"
        BY <2>1, <2>2, <3>1 DEF Lapsing, Exists
      <4>2. next = handleTaskFailure(s.db, x[2], now, dlq)
        BY <3>1
      <4>. HIDE DEF next
      <4>. QED
        BY <2>1, <2>2, <4>1, <4>2, FailureInv
    <3>2. CASE ~Exists(s.db, x[2])
      BY <2>1, <3>2, FailSame, Zenon DEF Good, CoreInv
    <3>. QED
      BY <3>1, <3>2
  <2>. HIDE DEF next, z
  <2>6. Good(d, z.db)
    BY <2>3, <2>5, GoodTrans, Zenon
  <2>7. ASSUME ~z.db.err PROVE Lapsing(z)
    <3>1. OthersStay(s.db, z.db, x[2])
      BY <2>3, <2>5, <2>7
    <3>2. \A y \in z.todo : z.db.tasks[y[2]].state \in {"IN_PROGRESS", "ABSENT"}
      BY <2>1, <2>3, <2>4, <3>1, NoTaskFields DEF Lapsing, OthersStay
    <3>. QED
      BY <2>1, <2>3, <3>2 DEF Lapsing
  <2>8. Good(d, z.db) /\ (~z.db.err => Lapsing(z))
    BY <2>6, <2>7
  <2>. QED
    BY <2>8 DEF z
<1>. QED
  BY <1>2, <1>3

\* The whole loop, over any part of inProgressIndex.
LEMMA TimeOutEachInv ==
  ASSUME NEW d, CoreInv(d), NEW S \in SUBSET d.inProgressIndex, NEW n \in Nat, NEW now \in Nat,
         NEW dlq \in [enable : BOOLEAN, retention : Nat, maxSize : Nat]
  PROVE  Good(d, TimeOutEach(d, S, n, now, dlq))
<1>1. PICK f : /\ f[0] = [db |-> d, todo |-> S]
               /\ \A i \in 1 .. n : f[i] = TimeOutNext(f[i - 1], now, dlq)
               /\ TimeOutEach(d, S, n, now, dlq) = f[n].db
  BY TimeOutLoop
<1> DEFINE Q == {i \in 0 .. n : Good(d, f[i].db) /\ (~f[i].db.err => Lapsing(f[i]))}
<1>2. 0 \in Q
  <2>1. d \in Db /\ d.inProgressIndex \in SUBSET Items
    BY DEF CoreInv, CoreInvBut, Db
  <2>2. \A x \in S : x[2] \in TaskIds /\ LeaseOK(d, x) /\ x = <<x[1], x[2]>>
    BY <2>1, IndexIds DEF CoreInv, CoreInvBut
  <2>3. Lapsing([db |-> d, todo |-> S])
    BY <2>1, <2>2 DEF Lapsing, LeaseOK
  <2>. QED
    BY <1>1, <2>1, <2>3 DEF Good
<1>3. ASSUME NEW i \in 0 .. (n - 1), i \in Q PROVE i + 1 \in Q
  <2>1. Good(d, f[i].db) /\ (~f[i].db.err => Lapsing(f[i]))
    BY <1>3
  <2>2. i + 1 \in 1 .. n /\ (i + 1) - 1 = i
    OBVIOUS
  <2>3. f[i + 1] = TimeOutNext(f[i], now, dlq)
    BY <2>2, <1>1
  <2>4. Good(d, f[i + 1].db) /\ (~f[i + 1].db.err => Lapsing(f[i + 1]))
    <3>. HIDE DEF Q
    <3> DEFINE s == f[i]
    <3>1. Good(d, s.db) /\ (~s.db.err => Lapsing(s))
      BY <2>1
    <3>. HIDE DEF s
    <3>2. LET z == TimeOutNext(s, now, dlq)
          IN  Good(d, z.db) /\ (~z.db.err => Lapsing(z))
      BY <3>1, TimeOutNextInv, ZenonT(30)
    <3>. QED
      BY <2>3, <3>2 DEF s
  <2>. QED
    BY <2>2, <2>4
<1>4. n \in Q
  <2>. HIDE DEF Q
  <2>1. \A i \in 0 .. n : i \in Q
    BY <1>2, <1>3, UpTo
  <2>. QED
    BY <2>1
<1>. QED
  BY <1>1, <1>4

\* The first half of Dequeue: every lapsed lease in reach of the visit budget.
LEMMA ReapInv ==
  ASSUME NEW d, CoreInv(d), NEW now \in Nat,
         NEW dlq \in [enable : BOOLEAN, retention : Nat, maxSize : Nat]
  PROVE  Good(d, dequeueInProgressTasksBeforeTime(d, now, dlq))
<1> DEFINE visited == FirstN(InRange(d.inProgressIndex,
                                     d.queueState.lastVisitedInProgress, now),
                             maxVisitedTasksForDequeuing)
           at == IF visited = {} THEN now ELSE LastTime(visited)
           c == [d EXCEPT !.queueState.lastVisitedInProgress = at]
<1>1. d \in Db /\ d.inProgressIndex \in SUBSET Items /\ d.queueState \in QueueState
  BY DEF CoreInv, CoreInvBut, Db
<1>2. visited \in SUBSET d.inProgressIndex /\ \A x \in visited : x[1] <= now
  BY DEF FirstN, InRange
<1>3. dequeueInProgressTasksBeforeTime(d, now, dlq)
         = TimeOutEach(c, visited, maxVisitedTasksForDequeuing, now, dlq)
  BY DEF dequeueInProgressTasksBeforeTime
<1>4. at \in Nat
  <2>. HIDE DEF visited
  <2>1. visited \in SUBSET Items
    BY <1>1, <1>2
  <2>. QED
    BY <2>1, <1>2, LastTimeOfScan
<1>. HIDE DEF visited, at
<1>5. /\ c \in Db /\ SameThreads(d, c) /\ c.inProgressIndex = d.inProgressIndex
      /\ c.err = d.err /\ c.purgeMarked = d.purgeMarked
      /\ c.queueState.taskIdSequence = d.queueState.taskIdSequence
  <2> DEFINE q == [d.queueState EXCEPT !.lastVisitedInProgress = at]
  <2>1. q \in QueueState /\ q.taskIdSequence = d.queueState.taskIdSequence
    BY <1>1, <1>4 DEF QueueState
  <2>2. c = [d EXCEPT !.queueState = q]
    OBVIOUS
  <2>. HIDE DEF q, c
  <2>. QED
    BY <1>1, <2>1, <2>2 DEF Db, SameThreads
<1>. HIDE DEF c
<1>6. CoreInv(c)
  <2>1. ThreadInv(c, 0)
    BY <1>5, SameThreadsInv DEF CoreInv, CoreInvBut
  <2>. QED
    BY <2>1, <1>5 DEF CoreInv, CoreInvBut, SameThreads, LeaseOK
<1>7. Good(d, c)
  BY <1>5, <1>6 DEF Good, SeqOK, Exists, SameThreads
<1>8. Good(c, TimeOutEach(c, visited, maxVisitedTasksForDequeuing, now, dlq))
  BY <1>2, <1>5, <1>6, TimeOutEachInv, CoreAssumption
<1>. QED
  BY <1>3, <1>7, <1>8, GoodTrans

\* The second half of Dequeue: the visited candidates leave queueIndex and
\* are leased or, when expired, dropped.  A leased task was a candidate, so it
\* heads its thread.
LEMMA PullInv ==
  ASSUME NEW d, CoreInv(d), NEW now \in Nat, NEW keepalive \in Nat,
         NEW visited \in SUBSET Candidates(d, now)
  PROVE  Good(d, dequeueTasksBeforeTime(d, now, visited, keepalive))
<1> DEFINE expiredItems == ExpiredAmong(d, visited, now)
           leasedItems == visited \ expiredItems
           expired == IdsOf(expiredItems)
           leased == IdsOf(leasedItems)
           taken == expired \cup leased
           cursor == CASE visited # {} -> LastTime(visited)
                       [] Candidates(d, now) = {} -> now
                       [] OTHER -> d.queueState.lastVisitedEnqueued
           scan == [d.queueState EXCEPT !.lastVisitedEnqueued = cursor]
           candidates == d.queueIndex \ {<<d.tasks[t].scheduledAt, t>> : t \in taken}
           deadlines == d.expiration \ {<<d.tasks[t].expiresAt, t>> : t \in taken}
           keys == PulledKeys(d, expired)
           Lease(t) == [d.tasks[t] EXCEPT !.state = "IN_PROGRESS", !.attempts = @ + 1,
                                          !.visibleAt = now + keepalive]
           rows == PulledRows(d, expired, leased, now + keepalive)
           leases == d.inProgressIndex \cup {<<now + keepalive, t>> : t \in leased}
           counters == PulledCounters(d, Cardinality(expiredItems), Cardinality(leasedItems))
           e == [d EXCEPT !.queueState = scan, !.queueIndex = candidates,
                          !.expiration = deadlines, !.dedupeKeysIndex = keys, !.tasks = rows,
                          !.inProgressIndex = leases, !.counters = counters]
<1>1. dequeueTasksBeforeTime(d, now, visited, keepalive)
         = IF RowMissing(d, visited, expiredItems) THEN Fail(d)
           ELSE Pull(d, cursor, expired, leased, Cardinality(expiredItems),
                     Cardinality(leasedItems), now + keepalive)
  BY DEF dequeueTasksBeforeTime
<1>2. Good(d, Fail(d))
  BY FailSame DEF CoreInv, Good
<1>3. /\ d \in Db /\ d.queueIndex \in SUBSET Items /\ d.inProgressIndex \in SUBSET Items
      /\ d.expiration \in SUBSET Items /\ d.queueState \in QueueState
      /\ d.dedupeKeysIndex \in [DedupeKeys -> TaskIds \cup {0}]
      /\ d.counters \in [Counters -> Int] /\ d.tasks \in [TaskIds -> Task]
  BY DEF CoreInv, CoreInvBut, Db
<1>4. \A x \in visited : /\ x \in d.queueIndex /\ x[1] <= now /\ x[2] \in TaskIds
                         /\ x = <<x[1], x[2]>> /\ CandidateOK(d, x)
                         /\ x = <<d.tasks[x[2]].scheduledAt, x[2]>>
  <2>1. \A x \in visited : x \in d.queueIndex /\ x[1] <= now
    BY DEF Candidates, InRange
  <2>. QED
    BY <2>1, <1>3, IndexIds DEF CoreInv, CoreInvBut, ThreadInv, CandidateOK
<1>5. \A x, y \in visited : x[2] = y[2] => x = y
  BY <1>4
<1>6. /\ expiredItems \in SUBSET visited /\ leasedItems \in SUBSET visited
      /\ \A t \in expired \cup leased : \E x \in visited : t = x[2]
      /\ \A x \in visited : x[2] \in expired \cup leased
      /\ \A t : ~(t \in expired /\ t \in leased)
  BY <1>5, Zenon DEF ExpiredAmong, IdsOf
<1>7. /\ Cardinality(visited) \in Nat /\ Cardinality(leasedItems) \in Nat
      /\ Cardinality(expiredItems) \in Nat
  <2>. HIDE DEF expiredItems, leasedItems
  <2>1. visited \in SUBSET Items /\ expiredItems \in SUBSET Items /\ leasedItems \in SUBSET Items
    BY <1>3, <1>4, <1>6
  <2>2. /\ \A x, y \in expiredItems : x[2] = y[2] => x = y
        /\ \A x, y \in leasedItems : x[2] = y[2] => x = y
    BY <1>5, <1>6
  <2>. QED
    BY <2>1, <2>2, <1>5, FiniteIndex
<1>8. \A t \in expired \cup leased :
         /\ t \in TaskIds /\ d.tasks[t].state = "ENQUEUED" /\ HeadsItsThread(d, t)
         /\ <<d.tasks[t].scheduledAt, t>> \in visited
  BY <1>4, <1>6 DEF CandidateOK
<1>. HIDE DEF expiredItems, leasedItems, expired, leased
<1>pulled. Pull(d, cursor, expired, leased, Cardinality(expiredItems),
            Cardinality(leasedItems), now + keepalive) = e
  <2>. HIDE DEF cursor
  <2>. QED
    BY DEF Pull
<1>9. /\ scan \in QueueState /\ scan.taskIdSequence = d.queueState.taskIdSequence
  <2>1. visited # {} => LastTime(visited) \in Nat
    BY <1>3, <1>4, LastTimeOfScan
  <2>2. visited # {} => Candidates(d, now) # {}
    OBVIOUS
  <2>3. d.queueState.lastVisitedEnqueued \in Nat
    BY <1>3 DEF QueueState
  <2>4. cursor \in Nat
    BY <2>1, <2>2, <2>3
  <2>. HIDE DEF cursor
  <2>. QED
    BY <2>4, <1>3 DEF QueueState
<1>10. ASSUME NEW t \in leased
       PROVE  /\ Lease(t) \in Task /\ Lease(t).state = "IN_PROGRESS" /\ RowOK(Lease(t))
              /\ Lease(t).visibleAt = now + keepalive
              /\ Lease(t).scheduledAt = d.tasks[t].scheduledAt
              /\ Lease(t).threadId = d.tasks[t].threadId
  <2>1. t \in TaskIds /\ d.tasks[t] \in Task /\ d.tasks[t].state = "ENQUEUED" /\ t # 0
    BY <1>3, <1>8, RowFields, ZenonT(30)
  <2>2. /\ d.tasks[t].attempts \in Nat /\ d.tasks[t].attempts <= Len(d.tasks[t].retryIntervals)
    BY <2>1, TaskFields DEF CoreInv, CoreInvBut, RowOK
  <2>3. Len(d.tasks[t].retryIntervals) \in Nat
    <3>1. d.tasks[t].retryIntervals \in RetryStrategies \cup {<< >>}
      BY <2>1, TaskFields
    <3>2. << >> \in Seq(Nat) /\ \A r \in RetryStrategies : r \in Seq(Nat)
      BY TablesAssumption
    <3>. QED
      BY <3>1, <3>2
  <2>4. Lease(t) \in Task
    <3> DEFINE at == now + keepalive
               n == d.tasks[t].attempts + 1
    <3>1. at \in Nat /\ n \in Nat
      BY <2>2
    <3>2. Lease(t) = [d.tasks[t] EXCEPT !.state = "IN_PROGRESS", !.attempts = n, !.visibleAt = at]
      OBVIOUS
    <3>. HIDE DEF at, n, Lease
    <3>. QED
      BY <2>1, <3>1, <3>2, ZenonT(30) DEF Task, TaskStates
  <2>5. /\ Lease(t).state = "IN_PROGRESS" /\ Lease(t).attempts = d.tasks[t].attempts + 1
        /\ Lease(t).visibleAt = now + keepalive
        /\ Lease(t).scheduledAt = d.tasks[t].scheduledAt
        /\ Lease(t).threadId = d.tasks[t].threadId
        /\ Lease(t).retryIntervals = d.tasks[t].retryIntervals
    BY <2>1 DEF Task
  <2>. HIDE DEF Lease
  <2>. QED
    BY <2>2, <2>3, <2>4, <2>5, SMTT(30) DEF RowOK
<1>. HIDE DEF Lease
<1>11. /\ \A t \in expired : rows[t] = NoTask
       /\ \A t \in leased : rows[t] = Lease(t)
       /\ \A t \in TaskIds : t \notin expired \cup leased => rows[t] = d.tasks[t]
  <2>1. \A t \in TaskIds : rows[t] = CASE t \in expired -> NoTask
                                       [] t \in leased -> Lease(t)
                                       [] OTHER -> d.tasks[t]
    BY DEF PulledRows, Lease
  <2>. HIDE DEF rows
  <2>. QED
    BY <2>1, <1>6, <1>8, ZenonT(30)
<1>12. rows \in [TaskIds -> Task]
  <2>1. \A t \in TaskIds : rows[t] \in Task
    <3>. HIDE DEF rows
    <3>. QED
      BY <1>3, <1>10, <1>11, NoTaskFields
  <2>. QED
    BY <2>1, ZenonT(30) DEF PulledRows
<1>13. /\ \A x \in candidates : x \in d.queueIndex /\ x[2] \in TaskIds /\ x[2] \notin expired \cup leased
       /\ candidates \in SUBSET Items
  <2>1. candidates \subseteq d.queueIndex
    OBVIOUS
  <2>2. \A x \in candidates : x[2] \in TaskIds /\ x = <<d.tasks[x[2]].scheduledAt, x[2]>>
    BY <2>1, <1>3, IndexIds DEF CoreInv, CoreInvBut, ThreadInv, CandidateOK
  <2>3. \A x \in candidates : x[2] \notin expired \cup leased
    BY <2>2
  <2>. QED
    BY <2>1, <2>2, <2>3, <1>3
<1>14. /\ leases \in SUBSET Items
       /\ \A x \in leases : \/ x \in d.inProgressIndex
                            \/ x[2] \in leased /\ x[1] = now + keepalive
  <2>1. \A t \in leased : <<now + keepalive, t>> \in Items
    <3>1. now + keepalive \in Nat
      OBVIOUS
    <3>. QED
      BY <3>1, <1>8, TimeItem, ZenonT(30)
  <2>. QED
    BY <2>1, <1>3, SMTT(30)
<1>15. deadlines \in SUBSET Items /\ keys \in [DedupeKeys -> TaskIds \cup {0}]
  BY <1>3, Zenon DEF PulledKeys
<1>16. counters \in [Counters -> Int]
  BY <1>3, <1>7 DEF PulledCounters, Counters, TaskStates
<1>17. e = [d EXCEPT !.queueState = scan, !.queueIndex = candidates,
                     !.expiration = deadlines, !.dedupeKeysIndex = keys, !.tasks = rows,
                     !.inProgressIndex = leases, !.counters = counters]
  OBVIOUS
<1>. HIDE DEF scan, candidates, deadlines, keys, rows, leases, counters, e
<1>18. /\ e \in Db /\ e.tasks = rows /\ e.queueIndex = candidates /\ e.inProgressIndex = leases
       /\ e.threads = d.threads /\ e.threadedTasksIndex = d.threadedTasksIndex
       /\ e.queueState = scan /\ e.err = d.err /\ e.purgeMarked = d.purgeMarked
  BY <1>3, <1>9, <1>12, <1>13, <1>14, <1>15, <1>16, <1>17, ZenonT(30) DEF Db
<1>19. \A t \in TaskIds : HeadsItsThread(d, t) /\ t \notin expired => HeadsItsThread(e, t)
  BY <1>10, <1>11, <1>18, ZenonT(30) DEF HeadsItsThread
<1>20. \A x \in e.queueIndex : x[2] # 0 /\ CandidateOK(e, x)
  <2> SUFFICES ASSUME NEW x \in candidates PROVE x[2] # 0 /\ CandidateOK(e, x)
    BY <1>18, Zenon
  <2>1. x \in d.queueIndex /\ x[2] \in TaskIds /\ x[2] \notin expired \cup leased
    BY <1>13
  <2>2. x[2] # 0 /\ CandidateOK(d, x)
    BY <2>1, Zenon DEF CoreInv, CoreInvBut, ThreadInv
  <2>3. e.tasks[x[2]] = d.tasks[x[2]]
    BY <2>1, <1>11, <1>18
  <2>4. HeadsItsThread(e, x[2])
    BY <2>1, <2>2, <1>19 DEF CandidateOK
  <2>. QED
    BY <2>2, <2>3, <2>4, Zenon DEF CandidateOK
<1>21. \A x \in e.inProgressIndex : x[2] # 0 /\ LeaseOK(e, x)
  <2> SUFFICES ASSUME NEW x \in leases PROVE x[2] # 0 /\ LeaseOK(e, x)
    BY <1>18
  <2>1. CASE x \in d.inProgressIndex
    <3>1. x[2] \in TaskIds /\ x[2] # 0 /\ LeaseOK(d, x)
      BY <2>1, <1>3, IndexIds, RowFields DEF CoreInv, CoreInvBut
    <3>2. x[2] \notin expired \cup leased
      BY <3>1, <1>8, ZenonT(30) DEF LeaseOK
    <3>. QED
      BY <3>1, <3>2, <1>11, <1>18 DEF LeaseOK
  <2>2. CASE x[2] \in leased /\ x[1] = now + keepalive
    <3>1. x[2] \in TaskIds /\ x[2] # 0
      BY <2>2, <1>3, <1>8, RowFields, ZenonT(30)
    <3>2. e.tasks[x[2]].state = "IN_PROGRESS" /\ e.tasks[x[2]].visibleAt = x[1]
      BY <2>2, <1>10, <1>11, <1>18, Zenon
    <3>. QED
      BY <3>1, <3>2 DEF LeaseOK
  <2>. QED
    BY <1>14, <2>1, <2>2
<1>22. \A t \in TaskIds : /\ RowOK(e.tasks[t])
                          /\ e.tasks[t].state = "IN_PROGRESS" => HeadsItsThread(e, t)
  <2> SUFFICES ASSUME NEW t \in TaskIds
               PROVE  /\ RowOK(e.tasks[t])
                      /\ e.tasks[t].state = "IN_PROGRESS" => HeadsItsThread(e, t)
    OBVIOUS
  <2>1. CASE t \in expired
    BY <2>1, <1>11, <1>18, NoTaskFields
  <2>2. CASE t \in leased
    BY <2>2, <1>6, <1>8, <1>10, <1>11, <1>18, <1>19, ZenonT(30)
  <2>3. CASE t \notin expired \cup leased
    BY <2>3, <1>3, <1>11, <1>18, <1>19, RowFields, ZenonT(30) DEF CoreInv, CoreInvBut, ThreadInv
  <2>. QED
    BY <2>1, <2>2, <2>3
<1>23. \A h \in ThreadIds : \A x \in e.threadedTasksIndex[h] : MemberOK(e, h, x)
  <2> SUFFICES ASSUME NEW h \in ThreadIds, NEW x \in d.threadedTasksIndex[h], Exists(e, x[2])
               PROVE  MemberOK(e, h, x)
    BY <1>18 DEF MemberOK
  <2>1. x[2] \in TaskIds /\ x[2] # 0 /\ MemberOK(d, h, x)
    BY <1>3, IndexIds, RowFields DEF CoreInv, CoreInvBut, ThreadInv
  <2>2. x[2] \notin expired
    BY <1>11, <1>18, NoTaskFields, ZenonT(30) DEF Exists
  <2>3. CASE x[2] \in leased
    BY <2>1, <2>3, <1>8, <1>10, <1>11, <1>18, ZenonT(30) DEF MemberOK, Exists, IsLive
  <2>4. CASE x[2] \notin leased
    BY <2>1, <2>2, <2>4, <1>11, <1>18, ZenonT(30) DEF MemberOK, Exists, IsLive
  <2>. QED
    BY <2>3, <2>4
<1>24. CoreInv(e)
  <2>1. ThreadInv(e, 0)
    BY <1>18, <1>20, <1>22, <1>23, Zenon DEF CoreInv, CoreInvBut, ThreadInv
  <2>. QED
    BY <2>1, <1>18, <1>21, <1>22 DEF CoreInv, CoreInvBut
<1>25. SeqOK(d) => SeqOK(e)
  <2>1. \A t \in TaskIds : Exists(e, t) => Exists(d, t)
    BY <1>8, <1>11, <1>18, ZenonT(30) DEF Exists
  <2>. QED
    BY <2>1, <1>9, <1>18, ZenonT(30) DEF SeqOK
<1>26. Good(d, e)
  BY <1>18, <1>24, <1>25 DEF Good
<1>. QED
  BY <1>1, <1>2, <1>26, <1>pulled

\* The refilled bucket is a bucket; a setting whose refill interval rounds
\* down to zero is excluded by CoreAssumption.
LEMMA RefillType ==
  ASSUME NEW b \in Bucket, NEW s \in DequeuingSettings, rateLimitingEnabled(s), NEW now \in Nat
  PROVE  Refill(GetOrDefault(b, s, now), s, now) \in Bucket
<1> DEFINE g == GetOrDefault(b, s, now)
           r == getRefillInterval(s)
           n == (now - g.lastRefilledAt) \div r
<1>1. s.interval \in Nat /\ s.maxTokens \in Nat \ {0} /\ r > 0
  BY CoreAssumption DEF rateLimitingEnabled
<1>2. r \in Nat \ {0}
  BY <1>1 DEF getRefillInterval
<1>3. g \in Bucket
  BY <1>1 DEF GetOrDefault, Bucket
<1>4. g.lastRefilledAt \in Int /\ g.tokens \in Int
  BY <1>3 DEF Bucket
<1>. HIDE DEF g, r
<1>5. n \in Int
  BY <1>2, <1>4
<1>6. n * r \in Int
  <2>. HIDE DEF n
  <2>. QED
    BY <1>2, <1>5
<1>7. Refill(g, s, now) =
         CASE g.tokens >= s.maxTokens -> [g EXCEPT !.lastRefilledAt = now]
           [] g.tokens < s.maxTokens /\ n <= 0 -> g
           [] g.tokens < s.maxTokens /\ n > 0 /\ g.tokens + n > s.maxTokens ->
                [g EXCEPT !.tokens = s.maxTokens, !.lastRefilledAt = now]
           [] OTHER -> [g EXCEPT !.tokens = @ + n, !.lastRefilledAt = @ + n * r]
  BY DEF Refill, r
<1> DEFINE m == n * r
<1>8. m \in Int /\ Refill(g, s, now) =
         CASE g.tokens >= s.maxTokens -> [g EXCEPT !.lastRefilledAt = now]
           [] g.tokens < s.maxTokens /\ n <= 0 -> g
           [] g.tokens < s.maxTokens /\ n > 0 /\ g.tokens + n > s.maxTokens ->
                [g EXCEPT !.tokens = s.maxTokens, !.lastRefilledAt = now]
           [] OTHER -> [g EXCEPT !.tokens = @ + n, !.lastRefilledAt = @ + m]
  BY <1>6, <1>7
<1>. HIDE DEF n, m
<1>9. Refill(g, s, now) \in Bucket
  <2>1. /\ [g EXCEPT !.lastRefilledAt = now] \in Bucket
        /\ [g EXCEPT !.tokens = s.maxTokens, !.lastRefilledAt = now] \in Bucket
        /\ [g EXCEPT !.tokens = @ + n, !.lastRefilledAt = @ + m] \in Bucket
    <3>1. /\ g.tokens + n \in Int /\ g.lastRefilledAt + m \in Int
          /\ now \in Int /\ s.maxTokens \in Int
      BY <1>1, <1>4, <1>5, <1>8
    <3>2. \A i, j \in Int : [g EXCEPT !.tokens = i, !.lastRefilledAt = j] \in Bucket
      BY <1>3, ZenonT(30) DEF Bucket
    <3>3. \A j \in Int : [g EXCEPT !.lastRefilledAt = j] \in Bucket
      BY <1>3 DEF Bucket
    <3>. QED
      BY <3>1, <3>2, <3>3, ZenonT(30)
  <2>2. /\ g.tokens >= s.maxTokens => ~(g.tokens < s.maxTokens)
        /\ n <= 0 => ~(n > 0)
    BY <1>1, <1>4, <1>5
  <2>. QED
    BY <2>1, <2>2, <1>3, <1>8, Zenon, ZenonT(30)
<1>. QED
  BY <1>9 DEF g

\* The whole of Dequeue.
LEMMA DequeueInv ==
  ASSUME NEW d, CoreInv(d), NEW now \in Nat, NEW limit \in Limits, NEW keepalive \in Keepalives,
         NEW settings \in DequeuingSettings, NEW dlq \in DeadLetterQueueConfigs
  PROVE  Good(d, DequeueTables(d, now, limit, keepalive, settings, dlq))
<1> DEFINE limited == rateLimitingEnabled(settings)
           bucket == Refill(GetOrDefault(d.rateLimiter, settings, now), settings, now)
           yield == IF limited /\ bucket.tokens < limit THEN bucket.tokens ELSE limit
           reaped == dequeueInProgressTasksBeforeTime(d, now, dlq)
           visited == Visited(reaped, now, yield, settings.maxInProgressTasks)
           leased == Cardinality(visited \ ExpiredAmong(reaped, visited, now))
           pulled == dequeueTasksBeforeTime(reaped, now, visited, keepalive)
           after == [bucket EXCEPT !.tokens = @ - leased]
           e == DequeueTables(d, now, limit, keepalive, settings, dlq)
<1>1. e = IF reaped.err THEN reaped
          ELSE IF limited THEN [pulled EXCEPT !.rateLimiter = after] ELSE pulled
  BY DEF DequeueTables
<1>2. /\ dlq \in [enable : BOOLEAN, retention : Nat, maxSize : Nat] /\ keepalive \in Nat
      /\ d \in Db /\ d.rateLimiter \in Bucket
  BY CoreAssumption DEF CoreInv, CoreInvBut, Db
<1>3. limited => bucket \in Bucket
  BY <1>2, RefillType
<1>4. visited \in SUBSET Candidates(reaped, now)
  BY ZenonT(30) DEF Visited
<1>5. reaped = dequeueInProgressTasksBeforeTime(d, now, dlq)
  OBVIOUS
<1>6. pulled = dequeueTasksBeforeTime(reaped, now, visited, keepalive)
  OBVIOUS
<1>. SUFFICES Good(d, e)
  OBVIOUS
<1>. HIDE DEF limited, bucket, yield, reaped, visited, pulled, e
<1>7. Good(d, reaped)
  BY <1>2, <1>5, ReapInv
<1>8. CASE reaped.err
  BY <1>1, <1>7, <1>8
<1>9. CASE ~reaped.err
  <2>1. CoreInv(reaped)
    BY <1>7, <1>9 DEF Good
  <2>2. Good(d, pulled)
    <3>1. Good(reaped, pulled)
      BY <2>1, <1>2, <1>4, <1>6, PullInv
    <3>. QED
      BY <3>1, <1>7, GoodTrans
  <2>3. leased \in Nat
    <3> DEFINE S == visited \ ExpiredAmong(reaped, visited, now)
    <3>1. reaped \in Db /\ reaped.queueIndex \in SUBSET Items
      BY <2>1 DEF CoreInv, CoreInvBut, Db
    <3>2. S \in SUBSET reaped.queueIndex
      BY <1>4 DEF Candidates, InRange
    <3>. HIDE DEF S
    <3>3. \A x, y \in S : x[2] = y[2] => x = y
      BY <2>1, <3>1, <3>2, IndexIds, ItemsOfTask
    <3>4. Cardinality(S) \in Nat
      BY <3>1, <3>2, <3>3, FiniteIndex
    <3>. QED
      BY <3>4 DEF S
  <2>. HIDE DEF leased
  <2>4. limited => after \in Bucket
    BY <1>3, <2>3 DEF Bucket
  <2>. HIDE DEF after
  <2>5. CASE ~limited
    BY <1>1, <1>9, <2>2, <2>5
  <2>6. CASE limited
    <3>1. e = [pulled EXCEPT !.rateLimiter = after] /\ after \in Bucket /\ pulled \in Db
      BY <1>1, <1>9, <2>2, <2>4, <2>6 DEF Good
    <3>2. SameCore(pulled, e)
      BY <3>1 DEF SameCore, SameThreads, Db
    <3>3. ~e.err => CoreInv(e)
      BY <3>2, <2>2, SameCoreInv DEF Good, CoreInv, SameCore
    <3>. QED
      BY <3>2, <3>3, <2>2, Zenon DEF Good, SameCore, SameThreads, SeqOK, Exists
  <2>. QED
    BY <2>5, <2>6
<1>. QED
  BY <1>8, <1>9

\* Enqueue of a task that is no duplicate: the id after the sequence is new to
\* every table, threadedTasksIndex included.
LEMMA EnqueueInv ==
  ASSUME NEW d, CoreInv(d), SeqOK(d), NEW t \in TaskIds, t = d.queueState.taskIdSequence + 1,
         NEW task \in Task, task.state = "ENQUEUED", RowOK(task)
  PROVE  Good(d, createTask([d EXCEPT !.queueState.taskIdSequence = t], t, task))
<1> DEFINE c == [d EXCEPT !.queueState.taskIdSequence = t]
           e == createTask(c, t, task)
<1>1. d \in Db /\ d.queueState \in QueueState /\ d.queueState.taskIdSequence \in Nat
  BY DEF CoreInv, CoreInvBut, Db, QueueState, TaskIds
<1>2. t \in Nat /\ t > d.queueState.taskIdSequence
  BY <1>1 DEF TaskIds
<1>3. /\ c \in Db /\ SameThreads(d, c) /\ c.inProgressIndex = d.inProgressIndex
      /\ c.err = d.err /\ c.purgeMarked = d.purgeMarked
      /\ c.queueState.taskIdSequence = t
  <2> DEFINE q == [d.queueState EXCEPT !.taskIdSequence = t]
  <2>1. q \in QueueState /\ q.taskIdSequence = t
    BY <1>1 DEF QueueState
  <2>2. c = [d EXCEPT !.queueState = q]
    OBVIOUS
  <2>. HIDE DEF q, c
  <2>. QED
    BY <1>1, <2>1, <2>2 DEF Db, SameThreads
<1>. SUFFICES Good(d, e)
  OBVIOUS
<1>. HIDE DEF c
<1>4. CoreInv(c)
  <2>1. ThreadInv(c, 0)
    BY <1>3, SameThreadsInv, Zenon DEF CoreInv, CoreInvBut
  <2>. QED
    BY <2>1, <1>3, SMTT(30) DEF CoreInv, CoreInvBut, SameThreads, LeaseOK
<1>5. SeqOK(c)
  <2>1. \A u \in TaskIds : Exists(c, u) => u <= c.queueState.taskIdSequence
    BY <1>1, <1>2, <1>3 DEF SeqOK, SameThreads, Exists, TaskIds
  <2>2. ASSUME NEW h \in ThreadIds, NEW x \in c.threadedTasksIndex[h]
        PROVE  x[2] <= c.queueState.taskIdSequence
    <3>1. x[2] \in TaskIds /\ x[2] <= d.queueState.taskIdSequence
      BY <1>3, IndexIds DEF SeqOK, SameThreads
    <3>. QED
      BY <3>1, <1>1, <1>2, <1>3, SMTT(30) DEF TaskIds
  <2>. QED
    BY <2>1, <2>2, Zenon DEF SeqOK
<1>a. ~(t <= d.queueState.taskIdSequence)
  BY <1>1, <1>2
<1>6. d.tasks[t].state = "ABSENT"
  BY <1>1, <1>a, Zenon DEF SeqOK, Exists
<1>7. \A h \in ThreadIds : \A x \in c.threadedTasksIndex[h] : x[2] # t
  BY <1>3, <1>a, Zenon DEF SeqOK, SameThreads
<1>8. CoreInvBut(c, t)
  <2>1. \A x \in c.queueIndex \cup c.inProgressIndex : x[2] # t
    BY <1>3, <1>4, <1>6, ItemsOfTask, Zenon DEF SameThreads
  <2>2. TakenOut(c, c, t)
    BY <2>1, <1>3, Zenon DEF TakenOut
  <2>. QED
    BY <2>2, <1>4, TakeOut
<1>9. /\ e \in Db /\ (c.err => e.err) /\ e.purgeMarked = c.purgeMarked /\ CoreInv(e)
      /\ SeqOK(c) /\ t <= c.queueState.taskIdSequence => SeqOK(e)
  BY <1>7, <1>8, CreateTaskInv, Zenon
<1>. HIDE DEF e
<1>. QED
  BY <1>2, <1>3, <1>5, <1>9 DEF Good

\* RestartTasks: a DEAD task is in no index but its own two, and enters its
\* thread as a new member.
LEMMA RestartInv ==
  ASSUME NEW d, CoreInv(d), NEW t \in TaskIds, d.tasks[t].state = "DEAD",
         NEW now, NEW scheduledAt \in Nat, NEW expiresAt \in Nat
  PROVE  Good(d, restartTask(d, t, now, scheduledAt, expiresAt))
<1> DEFINE task == d.tasks[t]
           undead == [d EXCEPT !.deadTasksIndex = @ \ {<<task.lastFailedAt, t>>},
                               !.expiration = @ \ {<<task.expiresAt, t>>},
                               !.counters["DEAD"] = @ - 1]
           row == [task EXCEPT !.state = "ENQUEUED", !.attempts = 0,
                               !.scheduledAt = scheduledAt, !.expiresAt = expiresAt,
                               !.visibleAt = 0, !.lastFailedAt = 0]
           e == createTask(undead, t, row)
<1>1. restartTask(d, t, now, scheduledAt, expiresAt) = e
  BY DEF restartTask
<1>2. d \in Db /\ task \in Task
  BY RowFields DEF CoreInv, CoreInvBut
<1>3. row \in Task /\ row.state = "ENQUEUED" /\ row.attempts = 0
      /\ row.retryIntervals = task.retryIntervals
  <2>. HIDE DEF task
  <2>. QED
    BY <1>2, ZenonT(30) DEF Task, TaskStates
<1>4. RowOK(row)
  <2>1. task.retryIntervals \in RetryStrategies \cup {<< >>}
    BY <1>2, TaskFields
  <2>2. << >> \in Seq(Nat) /\ \A r \in RetryStrategies : r \in Seq(Nat)
    BY TablesAssumption
  <2>3. Len(task.retryIntervals) \in Nat
    BY <2>1, <2>2
  <2>. HIDE DEF row, task
  <2>. QED
    BY <2>3, <1>3 DEF RowOK
<1>5. /\ \A x \in d.queueIndex \cup d.inProgressIndex : x[2] # t
      /\ \A h \in ThreadIds : \A x \in d.threadedTasksIndex[h] : x[2] # t
  BY ItemsOfTask DEF Exists, IsLive
<1>6. /\ undead \in Db /\ SameThreads(d, undead) /\ undead.queueState = d.queueState
      /\ undead.inProgressIndex = d.inProgressIndex
      /\ undead.err = d.err /\ undead.purgeMarked = d.purgeMarked
  <2> DEFINE n == [d.counters EXCEPT !["DEAD"] = @ - 1]
             x == d.expiration \ {<<task.expiresAt, t>>}
             y == d.deadTasksIndex \ {<<task.lastFailedAt, t>>}
  <2>1. /\ d.counters \in [Counters -> Int] /\ x \in SUBSET Items /\ y \in SUBSET Items
    BY <1>2, Zenon DEF Db
  <2>2. n \in [Counters -> Int]
    BY <2>1, SMTT(30) DEF Counters, TaskStates
  <2>3. undead = [d EXCEPT !.deadTasksIndex = y, !.expiration = x, !.counters = n]
    BY <1>2 DEF Db
  <2>. HIDE DEF n, x, y, undead
  <2>. QED
    BY <1>2, <2>1, <2>2, <2>3, ZenonT(30) DEF Db, SameThreads
<1>. HIDE DEF undead, row, e
<1>7. CoreInvBut(undead, t)
  <2>1. TakenOut(d, undead, t)
    BY <1>5, <1>6 DEF TakenOut, SameThreads
  <2>. QED
    BY <2>1, TakeOut
<1>8. /\ e \in Db /\ (undead.err => e.err) /\ e.purgeMarked = undead.purgeMarked /\ CoreInv(e)
      /\ SeqOK(undead) /\ t <= undead.queueState.taskIdSequence => SeqOK(e)
  <2>1. \A h \in ThreadIds : \A x \in undead.threadedTasksIndex[h] : x[2] # t
    BY <1>5, <1>6 DEF SameThreads
  <2>. QED
    BY <2>1, <1>3, <1>4, <1>7, CreateTaskInv, ZenonT(30) DEF e
<1>9. SeqOK(d) => SeqOK(undead) /\ t <= undead.queueState.taskIdSequence
  BY <1>6 DEF SeqOK, SameThreads, Exists
<1>10. Good(d, e)
  BY <1>6, <1>8, <1>9 DEF Good
<1>. QED
  BY <1>1, <1>10

\* One turn of the purge: the tasks within the budget go and, if that was all
\* of them, the counters, the cursors, the bucket and the marker with them.
LEMMA PurgeInv ==
  ASSUME NEW d, CoreInv(d), NEW budget \in Nat
  PROVE  LET remaining == {<<0, t>> : t \in {u \in TaskIds : Exists(d, u)}}
             swept == DeleteEach(d, remaining, budget, "NONE")
             drained == Drained(swept)
         IN  /\ swept \in Db /\ CoreInv(swept) /\ swept.purgeMarked = d.purgeMarked
             /\ drained \in Db /\ CoreInv(drained) /\ ~drained.purgeMarked
<1> DEFINE remaining == {<<0, t>> : t \in {u \in TaskIds : Exists(d, u)}}
           swept == DeleteEach(d, remaining, budget, "NONE")
           drained == Drained(swept)
<1>1. remaining \in SUBSET Items
  BY DEF Items
<1>2. Deletes(d, swept)
  <2>. HIDE DEF remaining
  <2>. QED
    BY <1>1, DeleteEachInv
<1>. HIDE DEF remaining, swept
<1>3. CoreInv(swept) /\ swept \in Db /\ swept.purgeMarked = d.purgeMarked
  BY <1>2 DEF Deletes, CoreInv, CoreInvBut
<1>4. /\ EmptyDb.counters \in [Counters -> Int] /\ EmptyDb.queueState \in QueueState
      /\ EmptyDb.rateLimiter \in Bucket
  BY SMTT(30) DEF EmptyDb, QueueState, NoQueueState, Bucket, NoBucket
<1>5. /\ drained \in Db /\ SameThreads(swept, drained) /\ ~drained.purgeMarked
      /\ drained.inProgressIndex = swept.inProgressIndex
  BY <1>3, <1>4, ZenonT(30) DEF Db, SameThreads, Drained
<1>. HIDE DEF drained
<1>6. CoreInv(drained)
  <2>1. ThreadInv(drained, 0)
    BY <1>3, <1>5, SameThreadsInv, Zenon DEF CoreInv, CoreInvBut
  <2>. QED
    BY <2>1, <1>3, <1>5, Zenon DEF CoreInv, CoreInvBut, SameThreads, LeaseOK
<1>. QED
  BY <1>3, <1>5, <1>6, Zenon DEF drained, swept, remaining

-------------------------------------------------------------------------------
(* The invariant of the specification.  It needs two conditions on how the *)
(* core is called, and TLC shows a counterexample without each of them: no *)
(* gateway enqueues under a drained queue id (its thread rows survive the  *)
(* purge while the task ids restart from 1), and a duplicate never moves   *)
(* the ScheduledAt of a threaded task (run head_rescheduled).              *)

Disciplined ==
    /\ ~LateCallers
    /\ ThreadIds = {} \/ \A fields \in Overwrites : "SCHEDULED_AT" \notin fields

IInv ==
    /\ TypeOK
    /\ CoreInv(db)
    /\ db.purgeMarked => retired
    /\ ~retired => SeqOK(db)

\* The empty tables of a new queue id satisfy the invariant.
LEMMA InitInv ==
  Init => IInv
<1> SUFFICES ASSUME Init PROVE IInv
  OBVIOUS
<1>1. /\ EmptyDb.counters \in [Counters -> Int] /\ EmptyDb.queueState \in QueueState
      /\ EmptyDb.rateLimiter \in Bucket
  BY SMTT(30) DEF EmptyDb, QueueState, NoQueueState, Bucket, NoBucket
<1>2. NoThread \in Thread /\ NoThread.head = 0
  BY DEF NoThread, Thread
<1>3. EmptyDb \in Db
  BY <1>1, <1>2, NoTaskFields, ZenonT(30) DEF EmptyDb, Db
<1>4. /\ ~EmptyDb.err /\ ~EmptyDb.purgeMarked
      /\ \A t \in TaskIds : EmptyDb.tasks[t] = NoTask
      /\ EmptyDb.queueIndex = {} /\ EmptyDb.inProgressIndex = {}
      /\ \A h \in ThreadIds : EmptyDb.threads[h] = NoThread /\ EmptyDb.threadedTasksIndex[h] = {}
  BY Zenon DEF EmptyDb
<1>5. CoreInv(EmptyDb) /\ SeqOK(EmptyDb)
  BY <1>2, <1>3, <1>4, NoTaskFields, Zenon DEF CoreInv, CoreInvBut, ThreadInv, SeqOK, Exists
<1>6. db = EmptyDb /\ retired = FALSE /\ failed = FALSE /\ clock = 1
  BY DEF Init
<1>7. clock \in 1 .. (MaxTime + 1)
  <2>1. MaxTime \in Nat
    BY CoreAssumption
  <2>. QED
    BY <2>1, <1>6
<1>8. TypeOK
  BY <1>3, <1>4, <1>6, <1>7, ZenonT(30) DEF TypeOK
<1>. QED
  BY <1>4, <1>5, <1>6, <1>8 DEF IInv

\* Committing a good transaction, or discarding a failed one.
LEMMA CommitInv ==
  ASSUME IInv, NEW e, Good(db, e), Commit(e), UNCHANGED <<clock, retired>>
  PROVE  IInv'
<1>1. CASE e.err
  BY <1>1, Zenon DEF Commit, IInv, TypeOK, Good, Db
<1>2. CASE ~e.err
  BY <1>2 DEF Commit, IInv, TypeOK, Good, Db
<1>. QED
  BY <1>1, <1>2

\* Enqueue, of a duplicate or of a new task.
LEMMA EnqueueStep ==
  ASSUME Disciplined, IInv, NEW now \in Nat, Enqueue(now)
  PROVE  IInv'
<1>1. PICK delay \in Delays, expiresIn \in ExpiresIn, retry \in RetryStrategies,
           key \in DedupeKeys \cup {None}, thread \in ThreadIds \cup {None},
           fields \in Overwrites :
        LET scheduledAt == now + delay
            id == db.queueState.taskIdSequence + 1
            task == [NoTask EXCEPT !.state = "ENQUEUED", !.scheduledAt = scheduledAt,
                                   !.expiresAt = now + expiresIn, !.dedupeKey = key,
                                   !.threadId = thread, !.retryIntervals = retry]
        IN  IF key # None /\ db.dedupeKeysIndex[key] # 0
            THEN Commit(overwriteDuplicate(db, db.dedupeKeysIndex[key], fields,
                                           scheduledAt, now + expiresIn))
            ELSE /\ id \in TaskIds
                 /\ Commit(createTask([db EXCEPT !.queueState.taskIdSequence = id], id, task))
  BY ZenonT(30) DEF Enqueue
<1> DEFINE scheduledAt == now + delay
           expiresAt == now + expiresIn
           id == db.queueState.taskIdSequence + 1
           task == [NoTask EXCEPT !.state = "ENQUEUED", !.scheduledAt = scheduledAt,
                                  !.expiresAt = expiresAt, !.dedupeKey = key,
                                  !.threadId = thread, !.retryIntervals = retry]
<1>2. /\ scheduledAt \in Nat /\ expiresAt \in Nat /\ UNCHANGED <<clock, retired>>
  BY CoreAssumption DEF Enqueue
<1>3. CoreInv(db) /\ db \in Db /\ SeqOK(db)
  BY DEF Enqueue, Admitted, Disciplined, IInv, TypeOK
<1>4. CASE key # None /\ db.dedupeKeysIndex[key] # 0
  <2> DEFINE t == db.dedupeKeysIndex[key]
             e == overwriteDuplicate(db, t, fields, scheduledAt, expiresAt)
  <2>1. t \in TaskIds
    BY <1>3, <1>4 DEF Db
  <2>2. Commit(e)
    BY <1>1, <1>4
  <2>3. ThreadIds = {} \/ "SCHEDULED_AT" \notin fields
    BY DEF Disciplined
  <2>. HIDE DEF t, scheduledAt, expiresAt
  <2>4. Good(db, e)
    BY <1>2, <1>3, <2>1, <2>3, OverwriteDuplicateInv
  <2>. HIDE DEF e
  <2>. QED
    BY <1>2, <2>2, <2>4, CommitInv
<1>5. CASE ~(key # None /\ db.dedupeKeysIndex[key] # 0)
  <2> DEFINE e == createTask([db EXCEPT !.queueState.taskIdSequence = id], id, task)
  <2>1. id \in TaskIds /\ Commit(e)
    BY <1>1, <1>5
  <2>2. task \in Task /\ task.state = "ENQUEUED" /\ RowOK(task)
    <3>1. NoTask \in Task /\ NoTask.attempts = 0
      BY NoTaskFields DEF NoTask
    <3>2. Len(retry) \in Nat
      <4>1. retry \in Seq(Nat)
        BY TablesAssumption
      <4>. QED
        BY <4>1
    <3>. HIDE DEF scheduledAt, expiresAt
    <3>3. /\ task \in Task /\ task.state = "ENQUEUED" /\ task.attempts = 0
          /\ task.retryIntervals = retry
      BY <1>2, <3>1, ZenonT(30) DEF Task, TaskStates
    <3>. HIDE DEF task
    <3>. QED
      BY <3>2, <3>3 DEF RowOK
  <2>3. id = db.queueState.taskIdSequence + 1
    OBVIOUS
  <2>. HIDE DEF task, id
  <2>4. Good(db, e)
    BY <1>3, <2>1, <2>2, <2>3, EnqueueInv
  <2>. HIDE DEF e
  <2>. QED
    BY <1>2, <2>1, <2>4, CommitInv
<1>. QED
  BY <1>4, <1>5

\* Dequeue.
LEMMA DequeueStep ==
  ASSUME IInv, NEW now \in Nat, Dequeue(now)
  PROVE  IInv'
<1>1. PICK limit \in Limits, keepalive \in Keepalives,
           settings \in DequeuingSettings, dlq \in DeadLetterQueueConfigs :
        Commit(DequeueTables(db, now, limit, keepalive, settings, dlq))
  BY DEF Dequeue
<1>2. CoreInv(db) /\ UNCHANGED <<clock, retired>>
  BY DEF Dequeue, IInv
<1>3. Good(db, DequeueTables(db, now, limit, keepalive, settings, dlq))
  BY <1>2, DequeueInv
<1>. QED
  BY <1>1, <1>2, <1>3, CommitInv

\* A report that passes the fence.
LEMMA ReportStep ==
  ASSUME IInv, NEW now \in Nat, NEW t \in TaskIds, ReportStatus(now, t)
  PROVE  IInv'
<1> DEFINE n == db.tasks[t].attempts
<1>1. CoreInv(db)
  BY DEF IInv
<1>2. CASE ReportInProgress(now, t, n)
  <2>1. PICK keepalive \in Keepalives : Commit(heartbeatTask(db, t, now, keepalive))
    BY <1>2 DEF ReportInProgress
  <2>2. /\ db.tasks[t].state = "IN_PROGRESS" /\ keepalive \in Nat
        /\ UNCHANGED <<clock, retired>>
    BY <1>2, CoreAssumption DEF ReportInProgress, Fenced
  <2>3. Good(db, heartbeatTask(db, t, now, keepalive))
    BY <1>1, <2>2, HeartbeatInv
  <2>. QED
    BY <2>1, <2>2, <2>3, CommitInv
<1>3. CASE ReportFailed(now, t, n)
  <2>1. PICK dlq \in DeadLetterQueueConfigs : Commit(handleTaskFailure(db, t, now, dlq))
    BY <1>3 DEF ReportFailed
  <2>2. /\ db.tasks[t].state = "IN_PROGRESS"
        /\ dlq \in [enable : BOOLEAN, retention : Nat, maxSize : Nat]
        /\ UNCHANGED <<clock, retired>>
    BY <1>3, CoreAssumption, Zenon DEF ReportFailed, Fenced
  <2>3. Good(db, handleTaskFailure(db, t, now, dlq))
    BY <1>1, <2>2, FailureInv, Zenon
  <2>. QED
    BY <2>1, <2>2, <2>3, CommitInv
<1>4. CASE ReportSucceeded(t, n)
  <2>1. /\ Exists(db, t) /\ Commit(deleteTask(db, t, "PROCESSED"))
        /\ UNCHANGED <<clock, retired>>
    BY <1>4 DEF ReportSucceeded, Fenced, Exists
  <2>2. Good(db, deleteTask(db, t, "PROCESSED"))
    BY <1>1, <2>1, DeleteTaskInv, DeletesGood
  <2>. QED
    BY <2>1, <2>2, CommitInv
<1>. QED
  BY <1>2, <1>3, <1>4 DEF ReportStatus

\* DeleteTasks and RestartTasks.
LEMMA ManageStep ==
  ASSUME IInv, NEW t \in TaskIds,
         DeleteTasks(t) \/ \E now \in Nat : RestartTasks(now, t)
  PROVE  IInv'
<1>1. CoreInv(db)
  BY DEF IInv
<1>2. CASE DeleteTasks(t)
  <2>1. Exists(db, t) /\ Commit(deleteTask(db, t, "NONE")) /\ UNCHANGED <<clock, retired>>
    BY <1>2 DEF DeleteTasks
  <2>2. Good(db, deleteTask(db, t, "NONE"))
    BY <1>1, <2>1, DeleteTaskInv, DeletesGood
  <2>. QED
    BY <2>1, <2>2, CommitInv
<1>3. ASSUME NEW now \in Nat, RestartTasks(now, t) PROVE IInv'
  <2>1. PICK delay \in Delays, expiresIn \in ExpiresIn :
          Commit(restartTask(db, t, now, now + delay, now + expiresIn))
    BY <1>3, Zenon DEF RestartTasks
  <2>2. db.tasks[t].state = "DEAD" /\ UNCHANGED <<clock, retired>>
    BY <1>3, Zenon DEF RestartTasks
  <2>3. now + delay \in Nat /\ now + expiresIn \in Nat
    BY CoreAssumption
  <2>4. Good(db, restartTask(db, t, now, now + delay, now + expiresIn))
    BY <1>1, <2>2, <2>3, RestartInv, Zenon
  <2>. QED
    BY <2>1, <2>2, <2>4, CommitInv
<1>. QED
  BY <1>2, <1>3

\* The expiration sweep and the drain of a purged queue id.
LEMMA CollectStep ==
  ASSUME IInv, NEW now \in Nat, NEW budget \in GCBudgets, GarbageCollection(now, budget)
  PROVE  IInv'
<1>1. CoreInv(db) /\ db \in Db /\ budget \in Nat
  BY CoreAssumption DEF IInv, TypeOK
<1>2. CASE RunTasksGarbageCollection(now, budget)
  <2> DEFINE S == InRange(db.expiration, 0, now)
             e == DeleteEach(db, S, budget, "EXPIRED")
  <2>1. Commit(e) /\ UNCHANGED <<clock, retired>> /\ S \in SUBSET Items
    BY <1>1, <1>2 DEF RunTasksGarbageCollection, InRange, Db
  <2>. HIDE DEF S
  <2>2. Good(db, e)
    BY <1>1, <2>1, DeleteEachInv, DeletesGood
  <2>. HIDE DEF e
  <2>. QED
    BY <2>1, <2>2, CommitInv
<1>3. CASE RunPurgeQueueGarbageCollection(budget)
  <2> DEFINE remaining == {<<0, t>> : t \in {u \in TaskIds : Exists(db, u)}}
             swept == DeleteEach(db, remaining, budget, "NONE")
             drained == Drained(swept)
             e == IF BudgetSpent(remaining, budget) THEN swept ELSE drained
  <2>1. /\ db.purgeMarked /\ Commit(e) /\ UNCHANGED <<clock, retired>>
    BY <1>3, Zenon DEF RunPurgeQueueGarbageCollection
  <2>2. /\ swept \in Db /\ CoreInv(swept) /\ swept.purgeMarked = db.purgeMarked
        /\ drained \in Db /\ CoreInv(drained) /\ ~drained.purgeMarked
    BY <1>1, PurgeInv, ZenonT(30)
  <2>. HIDE DEF swept, drained
  <2>3. e \in Db /\ CoreInv(e) /\ e.err \in BOOLEAN
    BY <2>2, Zenon DEF Db
  <2>. HIDE DEF e
  <2>4. retired /\ retired' /\ clock' = clock
    BY <2>1 DEF IInv
  <2>5. db' \in Db /\ ~db'.err /\ CoreInv(db') /\ failed' \in BOOLEAN
    <3>1. CASE e.err
      BY <1>1, <2>1, <3>1 DEF Commit, IInv, TypeOK
    <3>2. CASE ~e.err
      BY <2>1, <2>3, <3>2 DEF Commit, IInv, TypeOK
    <3>. QED
      BY <3>1, <3>2
  <2>. QED
    BY <2>4, <2>5 DEF IInv, TypeOK
<1>. QED
  BY <1>2, <1>3 DEF GarbageCollection

\* Every step of the specification keeps the invariant.
LEMMA NextInv ==
  ASSUME Disciplined, IInv, [Next]_vars
  PROVE  IInv'
<1>1. Nows \in SUBSET Nat
  <2>1. clock \in 1 .. (MaxTime + 1) /\ MaxTime \in Nat
    BY CoreAssumption DEF IInv, TypeOK
  <2>. QED
    BY <2>1 DEF Nows
<1>2. ASSUME NEW now \in Nows, Enqueue(now) PROVE IInv'
  BY <1>1, <1>2, EnqueueStep
<1>3. ASSUME NEW now \in Nows, Dequeue(now) PROVE IInv'
  BY <1>1, <1>3, DequeueStep
<1>4. ASSUME NEW now \in Nows, NEW t \in TaskIds, ReportStatus(now, t) PROVE IInv'
  BY <1>1, <1>4, ReportStep
<1>5. ASSUME NEW now \in Nows, NEW t \in TaskIds, RestartTasks(now, t) PROVE IInv'
  BY <1>1, <1>5, ManageStep
<1>6. ASSUME NEW t \in TaskIds, DeleteTasks(t) PROVE IInv'
  BY <1>6, ManageStep
<1>7. ASSUME NEW now \in Nows, NEW budget \in GCBudgets, GarbageCollection(now, budget)
      PROVE  IInv'
  BY <1>1, <1>7, CollectStep
<1>8. CASE PurgeQueue
  <2> DEFINE e == [db EXCEPT !.purgeMarked = TRUE]
  <2>1. db' = e /\ retired' = TRUE /\ clock' = clock /\ failed' = failed
    BY <1>8 DEF PurgeQueue
  <2>2. /\ e \in Db /\ SameThreads(db, e) /\ e.inProgressIndex = db.inProgressIndex
        /\ e.err = db.err
    BY ZenonT(30) DEF IInv, TypeOK, Db, SameThreads
  <2>. HIDE DEF e
  <2>3. ThreadInv(e, 0)
    BY <2>2, SameThreadsInv, Zenon DEF IInv, CoreInv, CoreInvBut
  <2>4. CoreInv(e)
    BY <2>2, <2>3, Zenon DEF IInv, CoreInv, CoreInvBut, SameThreads, LeaseOK
  <2>. QED
    BY <2>1, <2>2, <2>4 DEF IInv, TypeOK
<1>9. CASE Tick
  <2>1. clock' \in 1 .. (MaxTime + 1)
    <3>1. clock \in 1 .. (MaxTime + 1) /\ MaxTime \in Nat
      BY CoreAssumption DEF IInv, TypeOK
    <3>. QED
      BY <3>1, <1>9 DEF Tick
  <2>. QED
    BY <2>1, <1>9 DEF Tick, IInv, TypeOK
<1>10. CASE UNCHANGED vars
  BY <1>10 DEF vars, IInv, TypeOK
<1>. QED
  BY <1>2, <1>3, <1>4, <1>5, <1>6, <1>7, <1>8, <1>9, <1>10 DEF Next

\* IInv is an invariant of the specification.
THEOREM Invariance ==
  ASSUME Disciplined
  PROVE  Spec => []IInv
<1>1. Init => IInv
  BY InitInv
<1>2. IInv /\ [Next]_vars => IInv'
  BY NextInv
<1>. QED
  BY <1>1, <1>2, PTL DEF Spec

\* Every committed transaction leaves well-typed tables and no error, whatever
\* the number of tasks, keys and threads and the settings of the calls.
THEOREM TypeCorrect ==
  ASSUME Disciplined
  PROVE  Spec => []TypeOK
<1>1. IInv => TypeOK
  BY DEF IInv
<1>. QED
  BY <1>1, Invariance, PTL

\* At most one member of a thread is IN_PROGRESS: both would be the head.
THEOREM ThreadSingleFlight ==
  ASSUME Disciplined
  PROVE  Spec => []SingleFlight
<1>1. IInv => SingleFlight
  <2> SUFFICES ASSUME IInv, NEW t \in InState(db, "IN_PROGRESS"),
                      NEW u \in InState(db, "IN_PROGRESS"), db.tasks[t].threadId # None,
                      db.tasks[t].threadId = db.tasks[u].threadId
               PROVE  t = u
    BY DEF SingleFlight
  <2>1. \A v \in InState(db, "IN_PROGRESS") : HeadsItsThread(db, v)
    BY RowFields, Zenon DEF IInv, CoreInv, CoreInvBut, ThreadInv, InState
  <2>. QED
    BY <2>1 DEF HeadsItsThread
<1>. QED
  BY <1>1, Invariance, PTL

\* Only the head of a thread can be handed out, under its current ScheduledAt.
THEOREM HeadsAreCandidates ==
  ASSUME Disciplined
  PROVE  Spec => []OnlyHeadsAreCandidates
<1>1. IInv => OnlyHeadsAreCandidates
  <2> SUFFICES ASSUME IInv PROVE OnlyHeadsAreCandidates
    OBVIOUS
  <2>1. \A x \in db.queueIndex : CandidateOK(db, x)
    BY Zenon DEF IInv, CoreInv, CoreInvBut, ThreadInv
  <2>2. \A t \in InState(db, "IN_PROGRESS") : HeadsItsThread(db, t)
    BY RowFields, Zenon DEF IInv, CoreInv, CoreInvBut, ThreadInv, InState
  <2>. QED
    BY <2>1, <2>2, ZenonT(30) DEF OnlyHeadsAreCandidates, CandidateOK, HeadsItsThread
<1>. QED
  BY <1>1, Invariance, PTL

\* A task is leased at most once per configured retry plus one.
THEOREM RetriesBounded ==
  ASSUME Disciplined
  PROVE  Spec => []RetryBudget
<1>1. IInv => RetryBudget
  <2> SUFFICES ASSUME IInv, NEW t \in TaskIds
               PROVE  /\ IsLive(db, t) =>
                           db.tasks[t].attempts <= Len(db.tasks[t].retryIntervals)
                              + (IF db.tasks[t].state = "ENQUEUED" THEN 0 ELSE 1)
                      /\ db.tasks[t].state = "IN_PROGRESS" => db.tasks[t].attempts > 0
    BY ZenonT(30) DEF RetryBudget
  <2>1. RowOK(db.tasks[t]) /\ db.tasks[t] \in Task
    BY RowFields, Zenon DEF IInv, TypeOK, CoreInv, CoreInvBut
  <2>2. Len(db.tasks[t].retryIntervals) \in Nat
    <3>1. db.tasks[t].retryIntervals \in RetryStrategies \cup {<< >>}
      BY <2>1, TaskFields
    <3>2. << >> \in Seq(Nat) /\ \A r \in RetryStrategies : r \in Seq(Nat)
      BY TablesAssumption
    <3>. QED
      BY <3>1, <3>2
  <2>3. db.tasks[t].attempts \in Nat
    BY <2>1, TaskFields
  <2>4. CASE db.tasks[t].state = "ENQUEUED"
    BY <2>1, <2>2, <2>3, <2>4, SMTT(30) DEF RowOK
  <2>5. CASE db.tasks[t].state = "IN_PROGRESS"
    BY <2>1, <2>2, <2>3, <2>5, Zenon DEF RowOK
  <2>6. CASE ~IsLive(db, t)
    BY <2>6, ZenonT(30) DEF IsLive
  <2>. QED
    BY <2>4, <2>5, <2>6, ZenonT(30) DEF IsLive
<1>. QED
  BY <1>1, Invariance, PTL
===============================================================================
