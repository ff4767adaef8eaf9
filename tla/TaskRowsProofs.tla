---------------------------- MODULE TaskRowsProofs ----------------------------
(***************************************************************************)
(* What the helpers of TasksCore that change a single task row preserve:   *)
(* deletion, creation, failure, heartbeat and the overwrite of a duplicate *)
(* keep an invariant of the tables that has TypeOK, SingleFlight,          *)
(* OnlyHeadsAreCandidates and RetryBudget as consequences.                 *)
(***************************************************************************)
EXTENDS TasksCore, ThreadHeadsProofs

\* Attempts against the retry strategy; the attempts of a lease start at 1,
\* so that RetryIntervals has an interval for each failure but the last.
RowOK(r) ==
    /\ r.state = "ENQUEUED" => r.attempts <= Len(r.retryIntervals)
    /\ r.state = "IN_PROGRESS" => r.attempts > 0 /\ r.attempts <= Len(r.retryIntervals) + 1

LeaseOK(d, x) ==
    d.tasks[x[2]].state = "IN_PROGRESS" /\ d.tasks[x[2]].visibleAt = x[1]

\* The invariant of the tables, but for a task `out` in the middle of a call.
CoreInvBut(d, out) ==
    /\ d \in Db
    /\ ThreadInv(d, out)
    /\ \A x \in d.inProgressIndex : x[2] # out /\ LeaseOK(d, x)
    /\ \A t \in TaskIds \ {out} : RowOK(d.tasks[t])

CoreInv(d) == CoreInvBut(d, 0)

\* Every id in use was handed out by the sequence.
SeqOK(d) ==
    /\ \A t \in TaskIds : Exists(d, t) => t <= d.queueState.taskIdSequence
    /\ \A h \in ThreadIds : \A x \in d.threadedTasksIndex[h] :
          x[2] <= d.queueState.taskIdSequence

\* e differs from d only in what CoreInvBut does not read.
SameCore(d, e) ==
    /\ e \in Db /\ SameThreads(d, e)
    /\ e.inProgressIndex = d.inProgressIndex /\ e.queueState = d.queueState
    /\ e.err = d.err /\ e.purgeMarked = d.purgeMarked

\* e is d with the row of t changed and t out of queueIndex and inProgressIndex.
TakenOut(d, e, t) ==
    /\ e \in Db
    /\ \A u \in TaskIds \ {t} : e.tasks[u] = d.tasks[u]
    /\ e.threads = d.threads /\ e.threadedTasksIndex = d.threadedTasksIndex
    /\ e.queueIndex \subseteq d.queueIndex /\ \A x \in e.queueIndex : x[2] # t
    /\ e.inProgressIndex \subseteq d.inProgressIndex /\ \A x \in e.inProgressIndex : x[2] # t
    /\ e.queueState = d.queueState /\ e.err = d.err /\ e.purgeMarked = d.purgeMarked

\* Every index item is a pair of a time and a task id.
LEMMA IndexIds ==
  ASSUME NEW d \in Db
  PROVE  /\ \A x \in d.queueIndex : x[2] \in TaskIds /\ x = <<x[1], x[2]>>
         /\ \A x \in d.inProgressIndex : x[2] \in TaskIds /\ x = <<x[1], x[2]>>
         /\ \A h \in ThreadIds : \A x \in d.threadedTasksIndex[h] :
               x[2] \in TaskIds /\ x = <<x[1], x[2]>>
<1>1. /\ d.queueIndex \in SUBSET Items /\ d.inProgressIndex \in SUBSET Items
      /\ \A h \in ThreadIds : d.threadedTasksIndex[h] \in SUBSET Items
  BY DEF Db
<1>. QED
  BY <1>1 DEF Items

\* Where the items of an existing task can be.
LEMMA ItemsOfTask ==
  ASSUME NEW d, CoreInv(d), NEW t \in TaskIds
  PROVE  /\ \A x \in d.queueIndex : x[2] = t =>
               d.tasks[t].state = "ENQUEUED" /\ x = <<d.tasks[t].scheduledAt, t>>
         /\ \A x \in d.inProgressIndex : x[2] = t =>
               d.tasks[t].state = "IN_PROGRESS" /\ x = <<d.tasks[t].visibleAt, t>>
         /\ Exists(d, t) => \A h \in ThreadIds : \A x \in d.threadedTasksIndex[h] :
               x[2] = t => /\ IsLive(d, t) /\ h = d.tasks[t].threadId
                           /\ x = <<d.tasks[t].scheduledAt, t>>
<1>1. d \in Db /\ t # 0
  BY RowFields DEF CoreInv, CoreInvBut
<1>. QED
  BY <1>1, IndexIds DEF CoreInv, CoreInvBut, ThreadInv, CandidateOK, LeaseOK, MemberOK

\* With t out of the two indexes of live tasks, its row may be anything.
LEMMA TakeOut ==
  ASSUME NEW d, NEW e, NEW t \in TaskIds, CoreInv(d), TakenOut(d, e, t)
  PROVE  CoreInvBut(e, t)
<1>1. d \in Db /\ e \in Db
  BY DEF CoreInv, CoreInvBut, TakenOut
<1>2. \A u \in TaskIds \ {t} : HeadsItsThread(d, u) => HeadsItsThread(e, u)
  BY DEF TakenOut, HeadsItsThread
<1>3. \A x \in e.queueIndex : x[2] # t /\ CandidateOK(e, x)
  BY <1>1, <1>2, IndexIds DEF TakenOut, CoreInv, CoreInvBut, ThreadInv, CandidateOK
<1>4. \A x \in e.inProgressIndex : x[2] # t /\ LeaseOK(e, x)
  BY <1>1, IndexIds DEF TakenOut, CoreInv, CoreInvBut, LeaseOK
<1>5. \A h \in ThreadIds : \A x \in e.threadedTasksIndex[h] : x[2] # t => MemberOK(e, h, x)
  BY <1>1, IndexIds, RowFields DEF TakenOut, CoreInv, CoreInvBut, ThreadInv, MemberOK, Exists, IsLive
<1>6. \A u \in TaskIds \ {t} : e.tasks[u].state = "IN_PROGRESS" => HeadsItsThread(e, u)
  BY <1>1, <1>2, RowFields DEF TakenOut, CoreInv, CoreInvBut, ThreadInv
<1>7. ThreadInv(e, t)
  BY <1>3, <1>5, <1>6 DEF TakenOut, CoreInv, CoreInvBut, ThreadInv
<1>8. \A u \in TaskIds \ {t} : RowOK(e.tasks[u])
  BY <1>1, RowFields DEF TakenOut, CoreInv, CoreInvBut
<1>. QED
  BY <1>1, <1>4, <1>7, <1>8 DEF CoreInvBut

\* A task that is not leased is back in the tables: as a candidate, or not.
LEMMA PutBack ==
  ASSUME NEW d, NEW e \in Db, NEW t \in TaskIds, CoreInvBut(d, t),
         \A u \in TaskIds \ {t} : e.tasks[u] = d.tasks[u],
         e.threads = d.threads, e.threadedTasksIndex = d.threadedTasksIndex,
         e.inProgressIndex = d.inProgressIndex,
         RowOK(e.tasks[t]), e.tasks[t].state # "IN_PROGRESS",
         \A x \in e.queueIndex : x \in d.queueIndex \/ (x[2] = t /\ CandidateOK(e, x)),
         \A h \in ThreadIds : \A x \in e.threadedTasksIndex[h] : x[2] = t => MemberOK(e, h, x)
  PROVE  CoreInv(e)
<1>1. d \in Db /\ e \in Db
  BY DEF CoreInvBut
<1>2. \A u \in TaskIds \ {t} : HeadsItsThread(d, u) => HeadsItsThread(e, u)
  BY DEF HeadsItsThread
<1>3. \A x \in e.queueIndex : x[2] # 0 /\ CandidateOK(e, x)
  BY <1>1, <1>2, IndexIds, RowFields DEF CoreInvBut, ThreadInv, CandidateOK
<1>4. \A x \in e.inProgressIndex : x[2] # 0 /\ LeaseOK(e, x)
  BY <1>1, IndexIds, RowFields DEF CoreInvBut, LeaseOK
<1>5. \A h \in ThreadIds : \A x \in e.threadedTasksIndex[h] : MemberOK(e, h, x)
  BY <1>1, IndexIds DEF CoreInvBut, ThreadInv, MemberOK, Exists, IsLive
<1>6. \A u \in TaskIds : e.tasks[u].state = "IN_PROGRESS" => HeadsItsThread(e, u)
  BY <1>1, <1>2 DEF CoreInvBut, ThreadInv
<1>7. ThreadInv(e, 0)
  BY <1>3, <1>5, <1>6 DEF CoreInvBut, ThreadInv
<1>8. \A u \in TaskIds : RowOK(e.tasks[u])
  BY DEF CoreInvBut
<1>. QED
  BY <1>1, <1>4, <1>7, <1>8 DEF CoreInv, CoreInvBut

\* Writes to the other tables keep the invariant.
LEMMA SameCoreInv ==
  ASSUME NEW d, NEW e, NEW out, CoreInvBut(d, out), SameCore(d, e)
  PROVE  CoreInvBut(e, out)
<1>1. ThreadInv(e, out)
  BY SameThreadsInv DEF CoreInvBut, SameCore
<1>. QED
  BY <1>1 DEF CoreInvBut, SameCore, SameThreads, LeaseOK

\* The thread helpers keep what the coupling does not cover.
LEMMA SameRowsInv ==
  ASSUME NEW d, NEW e, NEW out, NEW still, CoreInvBut(d, out), SameRows(d, e), ThreadInv(e, still),
         still = out \/ (still = 0 /\ out \in TaskIds /\ RowOK(d.tasks[out]))
  PROVE  CoreInvBut(e, still)
<1>1. e \in Db /\ d \in Db /\ e.tasks = d.tasks /\ e.inProgressIndex = d.inProgressIndex
  BY DEF SameRows, CoreInvBut
<1>2. \A x \in e.inProgressIndex : x[2] # still /\ LeaseOK(e, x)
  BY <1>1, IndexIds, RowFields DEF CoreInvBut, LeaseOK
<1>. QED
  BY <1>1, <1>2 DEF CoreInvBut

\* Claiming or releasing a dedupe key is such a write.
LEMMA SetDedupeSame ==
  ASSUME NEW d \in Db, NEW key \in DedupeKeys \cup {None}, NEW t \in TaskIds \cup {0}
  PROVE  SameCore(d, SetDedupeKey(d, key, t))
<1>1. CASE key = None
  BY <1>1 DEF SetDedupeKey, SameCore, SameThreads
<1>2. CASE key # None
  <2>1. SetDedupeKey(d, key, t) = [d EXCEPT !.dedupeKeysIndex[key] = t] /\ key \in DedupeKeys
    BY <1>2 DEF SetDedupeKey
  <2>. QED
    BY <2>1, SMTT(30) DEF Db, SameCore, SameThreads
<1>. QED
  BY <1>1, <1>2

\* So is counting.
LEMMA CountSame ==
  ASSUME NEW d \in Db, NEW c \in Counters, NEW n \in Int
  PROVE  SameCore(d, Count(d, c, n))
BY SMTT(30) DEF Db, Count, SameCore, SameThreads

\* An error leaves the tables as they are.
LEMMA FailSame ==
  ASSUME NEW d, NEW out, CoreInvBut(d, out)
  PROVE  /\ CoreInvBut(Fail(d), out) /\ Fail(d) \in Db /\ Fail(d).err
         /\ Fail(d).tasks = d.tasks /\ Fail(d).purgeMarked = d.purgeMarked
         /\ SeqOK(d) => SeqOK(Fail(d))
<1>1. d \in Db
  BY DEF CoreInvBut
<1>2. SameRows(d, Fail(d)) /\ Fail(d).err /\ SameThreads(d, Fail(d))
  BY <1>1, FailRows
<1>3. ThreadInv(Fail(d), out)
  BY <1>2, SameThreadsInv DEF CoreInvBut
<1>. QED
  BY <1>2, <1>3, SameRowsInv DEF SameRows, SameThreads, SeqOK, Exists

\* What deleting any number of tasks does to the tables.
Deletes(d, e) ==
    /\ CoreInv(e)
    /\ d.err => e.err
    /\ e.purgeMarked = d.purgeMarked
    /\ SeqOK(d) => SeqOK(e)
    /\ \A u \in TaskIds : e.tasks[u] = d.tasks[u] \/ e.tasks[u] = NoTask

\* A missing row satisfies every condition on rows.
LEMMA NoTaskFields ==
  /\ NoTask \in Task /\ NoTask.state = "ABSENT" /\ RowOK(NoTask)
<1>1. NoTask \in Task
  BY DEF NoTask, Task
<1>. QED
  BY <1>1 DEF NoTask, RowOK

\* deleteTask takes an existing task out of every index, whatever its state.
LEMMA DeleteTaskInv ==
  ASSUME NEW d, CoreInv(d), NEW t \in TaskIds, Exists(d, t),
         NEW reason \in {"NONE", "PROCESSED", "EXPIRED"}
  PROVE  /\ Deletes(d, deleteTask(d, t, reason))
         /\ deleteTask(d, t, reason).tasks[t] = NoTask
<1> DEFINE task == d.tasks[t]
           unindexed == CASE task.state = "DEAD" ->
                               [d EXCEPT !.deadTasksIndex = @ \ {<<task.lastFailedAt, t>>}]
                          [] task.state = "ENQUEUED" ->
                               [d EXCEPT !.queueIndex = @ \ {<<task.scheduledAt, t>>}]
                          [] task.state = "IN_PROGRESS" ->
                               [d EXCEPT !.inProgressIndex = @ \ {<<task.visibleAt, t>>}]
           released == SetDedupeKey(unindexed, task.dedupeKey, 0)
           detached == CASE task.state = "DEAD" -> unindexed
                         [] task.state # "DEAD" /\ task.threadId = None -> released
                         [] OTHER -> detachTaskFromThread(released, t)
           counted == Count(detached, task.state, -1)
           dropped == [counted EXCEPT !.expiration = @ \ {<<task.expiresAt, t>>},
                                      !.tasks[t] = NoTask]
           e == deleteTask(d, t, reason)
<1>1. /\ d \in Db /\ t # 0 /\ task \in Task
      /\ task.state \in {"DEAD", "ENQUEUED", "IN_PROGRESS"}
      /\ task.dedupeKey \in DedupeKeys \cup {None} /\ task.threadId \in ThreadIds \cup {None}
  BY RowFields, TaskFields DEF CoreInv, CoreInvBut, Exists, TaskStates
<1>2. e = IF reason = "NONE" THEN dropped ELSE Count(dropped, reason, 1)
  BY DEF deleteTask
<1>3. TakenOut(d, unindexed, t) /\ unindexed.tasks = d.tasks
  <2>1. CASE task.state = "DEAD"
    <3>1. unindexed = [d EXCEPT !.deadTasksIndex = @ \ {<<task.lastFailedAt, t>>}]
      BY <2>1
    <3>2. \A x \in d.queueIndex \cup d.inProgressIndex : x[2] # t
      BY <2>1, ItemsOfTask
    <3>. HIDE DEF unindexed
    <3>. QED
      BY <3>1, <3>2, <1>1, Zenon DEF Db, TakenOut
  <2>2. CASE task.state = "ENQUEUED"
    <3>1. unindexed = [d EXCEPT !.queueIndex = @ \ {<<task.scheduledAt, t>>}]
      BY <2>2
    <3>2. \A x \in (d.queueIndex \ {<<task.scheduledAt, t>>}) \cup d.inProgressIndex : x[2] # t
      BY <2>2, ItemsOfTask
    <3>. HIDE DEF unindexed
    <3>. QED
      BY <3>1, <3>2, <1>1 DEF Db, TakenOut
  <2>3. CASE task.state = "IN_PROGRESS"
    <3>1. unindexed = [d EXCEPT !.inProgressIndex = @ \ {<<task.visibleAt, t>>}]
      BY <2>3
    <3>2. \A x \in d.queueIndex \cup (d.inProgressIndex \ {<<task.visibleAt, t>>}) : x[2] # t
      BY <2>3, ItemsOfTask
    <3>. HIDE DEF unindexed
    <3>. QED
      BY <3>1, <3>2, <1>1 DEF Db, TakenOut
  <2>. QED
    BY <1>1, <2>1, <2>2, <2>3, Zenon
<1>4. SameCore(unindexed, released)
  <2>. HIDE DEF unindexed
  <2>1. unindexed \in Db
    BY <1>3 DEF TakenOut
  <2>. QED
    BY <1>1, <2>1, SetDedupeSame
<1>5. /\ CoreInvBut(unindexed, t) /\ CoreInvBut(released, t)
      /\ released \in Db /\ unindexed \in Db
      /\ released.tasks = d.tasks /\ released.threadedTasksIndex = d.threadedTasksIndex
      /\ released.queueState = d.queueState /\ released.err = d.err
      /\ released.purgeMarked = d.purgeMarked
  <2>. HIDE DEF unindexed, released
  <2>1. CoreInvBut(unindexed, t)
    BY <1>3, TakeOut
  <2>2. CoreInvBut(released, t)
    BY <1>4, <2>1, SameCoreInv
  <2>. QED
    BY <1>3, <1>4, <2>1, <2>2 DEF TakenOut, SameCore, SameThreads
<1>6. /\ task.state = "DEAD" => detached = unindexed
      /\ task.state # "DEAD" /\ task.threadId = None => detached = released
      /\ task.state # "DEAD" /\ task.threadId # None => detached = detachTaskFromThread(released, t)
  <2>. HIDE DEF released, unindexed, task
  <2>. QED
    BY Zenon, ZenonT(30)
<1>7. counted = Count(detached, task.state, -1)
  OBVIOUS
<1>8. dropped = [counted EXCEPT !.expiration = @ \ {<<task.expiresAt, t>>}, !.tasks[t] = NoTask]
  OBVIOUS
<1>9. Exists(d, t) => \A h \in ThreadIds : \A x \in d.threadedTasksIndex[h] :
         x[2] = t => h = task.threadId /\ x = <<task.scheduledAt, t>>
  BY ItemsOfTask
<1>. SUFFICES Deletes(d, e) /\ e.tasks[t] = NoTask
  OBVIOUS
<1>10. task = d.tasks[t]
  OBVIOUS
<1>. HIDE DEF task, unindexed, released, detached, counted, dropped, e
<1>11. /\ CoreInvBut(detached, t) /\ detached \in Db /\ detached.tasks = d.tasks
       /\ detached.queueState = d.queueState /\ (d.err => detached.err)
       /\ detached.purgeMarked = d.purgeMarked /\ MembersWithin(d, detached, t)
  <2>1. CASE task.state = "DEAD"
    BY <2>1, <1>3, <1>5, <1>6 DEF TakenOut, MembersWithin
  <2>2. CASE task.state # "DEAD" /\ task.threadId = None
    BY <2>2, <1>5, <1>6 DEF MembersWithin
  <2>3. CASE task.state # "DEAD" /\ task.threadId # None
    <3>1. detached = detachTaskFromThread(released, t)
      BY <2>3, <1>6
    <3>2. /\ SameRows(released, detached) /\ MembersWithin(released, detached, t)
          /\ ThreadInv(detached, t)
      BY <2>3, <3>1, <1>5, <1>9, <1>10, DetachInv DEF CoreInvBut
    <3>3. CoreInvBut(detached, t)
      BY <3>2, <1>5, SameRowsInv
    <3>. QED
      BY <3>2, <3>3, <1>5 DEF SameRows, MembersWithin
  <2>. QED
    BY <2>1, <2>2, <2>3
<1>12. SameCore(detached, counted)
  BY <1>1, <1>7, <1>11, CountSame DEF Counters, TaskStates
<1>13. /\ CoreInvBut(counted, t) /\ counted \in Db /\ counted.tasks = d.tasks
       /\ counted.queueState = d.queueState /\ (d.err => counted.err)
       /\ counted.purgeMarked = d.purgeMarked /\ MembersWithin(d, counted, t)
  <2>1. CoreInvBut(counted, t)
    BY <1>11, <1>12, SameCoreInv
  <2>. QED
    BY <2>1, <1>11, <1>12 DEF SameCore, SameThreads, MembersWithin
<1>14. /\ dropped \in Db /\ dropped.tasks[t] = NoTask
       /\ \A u \in TaskIds \ {t} : dropped.tasks[u] = counted.tasks[u]
       /\ dropped.threads = counted.threads /\ dropped.queueIndex = counted.queueIndex
       /\ dropped.threadedTasksIndex = counted.threadedTasksIndex
       /\ dropped.inProgressIndex = counted.inProgressIndex
       /\ dropped.queueState = counted.queueState /\ dropped.err = counted.err
       /\ dropped.purgeMarked = counted.purgeMarked
  BY <1>8, <1>13, NoTaskFields, ZenonT(30) DEF Db
<1>15. CoreInv(dropped)
  <2>1. \A h \in ThreadIds : \A x \in dropped.threadedTasksIndex[h] :
           x[2] = t => MemberOK(dropped, h, x)
    BY <1>14, NoTaskFields DEF MemberOK, Exists
  <2>2. RowOK(dropped.tasks[t]) /\ dropped.tasks[t].state # "IN_PROGRESS"
    BY <1>14, NoTaskFields
  <2>. QED
    BY <1>13, <1>14, <2>1, <2>2, PutBack
<1>16. Deletes(d, dropped)
  <2>1. ASSUME SeqOK(d) PROVE SeqOK(dropped)
    <3>1. t <= d.queueState.taskIdSequence
      BY <2>1 DEF SeqOK
    <3>2. \A u \in TaskIds : Exists(dropped, u) => Exists(d, u)
      BY <1>13, <1>14, NoTaskFields DEF Exists
    <3>. QED
      BY <2>1, <3>1, <3>2, <1>13, <1>14 DEF SeqOK, MembersWithin
  <2>. QED
    BY <2>1, <1>13, <1>14, <1>15 DEF Deletes
<1>17. CASE reason = "NONE"
  BY <1>2, <1>14, <1>16, <1>17
<1>18. CASE reason # "NONE"
  <2>1. SameCore(dropped, e)
    BY <1>2, <1>14, <1>18, CountSame, SMTT(30) DEF Counters
  <2>2. CoreInv(e)
    BY <2>1, <1>15, SameCoreInv DEF CoreInv
  <2>. QED
    BY <2>1, <2>2, <1>14, <1>16 DEF Deletes, SameCore, SameThreads, SeqOK, Exists
<1>. QED
  BY <1>17, <1>18

\* What a call leaves behind, unless it fails.
Good(d, e) ==
    /\ e \in Db
    /\ d.err => e.err
    /\ e.purgeMarked = d.purgeMarked
    /\ ~e.err => CoreInv(e) /\ (SeqOK(d) => SeqOK(e))

\* Deletion is a transaction a call may commit.
LEMMA DeletesGood ==
  ASSUME NEW d, NEW e, Deletes(d, e)
  PROVE  Good(d, e)
BY DEF Deletes, Good, CoreInv, CoreInvBut

\* Transactions compose.
LEMMA GoodTrans ==
  ASSUME NEW d, NEW e, NEW f, Good(d, e), Good(e, f)
  PROVE  Good(d, f)
BY DEF Good

\* createTask on an id that no index mentions.
LEMMA CreateTaskInv ==
  ASSUME NEW d, NEW t \in TaskIds, CoreInvBut(d, t), NEW task \in Task,
         task.state = "ENQUEUED", RowOK(task),
         \A h \in ThreadIds : \A x \in d.threadedTasksIndex[h] : x[2] # t
  PROVE  LET e == createTask(d, t, task)
         IN  /\ e \in Db /\ (d.err => e.err) /\ e.purgeMarked = d.purgeMarked
             /\ CoreInv(e)
             /\ SeqOK(d) /\ t <= d.queueState.taskIdSequence => SeqOK(e)
<1> DEFINE row == [d EXCEPT !.tasks[t] = task,
                            !.expiration = @ \cup {<<task.expiresAt, t>>},
                            !.counters["ENQUEUED"] = @ + 1]
           stored == SetDedupeKey(row, task.dedupeKey, t)
           e == createTask(d, t, task)
<1>1. /\ d \in Db /\ t # 0 /\ task.expiresAt \in Nat /\ task.scheduledAt \in Nat
      /\ task.dedupeKey \in DedupeKeys \cup {None} /\ task.threadId \in ThreadIds \cup {None}
  BY RowFields, TaskFields DEF CoreInvBut
<1>2. e = IF task.threadId = None
          THEN [stored EXCEPT !.queueIndex = @ \cup {<<task.scheduledAt, t>>}]
          ELSE attachTaskToThread(stored, t)
  BY DEF createTask
<1>3. row \in Db /\ TakenOut(d, row, t) /\ row.tasks[t] = task
  <2>1. <<task.expiresAt, t>> \in Items /\ "ENQUEUED" \in Counters
    BY <1>1 DEF Items, Counters, TaskStates
  <2>2. /\ row \in Db /\ row.tasks = [d.tasks EXCEPT ![t] = task]
        /\ row.threads = d.threads /\ row.threadedTasksIndex = d.threadedTasksIndex
        /\ row.queueIndex = d.queueIndex /\ row.inProgressIndex = d.inProgressIndex
        /\ row.queueState = d.queueState /\ row.err = d.err /\ row.purgeMarked = d.purgeMarked
    <3>1. /\ d.tasks \in [TaskIds -> Task] /\ d.expiration \in SUBSET Items
          /\ d.counters \in [Counters -> Int]
      BY <1>1 DEF Db
    <3> DEFINE c == [d.counters EXCEPT !["ENQUEUED"] = @ + 1]
               x == d.expiration \cup {<<task.expiresAt, t>>}
               r == [d.tasks EXCEPT ![t] = task]
    <3>2. c \in [Counters -> Int] /\ x \in SUBSET Items /\ r \in [TaskIds -> Task]
      BY <3>1, <2>1
    <3>3. row = [d EXCEPT !.tasks = r, !.expiration = x, !.counters = c]
      BY <1>1 DEF Db
    <3>. HIDE DEF c, x, row
    <3>. QED
      BY <1>1, <3>2, <3>3, ZenonT(30) DEF Db
  <2>3. /\ \A x \in d.queueIndex : x[2] # t
        /\ \A x \in d.inProgressIndex : x[2] # t
    BY DEF CoreInvBut, ThreadInv
  <2>4. d.tasks \in [TaskIds -> Task]
    BY <1>1 DEF Db
  <2>. HIDE DEF row
  <2>. QED
    BY <2>2, <2>3, <2>4 DEF TakenOut
<1>4. SameCore(row, stored)
  <2>. HIDE DEF row
  <2>. QED
    BY <1>1, <1>3, SetDedupeSame
<1>. SUFFICES /\ e \in Db /\ (d.err => e.err) /\ e.purgeMarked = d.purgeMarked
              /\ CoreInv(e)
              /\ SeqOK(d) /\ t <= d.queueState.taskIdSequence => SeqOK(e)
  OBVIOUS
<1>. HIDE DEF row, stored, e
<1>5. /\ stored \in Db /\ stored.tasks[t] = task
      /\ \A u \in TaskIds \ {t} : stored.tasks[u] = d.tasks[u]
      /\ stored.threads = d.threads /\ stored.threadedTasksIndex = d.threadedTasksIndex
      /\ stored.queueIndex = row.queueIndex /\ stored.inProgressIndex = row.inProgressIndex
      /\ stored.queueState = d.queueState /\ stored.err = d.err
      /\ stored.purgeMarked = d.purgeMarked
  BY <1>3, <1>4 DEF TakenOut, SameCore, SameThreads
<1>6. CoreInvBut(stored, t)
  <2>1. \A u \in TaskIds \ {t} : HeadsItsThread(d, u) => HeadsItsThread(stored, u)
    BY <1>5, Zenon DEF HeadsItsThread
  <2>2. \A x \in stored.queueIndex : x[2] # t /\ CandidateOK(stored, x)
    BY <2>1, <1>1, <1>3, <1>5, IndexIds DEF TakenOut, CoreInvBut, ThreadInv, CandidateOK
  <2>3. \A x \in stored.inProgressIndex : x[2] # t /\ LeaseOK(stored, x)
    BY <1>1, <1>3, <1>5, IndexIds DEF TakenOut, CoreInvBut, LeaseOK
  <2>4. \A h \in ThreadIds : \A x \in stored.threadedTasksIndex[h] : MemberOK(stored, h, x)
    BY <1>1, <1>5, IndexIds, SMTT(30) DEF CoreInvBut, ThreadInv, MemberOK, Exists, IsLive
  <2>5. ThreadInv(stored, t)
    BY <2>1, <2>2, <2>4, <1>5, Zenon DEF CoreInvBut, ThreadInv
  <2>. QED
    BY <2>3, <2>5, <1>5 DEF CoreInvBut
<1>7. ASSUME e \in Db, e.tasks = stored.tasks, e.queueState = stored.queueState,
             MembersWithin(stored, e, t), SeqOK(d), t <= d.queueState.taskIdSequence
      PROVE  SeqOK(e)
  <2>1. \A u \in TaskIds : Exists(e, u) => u = t \/ Exists(d, u)
    BY <1>5, <1>7 DEF Exists
  <2>. QED
    BY <2>1, <1>5, <1>7 DEF SeqOK, MembersWithin
<1>8. CASE task.threadId = None
  <2>1. e = [stored EXCEPT !.queueIndex = @ \cup {<<task.scheduledAt, t>>}]
    BY <1>2, <1>8
  <2>2. <<task.scheduledAt, t>> \in Items
    BY <1>1 DEF Items
  <2>3. /\ e \in Db /\ e.tasks = stored.tasks /\ e.threads = stored.threads
        /\ e.threadedTasksIndex = stored.threadedTasksIndex
        /\ e.inProgressIndex = stored.inProgressIndex
        /\ e.queueIndex = stored.queueIndex \cup {<<task.scheduledAt, t>>}
        /\ e.queueState = stored.queueState /\ e.err = stored.err
        /\ e.purgeMarked = stored.purgeMarked
    BY <2>1, <2>2, <1>5, Zenon DEF Db
  <2>4. CandidateOK(e, <<task.scheduledAt, t>>)
    BY <2>3, <1>5, <1>8 DEF CandidateOK, HeadsItsThread
  <2>5. /\ \A x \in e.queueIndex : x \in stored.queueIndex \/ (x[2] = t /\ CandidateOK(e, x))
        /\ \A h \in ThreadIds : \A x \in e.threadedTasksIndex[h] : x[2] = t => MemberOK(e, h, x)
    BY <2>3, <2>4, <1>5
  <2>6. CoreInv(e)
    BY <2>3, <2>5, <1>5, <1>6, PutBack
  <2>7. MembersWithin(stored, e, t)
    BY <2>3 DEF MembersWithin
  <2>. QED
    BY <2>3, <2>6, <2>7, <1>5, <1>7
<1>9. CASE task.threadId # None
  <2>1. e = attachTaskToThread(stored, t)
    BY <1>2, <1>9
  <2>2. SameRows(stored, e) /\ MembersWithin(stored, e, t) /\ ThreadInv(e, 0)
    BY <2>1, <1>5, <1>6, <1>9, AttachInv DEF CoreInvBut
  <2>3. CoreInv(e)
    BY <2>2, <1>5, <1>6, SameRowsInv DEF CoreInv
  <2>. QED
    BY <2>2, <2>3, <1>5, <1>7 DEF SameRows
<1>. QED
  BY <1>8, <1>9

\* A time and a task id make an index item.
LEMMA TimeItem ==
  ASSUME NEW n \in Nat, NEW t \in TaskIds
  PROVE  <<n, t>> \in Items
BY DEF Items

\* A failed attempt with a retry left: the task is ENQUEUED again and keeps
\* its headship of the thread or loses it with its place in queueIndex.
LEMMA RetryInv ==
  ASSUME NEW d, CoreInv(d), NEW t \in TaskIds, NEW now \in Nat,
         d.tasks[t].state = "IN_PROGRESS", d.tasks[t].attempts <= Len(d.tasks[t].retryIntervals)
  PROVE  LET e == failTaskToRetry(d, t, now)
         IN  /\ Good(d, e)
             /\ \A u \in TaskIds \ {t} : e.tasks[u] = d.tasks[u]
<1> DEFINE task == d.tasks[t]
           at == now + task.retryIntervals[task.attempts]
           row == [task EXCEPT !.state = "ENQUEUED", !.scheduledAt = at,
                               !.lastFailedAt = now, !.visibleAt = 0]
           back == [d EXCEPT !.inProgressIndex = @ \ {<<task.visibleAt, t>>},
                             !.tasks[t] = row,
                             !.expiration = @ \cup {<<task.expiresAt, t>>}]
           queued == IF task.threadId = None
                     THEN [back EXCEPT !.queueIndex = @ \cup {<<at, t>>}]
                     ELSE rescheduleTaskInThread(back, t, task.scheduledAt)
           e == failTaskToRetry(d, t, now)
<1>1. /\ d \in Db /\ t # 0 /\ task \in Task
      /\ task.expiresAt \in Nat /\ task.scheduledAt \in Nat /\ task.visibleAt \in Nat
      /\ task.attempts \in Nat /\ task.threadId \in ThreadIds \cup {None}
  BY RowFields, TaskFields DEF CoreInv, CoreInvBut
<1>2. at \in Nat
  <2>1. task.retryIntervals \in RetryStrategies \cup {<< >>}
    BY <1>1, TaskFields
  <2>2. task.retryIntervals \in Seq(Nat)
    <3>1. << >> \in Seq(Nat) /\ \A r \in RetryStrategies : r \in Seq(Nat)
      BY TablesAssumption
    <3>. HIDE DEF task
    <3>. QED
      BY <2>1, <3>1, ZenonT(30)
  <2>3. RowOK(task)
    BY <1>1 DEF CoreInv, CoreInvBut
  <2>4. task.attempts \in 1 .. Len(task.retryIntervals)
    BY <1>1, <2>2, <2>3 DEF RowOK
  <2>. HIDE DEF task
  <2>. QED
    BY <2>2, <2>4
<1>3. /\ row \in Task /\ row.state = "ENQUEUED" /\ row.scheduledAt = at
      /\ row.threadId = task.threadId /\ RowOK(row)
  <2>1. row \in Task
    <3>. HIDE DEF task, at
    <3>. QED
      BY <1>1, <1>2, ZenonT(30) DEF Task, TaskStates
  <2>2. /\ row.state = "ENQUEUED" /\ row.scheduledAt = at /\ row.threadId = task.threadId
        /\ row.attempts = task.attempts /\ row.retryIntervals = task.retryIntervals
    <3>. HIDE DEF task, at
    <3>. QED
      BY <1>1 DEF Task
  <2>3. RowOK(row)
    <3>1. task.attempts <= Len(task.retryIntervals)
      OBVIOUS
    <3>. HIDE DEF row, task
    <3>. QED
      BY <2>2, <3>1 DEF RowOK
  <2>. QED
    BY <2>1, <2>2, <2>3
<1>4. /\ back \in Db /\ back.tasks = [d.tasks EXCEPT ![t] = row]
      /\ back.threads = d.threads /\ back.threadedTasksIndex = d.threadedTasksIndex
      /\ back.queueIndex = d.queueIndex
      /\ back.inProgressIndex = d.inProgressIndex \ {<<task.visibleAt, t>>}
      /\ back.queueState = d.queueState /\ back.err = d.err /\ back.purgeMarked = d.purgeMarked
  <2> DEFINE r == [d.tasks EXCEPT ![t] = row]
             x == d.expiration \cup {<<task.expiresAt, t>>}
             p == d.inProgressIndex \ {<<task.visibleAt, t>>}
  <2>1. /\ d.tasks \in [TaskIds -> Task] /\ d.expiration \in SUBSET Items
        /\ d.inProgressIndex \in SUBSET Items
    BY <1>1 DEF Db
  <2>2. back = [d EXCEPT !.inProgressIndex = p, !.tasks = r, !.expiration = x]
    <3>. HIDE DEF at, row, task
    <3>. QED
      BY <1>1, <2>1 DEF Db
  <2>3. r \in [TaskIds -> Task] /\ x \in SUBSET Items /\ p \in SUBSET Items
    <3>. HIDE DEF row, task
    <3>. QED
      BY <1>1, <1>3, <2>1, TimeItem
  <2>. HIDE DEF r, x, p, back
  <2>4. back \in Db
    BY <1>1, <2>2, <2>3, ZenonT(30) DEF Db
  <2>5. /\ back.tasks = r /\ back.inProgressIndex = p /\ back.queueIndex = d.queueIndex
        /\ back.threads = d.threads /\ back.threadedTasksIndex = d.threadedTasksIndex
        /\ back.queueState = d.queueState /\ back.err = d.err /\ back.purgeMarked = d.purgeMarked
    BY <1>1, <2>2 DEF Db
  <2>. QED
    BY <2>4, <2>5 DEF r, p
<1>5. /\ \A x \in d.queueIndex : x[2] # t
      /\ \A x \in d.inProgressIndex : x[2] = t => x = <<task.visibleAt, t>>
      /\ \A h \in ThreadIds : \A x \in d.threadedTasksIndex[h] :
            x[2] = t => h = task.threadId /\ x = <<task.scheduledAt, t>>
  BY ItemsOfTask DEF Exists
<1>6. /\ queued = IF task.threadId = None
                  THEN [back EXCEPT !.queueIndex = @ \cup {<<at, t>>}]
                  ELSE rescheduleTaskInThread(back, t, task.scheduledAt)
      /\ e = Count(Count(queued, "IN_PROGRESS", -1), "ENQUEUED", 1)
  BY DEF failTaskToRetry
<1>7. task = d.tasks[t]
  OBVIOUS
<1>. SUFFICES Good(d, e) /\ \A u \in TaskIds \ {t} : e.tasks[u] = d.tasks[u]
  OBVIOUS
<1>. HIDE DEF task, at, back, queued, e, row
<1>8. back.tasks[t] = row /\ \A u \in TaskIds \ {t} : back.tasks[u] = d.tasks[u]
  <2>1. d.tasks \in [TaskIds -> Task]
    BY <1>1 DEF Db
  <2>. QED
    BY <2>1, <1>4
<1>9. CoreInvBut(back, t)
  <2>1. TakenOut(d, back, t)
    BY <1>4, <1>5, <1>8 DEF TakenOut
  <2>. QED
    BY <2>1, TakeOut
<1>10. /\ queued \in Db /\ (d.err => queued.err) /\ queued.purgeMarked = d.purgeMarked
       /\ queued.tasks = back.tasks /\ queued.queueState = d.queueState
       /\ MembersWithin(d, queued, t)
       /\ queued.err \/ CoreInv(queued)
  <2>1. CASE task.threadId = None
    <3>1. queued = [back EXCEPT !.queueIndex = @ \cup {<<at, t>>}]
      BY <1>6, <2>1
    <3>6. <<at, t>> \in Items
      BY <1>2, TimeItem
    <3>2. /\ queued \in Db /\ queued.tasks = back.tasks /\ queued.threads = back.threads
          /\ queued.threadedTasksIndex = back.threadedTasksIndex
          /\ queued.inProgressIndex = back.inProgressIndex
          /\ queued.queueIndex = back.queueIndex \cup {<<at, t>>}
          /\ queued.queueState = back.queueState /\ queued.err = back.err
          /\ queued.purgeMarked = back.purgeMarked
      BY <3>1, <3>6, <1>4, ZenonT(30) DEF Db
    <3>3. CandidateOK(queued, <<at, t>>)
      BY <3>2, <1>3, <1>8, <2>1 DEF CandidateOK, HeadsItsThread
    <3>4. /\ \A x \in queued.queueIndex :
                x \in back.queueIndex \/ (x[2] = t /\ CandidateOK(queued, x))
          /\ \A h \in ThreadIds : \A x \in queued.threadedTasksIndex[h] :
                x[2] = t => MemberOK(queued, h, x)
      BY <3>2, <3>3, <1>4, <1>5, <2>1, TablesAssumption, SMTT(30)
    <3>5. CoreInv(queued)
      <4>1. RowOK(queued.tasks[t]) /\ queued.tasks[t].state # "IN_PROGRESS"
        BY <3>2, <1>3, <1>8
      <4>. QED
        BY <3>2, <3>4, <4>1, <1>9, PutBack
    <3>. QED
      BY <3>2, <3>5, <1>4 DEF MembersWithin
  <2>2. CASE task.threadId # None
    <3>1. queued = rescheduleTaskInThread(back, t, task.scheduledAt)
      BY <1>6, <2>2
    <3>2. /\ back.tasks[t].state = "ENQUEUED" /\ back.tasks[t].threadId = task.threadId
          /\ \A h \in ThreadIds : \A x \in back.threadedTasksIndex[h] :
                x[2] = t => h = back.tasks[t].threadId /\ x = <<task.scheduledAt, t>>
      BY <1>3, <1>4, <1>5, <1>8
    <3>3. /\ SameRows(back, queued) /\ MembersWithin(back, queued, t)
          /\ queued.err \/ ThreadInv(queued, 0)
      BY <2>2, <3>1, <3>2, <1>1, <1>4, <1>9, RescheduleInv, Zenon DEF CoreInvBut
    <3>4. queued.err \/ CoreInv(queued)
      BY <3>3, <1>3, <1>8, <1>9, SameRowsInv DEF CoreInv
    <3>. QED
      BY <3>3, <3>4, <1>4 DEF SameRows, MembersWithin
  <2>. QED
    BY <2>1, <2>2
<1>11. SameCore(queued, e)
  <2> DEFINE c == Count(queued, "IN_PROGRESS", -1)
  <2>1. SameCore(queued, c)
    BY <1>10, CountSame DEF Counters, TaskStates
  <2>2. e = Count(c, "ENQUEUED", 1)
    BY <1>6
  <2>. HIDE DEF c
  <2>3. c \in Db /\ "ENQUEUED" \in Counters
    BY <2>1 DEF SameCore, Counters, TaskStates
  <2>4. SameCore(c, e)
    BY <2>2, <2>3, CountSame
  <2>. QED
    BY <2>1, <2>4 DEF SameCore, SameThreads
<1>12. e.err \/ CoreInv(e)
  BY <1>10, <1>11, SameCoreInv DEF CoreInv, SameCore
<1>13. ASSUME SeqOK(d) PROVE SeqOK(e)
  <2>1. \A u \in TaskIds : Exists(e, u) => u = t \/ Exists(d, u)
    BY <1>8, <1>10, <1>11 DEF Exists, SameCore, SameThreads
  <2>2. t <= d.queueState.taskIdSequence
    BY <1>13 DEF SeqOK, Exists
  <2>. QED
    BY <2>1, <2>2, <1>10, <1>11, <1>13 DEF SeqOK, MembersWithin, SameCore, SameThreads
<1>. QED
  BY <1>8, <1>10, <1>11, <1>12, <1>13 DEF Good, SameCore, SameThreads

\* The row of t changes in a field that decides neither its state nor its place.
LEMMA TouchRow ==
  ASSUME NEW d, CoreInv(d), NEW t \in TaskIds, NEW row \in Task,
         row.state = d.tasks[t].state, row.scheduledAt = d.tasks[t].scheduledAt,
         row.threadId = d.tasks[t].threadId, row.attempts = d.tasks[t].attempts,
         row.retryIntervals = d.tasks[t].retryIntervals,
         NEW e \in Db, e.tasks = [d.tasks EXCEPT ![t] = row],
         e.queueIndex = d.queueIndex, e.threads = d.threads,
         e.threadedTasksIndex = d.threadedTasksIndex, e.queueState = d.queueState,
         \A x \in e.inProgressIndex : (x \in d.inProgressIndex /\ x[2] # t) \/ LeaseOK(e, x)
  PROVE  CoreInv(e) /\ (SeqOK(d) => SeqOK(e))
<1>1. d \in Db /\ e \in Db
  BY DEF CoreInv, CoreInvBut
<1>2. d.tasks \in [TaskIds -> Task]
  BY <1>1 DEF Db
<1>3. e.tasks[t] = row /\ \A u \in TaskIds \ {t} : e.tasks[u] = d.tasks[u]
  BY <1>2
<1>4. \A u \in TaskIds : /\ e.tasks[u].state = d.tasks[u].state
                         /\ e.tasks[u].scheduledAt = d.tasks[u].scheduledAt
                         /\ e.tasks[u].threadId = d.tasks[u].threadId
                         /\ e.tasks[u].attempts = d.tasks[u].attempts
                         /\ e.tasks[u].retryIntervals = d.tasks[u].retryIntervals
  BY <1>3
<1>5. \A u \in TaskIds : HeadsItsThread(e, u) <=> HeadsItsThread(d, u)
  BY <1>4, Zenon DEF HeadsItsThread
<1>6. \A x \in e.queueIndex : x[2] # 0 /\ CandidateOK(e, x)
  BY <1>1, <1>4, <1>5, IndexIds DEF CoreInv, CoreInvBut, ThreadInv, CandidateOK
<1>7. \A h \in ThreadIds : \A x \in e.threadedTasksIndex[h] : MemberOK(e, h, x)
  <2>1. \A h \in ThreadIds : \A x \in e.threadedTasksIndex[h] :
           x[2] \in TaskIds /\ x[2] # 0 /\ MemberOK(d, h, x)
    BY <1>1, IndexIds, RowFields DEF CoreInv, CoreInvBut, ThreadInv
  <2>2. SUFFICES ASSUME NEW h \in ThreadIds, NEW x \in e.threadedTasksIndex[h]
                 PROVE  MemberOK(e, h, x)
    OBVIOUS
  <2>3. x[2] \in TaskIds /\ MemberOK(d, h, x)
    BY <2>1
  <2>4. /\ e.tasks[x[2]].state = d.tasks[x[2]].state
        /\ e.tasks[x[2]].scheduledAt = d.tasks[x[2]].scheduledAt
        /\ e.tasks[x[2]].threadId = d.tasks[x[2]].threadId
    BY <2>3, <1>4
  <2>. QED
    BY <2>3, <2>4, Zenon DEF MemberOK, Exists, IsLive
<1>8. ThreadInv(e, 0)
  BY <1>4, <1>5, <1>6, <1>7, Zenon DEF CoreInv, CoreInvBut, ThreadInv
<1>9. \A x \in e.inProgressIndex : x[2] # 0 /\ LeaseOK(e, x)
  BY <1>1, <1>3, IndexIds, RowFields, SMTT(30) DEF CoreInv, CoreInvBut, LeaseOK
<1>10. \A u \in TaskIds : RowOK(e.tasks[u])
  <2>1. \A u \in TaskIds : u \in TaskIds \ {0}
    BY <1>1, RowFields
  <2>2. \A u \in TaskIds : RowOK(d.tasks[u])
    BY <2>1, Zenon DEF CoreInv, CoreInvBut
  <2>. QED
    BY <2>2, <1>4, Zenon DEF RowOK
<1>. QED
  BY <1>1, <1>4, <1>8, <1>9, <1>10 DEF CoreInv, CoreInvBut, SeqOK, Exists

\* A heartbeat moves the lease of an IN_PROGRESS task.
LEMMA HeartbeatInv ==
  ASSUME NEW d, CoreInv(d), NEW t \in TaskIds, NEW now \in Nat, NEW keepalive \in Nat,
         d.tasks[t].state = "IN_PROGRESS"
  PROVE  Good(d, heartbeatTask(d, t, now, keepalive))
<1> DEFINE task == d.tasks[t]
           at == now + keepalive
           row == [task EXCEPT !.visibleAt = at]
           p == (d.inProgressIndex \ {<<task.visibleAt, t>>}) \cup {<<at, t>>}
           e == [d EXCEPT !.tasks = [d.tasks EXCEPT ![t] = row], !.inProgressIndex = p]
<1>1. d \in Db /\ task \in Task /\ at \in Nat
  BY RowFields DEF CoreInv, CoreInvBut
<1>2. heartbeatTask(d, t, now, keepalive) \in {Fail(d), e}
  <2>1. d.tasks \in [TaskIds -> Task]
    BY <1>1 DEF Db
  <2>. QED
    BY <1>1, <2>1 DEF heartbeatTask, Db
<1>3. Good(d, Fail(d))
  BY FailSame DEF Good, CoreInv
<1>4. /\ row \in Task /\ row.visibleAt = at /\ row.state = task.state
      /\ row.scheduledAt = task.scheduledAt /\ row.threadId = task.threadId
      /\ row.attempts = task.attempts /\ row.retryIntervals = task.retryIntervals
  <2>. HIDE DEF task, at
  <2>. QED
    BY <1>1 DEF Task
<1>5. task = d.tasks[t]
  OBVIOUS
<1>6. p \in SUBSET Items
  <2>1. d.inProgressIndex \in SUBSET Items
    BY <1>1 DEF Db
  <2>. HIDE DEF at, task
  <2>. QED
    BY <1>1, <2>1, TimeItem
<1>. HIDE DEF task, at, row
<1>7. /\ e \in Db /\ e.tasks = [d.tasks EXCEPT ![t] = row] /\ e.inProgressIndex = p
      /\ e.queueIndex = d.queueIndex /\ e.threads = d.threads
      /\ e.threadedTasksIndex = d.threadedTasksIndex /\ e.queueState = d.queueState
      /\ e.err = d.err /\ e.purgeMarked = d.purgeMarked
  <2>. HIDE DEF p
  <2>. QED
    BY <1>1, <1>4, <1>6, ZenonT(30) DEF Db
<1>. HIDE DEF e
<1>8. \A x \in e.inProgressIndex : (x \in d.inProgressIndex /\ x[2] # t) \/ LeaseOK(e, x)
  <2>1. \A x \in d.inProgressIndex : x[2] = t => x = <<task.visibleAt, t>>
    BY <1>5, ItemsOfTask
  <2>2. d.tasks \in [TaskIds -> Task]
    BY <1>1 DEF Db
  <2>3. e.tasks[t] = row
    BY <2>2, <1>7
  <2>4. LeaseOK(e, <<at, t>>)
    BY <2>3, <1>4, <1>5 DEF LeaseOK
  <2>. QED
    BY <2>1, <2>4, <1>7
<1>9. CoreInv(e) /\ (SeqOK(d) => SeqOK(e))
  BY <1>4, <1>5, <1>7, <1>8, TouchRow, SMTT(30)
<1>10. Good(d, e)
  BY <1>7, <1>9 DEF Good
<1>. QED
  BY <1>2, <1>3, <1>10

\* Overwriting ExpiresAt concerns the expiration index only.
LEMMA OverwriteExpiresAtInv ==
  ASSUME NEW d, CoreInv(d), NEW t \in TaskIds, NEW expiresAt \in Nat,
         d.tasks[t].state = "ENQUEUED"
  PROVE  LET e == overwriteExpiresAt(d, t, expiresAt)
         IN  Good(d, e) /\ CoreInv(e) /\ e.tasks[t].state = "ENQUEUED"
<1> DEFINE task == d.tasks[t]
           row == [task EXCEPT !.expiresAt = expiresAt]
           x == (d.expiration \ {<<task.expiresAt, t>>}) \cup {<<expiresAt, t>>}
           f == [d EXCEPT !.tasks = [d.tasks EXCEPT ![t] = row], !.expiration = x]
           e == overwriteExpiresAt(d, t, expiresAt)
<1>1. d \in Db /\ task \in Task /\ d.tasks \in [TaskIds -> Task] /\ d.expiration \in SUBSET Items
  BY RowFields DEF CoreInv, CoreInvBut, Db
<1>2. e = f
  BY <1>1 DEF overwriteExpiresAt, Db
<1>3. /\ row \in Task /\ row.state = task.state /\ row.scheduledAt = task.scheduledAt
      /\ row.threadId = task.threadId /\ row.attempts = task.attempts
      /\ row.retryIntervals = task.retryIntervals
  <2>. HIDE DEF task
  <2>. QED
    BY <1>1, ZenonT(30) DEF Task
<1>4. x \in SUBSET Items
  <2>. HIDE DEF task
  <2>. QED
    BY <1>1, TimeItem
<1>. SUFFICES Good(d, e) /\ CoreInv(e) /\ e.tasks[t].state = "ENQUEUED"
  OBVIOUS
<1>5. task = d.tasks[t]
  OBVIOUS
<1>. HIDE DEF task, row, x, e
<1>6. /\ e \in Db /\ e.tasks = [d.tasks EXCEPT ![t] = row]
      /\ e.inProgressIndex = d.inProgressIndex
      /\ e.queueIndex = d.queueIndex /\ e.threads = d.threads
      /\ e.threadedTasksIndex = d.threadedTasksIndex /\ e.queueState = d.queueState
      /\ e.err = d.err /\ e.purgeMarked = d.purgeMarked
  BY <1>1, <1>2, <1>3, <1>4, ZenonT(30) DEF Db
<1>. HIDE DEF f
<1>7. \A y \in e.inProgressIndex : (y \in d.inProgressIndex /\ y[2] # t) \/ LeaseOK(e, y)
  BY <1>6, ItemsOfTask
<1>8. CoreInv(e) /\ (SeqOK(d) => SeqOK(e))
  BY <1>3, <1>5, <1>6, <1>7, TouchRow
<1>. QED
  BY <1>1, <1>3, <1>5, <1>6, <1>8 DEF Good

\* Without a thread, a new ScheduledAt moves the task inside queueIndex.
LEMMA OverwriteScheduledAtInv ==
  ASSUME NEW d, CoreInv(d), NEW t \in TaskIds, NEW scheduledAt \in Nat,
         d.tasks[t].state = "ENQUEUED", d.tasks[t].threadId = None
  PROVE  Good(d, overwriteScheduledAt(d, t, scheduledAt))
<1> DEFINE task == d.tasks[t]
           row == [task EXCEPT !.scheduledAt = scheduledAt]
           r == [d.tasks EXCEPT ![t] = row]
           without == d.queueIndex \ {<<task.scheduledAt, t>>}
           c == [d EXCEPT !.tasks = r, !.queueIndex = without]
           q == without \cup {<<scheduledAt, t>>}
           f == [d EXCEPT !.tasks = r, !.queueIndex = q]
           e == overwriteScheduledAt(d, t, scheduledAt)
<1>1. d \in Db /\ task \in Task /\ d.tasks \in [TaskIds -> Task] /\ d.queueIndex \in SUBSET Items
  BY RowFields DEF CoreInv, CoreInvBut, Db
<1>2. e = f
  BY <1>1 DEF overwriteScheduledAt, Db
<1>3. /\ row \in Task /\ row.state = task.state /\ row.scheduledAt = scheduledAt
      /\ row.threadId = task.threadId /\ row.attempts = task.attempts
      /\ row.retryIntervals = task.retryIntervals
  <2>. HIDE DEF task
  <2>. QED
    BY <1>1, ZenonT(30) DEF Task
<1>4. without \in SUBSET Items /\ q \in SUBSET Items /\ q = without \cup {<<scheduledAt, t>>}
  BY <1>1, TimeItem
<1>5. /\ task = d.tasks[t]
      /\ \A x \in without : x \in d.queueIndex /\ x[2] # t
  BY ItemsOfTask
<1>6. r \in [TaskIds -> Task] /\ r[t] = row /\ \A u \in TaskIds \ {t} : r[u] = d.tasks[u]
  <2>. HIDE DEF row
  <2>. QED
    BY <1>1, <1>3
<1>. HIDE DEF task, row, r, without, q, e
<1>7. /\ c \in Db /\ c.tasks = r /\ c.queueIndex = without
      /\ c.inProgressIndex = d.inProgressIndex
      /\ c.threads = d.threads /\ c.threadedTasksIndex = d.threadedTasksIndex
      /\ c.queueState = d.queueState /\ c.err = d.err /\ c.purgeMarked = d.purgeMarked
  BY <1>1, <1>4, <1>6, ZenonT(30) DEF Db
<1>8. /\ e \in Db /\ e.tasks = r /\ e.queueIndex = q
      /\ e.inProgressIndex = d.inProgressIndex
      /\ e.threads = d.threads /\ e.threadedTasksIndex = d.threadedTasksIndex
      /\ e.queueState = d.queueState /\ e.err = d.err /\ e.purgeMarked = d.purgeMarked
  BY <1>1, <1>2, <1>4, <1>6, ZenonT(30) DEF Db
<1>. HIDE DEF c, f
<1>9. CoreInvBut(c, t)
  <2>1. TakenOut(d, c, t)
    BY <1>5, <1>6, <1>7, ItemsOfTask, Zenon DEF TakenOut
  <2>. QED
    BY <2>1, TakeOut
<1>10. CoreInv(e)
  <2>1. CandidateOK(e, <<scheduledAt, t>>)
    BY <1>3, <1>5, <1>6, <1>8 DEF CandidateOK, HeadsItsThread
  <2>2. \A x \in e.queueIndex : x \in c.queueIndex \/ (x[2] = t /\ CandidateOK(e, x))
    BY <2>1, <1>4, <1>7, <1>8
  <2>3. RowOK(d.tasks[t])
    BY RowFields DEF CoreInv, CoreInvBut
  <2>4. RowOK(e.tasks[t]) /\ e.tasks[t].state # "IN_PROGRESS"
    BY <2>3, <1>3, <1>5, <1>6, <1>8 DEF RowOK
  <2>5. \A h \in ThreadIds : \A x \in e.threadedTasksIndex[h] : x[2] # t
    BY <1>8, ItemsOfTask, TablesAssumption DEF Exists
  <2>. QED
    BY <2>2, <2>4, <2>5, <1>6, <1>7, <1>8, <1>9, PutBack, ZenonT(30)
<1>11. SeqOK(d) => SeqOK(e)
  BY <1>3, <1>5, <1>6, <1>8 DEF SeqOK, Exists
<1>12. Good(d, e)
  BY <1>8, <1>10, <1>11 DEF Good
<1>. QED
  BY <1>12 DEF e

\* A duplicate enqueue, when it does not move a threaded task.
LEMMA OverwriteDuplicateInv ==
  ASSUME NEW d, CoreInv(d), NEW t \in TaskIds, NEW fields,
         NEW scheduledAt \in Nat, NEW expiresAt \in Nat,
         ThreadIds = {} \/ "SCHEDULED_AT" \notin fields
  PROVE  Good(d, overwriteDuplicate(d, t, fields, scheduledAt, expiresAt))
<1> DEFINE d1 == IF "EXPIRES_AT" \in fields THEN overwriteExpiresAt(d, t, expiresAt) ELSE d
           d2 == IF "SCHEDULED_AT" \in fields THEN overwriteScheduledAt(d1, t, scheduledAt)
                 ELSE d1
           e == overwriteDuplicate(d, t, fields, scheduledAt, expiresAt)
<1>1. e \in {d, Fail(d)} \/ (d.tasks[t].state = "ENQUEUED" /\ e = d2)
  <2>. HIDE DEF d1, d2
  <2>1. fields = {} => e = d
    BY DEF overwriteDuplicate
  <2>2. fields # {} /\ ~Exists(d, t) => e = Fail(d)
    BY DEF overwriteDuplicate, Exists
  <2>3. fields # {} /\ d.tasks[t].state = "ENQUEUED" => e = d2
    BY DEF overwriteDuplicate, Exists, d1, d2
  <2>4. fields # {} /\ Exists(d, t) /\ d.tasks[t].state # "ENQUEUED" => e = d
    BY DEF overwriteDuplicate
  <2>. QED
    BY <2>1, <2>2, <2>3, <2>4
<1>2. Good(d, d) /\ Good(d, Fail(d))
  BY FailSame, Zenon DEF Good, CoreInv, CoreInvBut
<1>3. ASSUME d.tasks[t].state = "ENQUEUED" PROVE Good(d, d2)
  <2>1. Good(d, d1) /\ CoreInv(d1) /\ d1.tasks[t].state = "ENQUEUED"
    BY <1>2, <1>3, OverwriteExpiresAtInv
  <2>. HIDE DEF d1
  <2>2. CASE "SCHEDULED_AT" \notin fields
    BY <2>1, <2>2
  <2>3. CASE "SCHEDULED_AT" \in fields
    <3>1. d1.tasks[t].threadId = None
      BY <2>1, <2>3, RowFields DEF CoreInv, CoreInvBut
    <3>2. Good(d1, d2)
      BY <2>1, <2>3, <3>1, OverwriteScheduledAtInv
    <3>. HIDE DEF d2
    <3>. QED
      BY <2>1, <3>2, GoodTrans
  <2>. QED
    BY <2>2, <2>3
<1>. HIDE DEF d2, e
<1>4. Good(d, e)
  BY <1>1, <1>2, <1>3
<1>. QED
  BY <1>4 DEF e
===============================================================================
