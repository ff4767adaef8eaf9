--------------------------- MODULE ThreadHeadsProofs --------------------------
(***************************************************************************)
(* The thread helpers keep the coupling of queueIndex, the thread rows and *)
(* threadedTasksIndex that core.go states above them: only a thread's head *)
(* is a candidate of Dequeue, and an IN_PROGRESS task heads its thread.    *)
(***************************************************************************)
EXTENDS ThreadHeads, TaskTablesProofs

HeadsItsThread(d, t) ==
    d.tasks[t].threadId # None => d.threads[d.tasks[t].threadId].head = t

CandidateOK(d, x) ==
    /\ d.tasks[x[2]].state = "ENQUEUED"
    /\ d.tasks[x[2]].scheduledAt = x[1]
    /\ HeadsItsThread(d, x[2])

MemberOK(d, h, x) ==
    Exists(d, x[2]) => /\ IsLive(d, x[2])
                       /\ d.tasks[x[2]].threadId = h
                       /\ d.tasks[x[2]].scheduledAt = x[1]

\* The coupling, but for a task `out` that is entering or leaving its thread
\* in the middle of a call; 0 is no task.
ThreadInv(d, out) ==
    /\ \A x \in d.queueIndex : x[2] # out /\ CandidateOK(d, x)
    /\ \A t \in TaskIds \ {out} : d.tasks[t].state = "IN_PROGRESS" => HeadsItsThread(d, t)
    /\ \A h \in ThreadIds : \A x \in d.threadedTasksIndex[h] :
          x[2] # out => MemberOK(d, h, x)
    /\ \A h \in ThreadIds : d.threads[h] # NoThread => d.threads[h].head # 0

\* What the thread helpers leave alone.
SameRows(d, e) ==
    /\ e \in Db
    /\ e.tasks = d.tasks /\ e.dedupeKeysIndex = d.dedupeKeysIndex
    /\ e.inProgressIndex = d.inProgressIndex /\ e.deadTasksIndex = d.deadTasksIndex
    /\ e.expiration = d.expiration /\ e.counters = d.counters
    /\ e.queueState = d.queueState /\ e.rateLimiter = d.rateLimiter
    /\ e.purgeMarked = d.purgeMarked
    /\ d.err => e.err

\* The members a helper may leave in the thread indexes: those it found, and t.
MembersWithin(d, e, t) ==
    \A h \in ThreadIds : \A x \in e.threadedTasksIndex[h] :
        x \in d.threadedTasksIndex[h] \/ x[2] = t

\* What the coupling is about.
SameThreads(d, e) ==
    /\ e.tasks = d.tasks /\ e.queueIndex = d.queueIndex
    /\ e.threads = d.threads /\ e.threadedTasksIndex = d.threadedTasksIndex

\* The coupling depends only on the rows, queueIndex and the thread tables.
LEMMA SameThreadsInv ==
  ASSUME NEW d, NEW e, NEW out, SameThreads(d, e), ThreadInv(d, out)
  PROVE  ThreadInv(e, out)
<1>1. \A t : HeadsItsThread(e, t) <=> HeadsItsThread(d, t)
  BY DEF SameThreads, HeadsItsThread
<1>2. \A x : CandidateOK(e, x) <=> CandidateOK(d, x)
  BY <1>1 DEF SameThreads, CandidateOK
<1>3. \A h, x : MemberOK(e, h, x) <=> MemberOK(d, h, x)
  BY DEF SameThreads, MemberOK, Exists, IsLive
<1>. QED
  BY <1>1, <1>2, <1>3 DEF SameThreads, ThreadInv

\* The types of the fields of a task row.
LEMMA TaskFields ==
  ASSUME NEW r \in Task
  PROVE  /\ r.threadId \in ThreadIds \cup {None} /\ r.dedupeKey \in DedupeKeys \cup {None}
         /\ r.state \in TaskStates \cup {"ABSENT"}
         /\ r.scheduledAt \in Nat /\ r.expiresAt \in Nat /\ r.visibleAt \in Nat
         /\ r.lastFailedAt \in Nat /\ r.attempts \in Nat
         /\ r.retryIntervals \in RetryStrategies \cup {<< >>}
<1>1. r.threadId \in ThreadIds \cup {None}
  BY DEF Task
<1>2. r.dedupeKey \in DedupeKeys \cup {None}
  BY DEF Task
<1>3. r.state \in TaskStates \cup {"ABSENT"}
  BY DEF Task
<1>4. /\ r.scheduledAt \in Nat /\ r.expiresAt \in Nat /\ r.visibleAt \in Nat
      /\ r.lastFailedAt \in Nat /\ r.attempts \in Nat
  BY DEF Task
<1>5. r.retryIntervals \in RetryStrategies \cup {<< >>}
  BY DEF Task
<1>. QED
  BY <1>1, <1>2, <1>3, <1>4, <1>5

\* The types of the fields of a stored row, and 0 is no task id.
LEMMA RowFields ==
  ASSUME NEW d \in Db, NEW t \in TaskIds
  PROVE  /\ d.tasks[t] \in Task
         /\ d.tasks[t].threadId \in ThreadIds \cup {None}
         /\ d.tasks[t].scheduledAt \in Nat
         /\ t # 0
<1>1. d.tasks \in [TaskIds -> Task]
  BY DEF Db
<1>2. d.tasks[t] \in Task
  BY <1>1
<1>3. t # 0
  BY DEF TaskIds
<1>. QED
  BY <1>2, <1>3, TaskFields

\* Fail raises the error and changes nothing else.
LEMMA FailRows ==
  ASSUME NEW d \in Db
  PROVE  SameRows(d, Fail(d)) /\ Fail(d).err /\ SameThreads(d, Fail(d))
BY ZenonT(30) DEF Db, Fail, SameRows, SameThreads

\* SetHead changes the thread row and queueIndex only.
LEMMA SetHeadRows ==
  ASSUME NEW d \in Db, NEW h \in ThreadIds, NEW t \in TaskIds
  PROVE  LET e == SetHead(d, h, t)
         IN  /\ SameRows(d, e)
             /\ e.err = d.err
             /\ e.threadedTasksIndex = d.threadedTasksIndex
             /\ e.queueIndex = d.queueIndex \cup {<<d.tasks[t].scheduledAt, t>>}
             /\ e.threads[h].head = t
             /\ \A g \in ThreadIds \ {h} : e.threads[g] = d.threads[g]
<1>1. d.tasks[t].scheduledAt \in Nat
  BY DEF Db, Task
<1>2. [head |-> t, scheduledAt |-> d.tasks[t].scheduledAt] \in Thread
  BY <1>1 DEF Thread
<1>3. <<d.tasks[t].scheduledAt, t>> \in Items
  BY <1>1 DEF Items
<1>. QED
  BY <1>2, <1>3, ZenonT(30) DEF Db, SetHead, SameRows

\* AddToThreadIndex changes one thread's index only.
LEMMA AddRows ==
  ASSUME NEW d \in Db, NEW h \in ThreadIds, NEW x \in Items
  PROVE  LET a == AddToThreadIndex(d, h, x)
         IN  /\ SameRows(d, a)
             /\ a.queueIndex = d.queueIndex /\ a.threads = d.threads
             /\ a.threadedTasksIndex[h] = d.threadedTasksIndex[h] \cup {x}
             /\ \A g \in ThreadIds \ {h} : a.threadedTasksIndex[g] = d.threadedTasksIndex[g]
BY Zenon DEF Db, AddToThreadIndex, SameRows

\* RemoveFromThreadIndex changes one thread's index only.
LEMMA RemoveRows ==
  ASSUME NEW d \in Db, NEW h \in ThreadIds, NEW x \in Items
  PROVE  LET r == RemoveFromThreadIndex(d, h, x)
         IN  /\ SameRows(d, r)
             /\ r.queueIndex = d.queueIndex /\ r.threads = d.threads
             /\ r.threadedTasksIndex[h] = d.threadedTasksIndex[h] \ {x}
             /\ \A g \in ThreadIds \ {h} : r.threadedTasksIndex[g] = d.threadedTasksIndex[g]
BY Zenon DEF Db, RemoveFromThreadIndex, SameRows

\* The head of a non-empty thread index is a task id.
LEMMA EarliestMember ==
  ASSUME NEW d \in Db, NEW h \in ThreadIds, d.threadedTasksIndex[h] # {}
  PROVE  /\ First(d.threadedTasksIndex[h]) \in d.threadedTasksIndex[h]
         /\ First(d.threadedTasksIndex[h])[2] \in TaskIds
<1>1. d.threadedTasksIndex[h] \in SUBSET Items
  BY DEF Db
<1>2. First(d.threadedTasksIndex[h]) \in d.threadedTasksIndex[h]
  BY <1>1, FirstInIndex
<1>. QED
  BY <1>1, <1>2 DEF Items

\* reconcileThreadHead keeps the coupling: when it takes the headship from an
\* ENQUEUED task it also takes that task out of queueIndex.
LEMMA ReconcileInv ==
  ASSUME NEW d \in Db, NEW h \in ThreadIds,
         d.threads[h] # NoThread, d.threadedTasksIndex[h] # {}, ThreadInv(d, 0)
  PROVE  LET e == reconcileThreadHead(d, h)
         IN  /\ SameRows(d, e)
             /\ e.threadedTasksIndex = d.threadedTasksIndex
             /\ ThreadInv(e, 0)
<1> DEFINE thread == d.threads[h]
           head == thread.head
           first == First(d.threadedTasksIndex[h])
           earliest == first[2]
           at == d.tasks[earliest].scheduledAt
           e == reconcileThreadHead(d, h)
<1>. SUFFICES SameRows(d, e) /\ e.threadedTasksIndex = d.threadedTasksIndex /\ ThreadInv(e, 0)
  OBVIOUS
<1>1. /\ first \in d.threadedTasksIndex[h] /\ earliest \in TaskIds
  BY EarliestMember
<1>2. /\ head \in TaskIds /\ thread.scheduledAt \in Nat /\ at \in Nat
      /\ thread = [head |-> head, scheduledAt |-> thread.scheduledAt]
  BY <1>1 DEF ThreadInv, Db, Thread, Task
<1>. 0 \notin TaskIds
  BY DEF TaskIds
<1>3. Exists(d, earliest) => /\ IsLive(d, earliest)
                             /\ d.tasks[earliest].threadId = h
  BY <1>1 DEF ThreadInv, MemberOK
<1>. /\ thread = d.threads[h] /\ head = d.threads[h].head
      /\ at = d.tasks[earliest].scheduledAt
  OBVIOUS
<1>. HIDE DEF thread, head, first, earliest, at, e
<1>4. CASE e = Fail(d)
  BY <1>4, FailRows, SameThreadsInv DEF SameThreads
<1>5. CASE e = d
  BY <1>5 DEF SameRows
<1>6. CASE /\ Exists(d, head) /\ earliest = head /\ thread.scheduledAt # at
           /\ e = [d EXCEPT !.threads[h].scheduledAt = at,
                            !.queueIndex =
                               IF d.tasks[head].state = "ENQUEUED"
                               THEN (@ \ {<<thread.scheduledAt, head>>}) \cup {<<at, head>>}
                               ELSE @]
  <2>1. <<at, head>> \in Items
    BY <1>2 DEF Items
  <2>2. e \in Db
    BY <1>6, <1>2, <2>1, ZenonT(60) DEF Db, Thread
  <2>3. SameRows(d, e) /\ e.threadedTasksIndex = d.threadedTasksIndex
    BY <1>6, <2>2, ZenonT(30) DEF SameRows, Db
  <2>4. \A g \in ThreadIds : e.threads[g].head = d.threads[g].head
    BY <1>6, <1>2, ZenonT(30) DEF Db, Thread
  <2>5. \A x \in e.queueIndex : x \in d.queueIndex
                                   \/ (x = <<at, head>> /\ d.tasks[head].state = "ENQUEUED")
    BY <1>6, ZenonT(30) DEF Db
  <2>6. \A t \in TaskIds : HeadsItsThread(d, t) => HeadsItsThread(e, t)
    <3>1. SUFFICES ASSUME NEW t \in TaskIds, HeadsItsThread(d, t) PROVE HeadsItsThread(e, t)
      OBVIOUS
    <3>2. d.tasks[t].threadId \in ThreadIds \cup {None} /\ e.tasks = d.tasks
      BY <2>3, RowFields DEF SameRows
    <3>. QED
      BY <3>1, <3>2, <2>4 DEF HeadsItsThread
  <2>7. \A x \in e.queueIndex : x[2] # 0 /\ CandidateOK(e, x)
    <3>1. SUFFICES ASSUME NEW x \in e.queueIndex PROVE x[2] # 0 /\ CandidateOK(e, x)
      OBVIOUS
    <3>2. x[2] \in TaskIds
      BY <2>2 DEF Db, Items
    <3>3. CASE x \in d.queueIndex
      BY <3>2, <3>3, <2>3, <2>6 DEF ThreadInv, CandidateOK, SameRows
    <3>4. CASE x = <<at, head>> /\ d.tasks[head].state = "ENQUEUED"
      <4>1. x[1] = at /\ x[2] = head /\ e.tasks = d.tasks /\ d.tasks[head].threadId = h
        BY <3>4, <1>3, <1>6, <2>3, ZenonT(30) DEF SameRows
      <4>2. e.threads[h].head = head
        BY <2>4
      <4>. QED
        BY <4>1, <4>2, <3>2, <3>4, <1>6, ZenonT(30) DEF CandidateOK, HeadsItsThread
    <3>. QED
      BY <2>5, <3>3, <3>4
  <2>8. \A g \in ThreadIds : e.threads[g] # NoThread => e.threads[g].head # 0
    BY <1>6, <1>2, <2>4, ZenonT(30) DEF ThreadInv, Db, Thread, NoThread
  <2>. QED
    BY <2>3, <2>6, <2>7, <2>8 DEF ThreadInv, MemberOK, SameRows, Exists, IsLive
<1>7. CASE /\ Exists(d, earliest) /\ earliest # head /\ d.tasks[head].state = "ENQUEUED"
           /\ e = SetHead([d EXCEPT !.queueIndex = @ \ {<<d.tasks[head].scheduledAt, head>>}],
                          h, earliest)
  <2> DEFINE c == [d EXCEPT !.queueIndex = @ \ {<<d.tasks[head].scheduledAt, head>>}]
  <2>1. /\ c \in Db /\ SameRows(d, c) /\ c.threads = d.threads
        /\ c.threadedTasksIndex = d.threadedTasksIndex
        /\ c.queueIndex = d.queueIndex \ {<<d.tasks[head].scheduledAt, head>>}
    BY ZenonT(30) DEF Db, SameRows
  <2>2. /\ SameRows(c, e) /\ e.threadedTasksIndex = c.threadedTasksIndex
        /\ e.queueIndex = c.queueIndex \cup {<<at, earliest>>}
        /\ e.threads[h].head = earliest
        /\ \A g \in ThreadIds \ {h} : e.threads[g] = d.threads[g]
    <3>1. e = SetHead(c, h, earliest)
      BY <1>7
    <3>. HIDE DEF c
    <3>. QED
      BY <3>1, <2>1, <1>1, SetHeadRows, SMTT(30) DEF SameRows
  <2>3. SameRows(d, e) /\ e.tasks = d.tasks
    BY <2>1, <2>2, Zenon DEF SameRows
  <2>. HIDE DEF c
  <2>4. d.tasks[earliest].state = "ENQUEUED"
    BY <1>1, <1>3, <1>7, TablesAssumption, Zenon DEF ThreadInv, HeadsItsThread, IsLive
  <2>5. \A x \in d.queueIndex : x[2] \in TaskIds /\ x = <<x[1], x[2]>>
    BY DEF Db, Items
  <2>6. ASSUME NEW x \in e.queueIndex PROVE x[2] # 0 /\ CandidateOK(e, x)
    <3>1. CASE x = <<at, earliest>>
      BY <3>1, <1>1, <1>3, <1>7, <2>2, <2>3, <2>4, ZenonT(30) DEF CandidateOK, HeadsItsThread
    <3>2. CASE x # <<at, earliest>>
      <4>1. x \in d.queueIndex /\ x # <<d.tasks[head].scheduledAt, head>>
        BY <3>2, <2>1, <2>2, ZenonT(30)
      <4>2. CandidateOK(d, x) /\ x[2] # head
        BY <4>1, <2>5 DEF ThreadInv, CandidateOK
      <4>3. d.tasks[x[2]].threadId # h
        BY <4>2, TablesAssumption DEF CandidateOK, HeadsItsThread
      <4>. QED
        BY <4>1, <4>2, <4>3, <2>2, <2>3, <2>5, RowFields, ZenonT(30) DEF CandidateOK, HeadsItsThread
    <3>. QED
      BY <3>1, <3>2
  <2>7. ASSUME NEW t \in TaskIds, e.tasks[t].state = "IN_PROGRESS" PROVE HeadsItsThread(e, t)
    <3>1. HeadsItsThread(d, t) /\ d.tasks[t].threadId # h
      BY <2>3, <2>7, <1>7, TablesAssumption, ZenonT(30) DEF ThreadInv, HeadsItsThread
    <3>. QED
      BY <3>1, <2>2, <2>3, RowFields DEF HeadsItsThread
  <2>8. ASSUME NEW g \in ThreadIds, e.threads[g] # NoThread PROVE e.threads[g].head # 0
    BY <2>8, <2>2, <1>1 DEF ThreadInv, Db
  <2>. QED
    BY <2>1, <2>2, <2>3, <2>6, <2>7, <2>8, SMTT(30) DEF ThreadInv, MemberOK, Exists, IsLive
<1>. QED
  <2>. USE DEF reconcileThreadHead, thread, head, first, earliest, at, e
  <2>1. ~Exists(d, earliest) \/ ~Exists(d, head) => e = Fail(d)
    <3>1. d.tasks[head].state = "ENQUEUED" => Exists(d, head)
      BY DEF Exists
    <3>2. ~Exists(d, earliest) => e = Fail(d)
      BY Zenon, ZenonT(30)
    <3>3. ~Exists(d, head) => e = Fail(d)
      BY Zenon, <3>1, ZenonT(30)
    <3>. QED
      BY <3>2, <3>3, ZenonT(30)
  <2>2. CASE Exists(d, earliest) /\ Exists(d, head) /\ earliest = head
    <3>1. thread.scheduledAt = at => e = d
      BY Zenon, <2>2, ZenonT(30)
    <3>2. thread.scheduledAt # at =>
              e = [d EXCEPT !.threads[h].scheduledAt = at,
                            !.queueIndex =
                               IF d.tasks[head].state = "ENQUEUED"
                               THEN (@ \ {<<thread.scheduledAt, head>>}) \cup {<<at, head>>}
                               ELSE @]
      BY Zenon, <2>2, ZenonT(30)
    <3>. HIDE DEF thread, head, first, earliest, at, e
    <3>. QED
      BY <3>1, <3>2, <2>2, <1>5, <1>6, Zenon
  <2>3. CASE Exists(d, earliest) /\ Exists(d, head) /\ earliest # head
    <3>1. d.tasks[head].state = "ENQUEUED" =>
              e = SetHead([d EXCEPT !.queueIndex = @ \ {<<d.tasks[head].scheduledAt, head>>}],
                          h, earliest)
      BY Zenon, <2>3, ZenonT(30)
    <3>2. d.tasks[head].state # "ENQUEUED" => e = d
      BY Zenon, <2>3, ZenonT(30)
    <3>. HIDE DEF thread, head, first, earliest, at, e
    <3>. QED
      BY <3>1, <3>2, <2>3, <1>5, <1>7, Zenon
  <2>. HIDE DEF thread, head, first, earliest, at, e
  <2>. QED
    BY <2>1, <2>2, <2>3, <1>4

\* A task that has just become ENQUEUED enters its thread.
LEMMA AttachInv ==
  ASSUME NEW d \in Db, NEW t \in TaskIds,
         d.tasks[t].state = "ENQUEUED", d.tasks[t].threadId # None, ThreadInv(d, t),
         \A h \in ThreadIds : \A x \in d.threadedTasksIndex[h] : x[2] # t
  PROVE  LET e == attachTaskToThread(d, t)
         IN  /\ SameRows(d, e) /\ MembersWithin(d, e, t) /\ ThreadInv(e, 0)
<1> DEFINE h == d.tasks[t].threadId
           item == <<d.tasks[t].scheduledAt, t>>
           d1 == AddToThreadIndex(d, h, item)
           e == attachTaskToThread(d, t)
<1>1. h \in ThreadIds /\ item \in Items /\ t # 0
  BY RowFields DEF Items
<1>2. /\ SameRows(d, d1) /\ d1.queueIndex = d.queueIndex /\ d1.threads = d.threads
      /\ d1.threadedTasksIndex[h] = d.threadedTasksIndex[h] \cup {item}
      /\ \A g \in ThreadIds \ {h} : d1.threadedTasksIndex[g] = d.threadedTasksIndex[g]
  <2>. HIDE DEF h, item
  <2>. QED
    BY <1>1, AddRows
<1>3. /\ d1 \in Db /\ d1.tasks = d.tasks
      /\ \A g \in ThreadIds : \A x \in d1.threadedTasksIndex[g] :
            x \in d.threadedTasksIndex[g] \/ (x = item /\ g = h)
      /\ item \in d1.threadedTasksIndex[h]
  BY <1>1, <1>2, ZenonT(30) DEF SameRows
<1>4. e = IF d.threads[h] = NoThread THEN SetHead(d1, h, t) ELSE reconcileThreadHead(d1, h)
  BY DEF attachTaskToThread
<1>5. item[1] = d.tasks[t].scheduledAt /\ item[2] = t /\ d.tasks[t].threadId = h
  OBVIOUS
<1>. SUFFICES SameRows(d, e) /\ MembersWithin(d, e, t) /\ ThreadInv(e, 0)
  OBVIOUS
<1>. HIDE DEF h, item, d1, e
<1>6. \A g \in ThreadIds : \A x \in d1.threadedTasksIndex[g] : MemberOK(d1, g, x)
  BY <1>3, <1>5 DEF ThreadInv, MemberOK, Exists, IsLive
<1>7. ASSUME NEW x \in d1.queueIndex
      PROVE  x[2] \in TaskIds /\ x[2] # 0 /\ x[2] # t /\ CandidateOK(d1, x)
  <2>1. d1.queueIndex \in SUBSET Items
    BY <1>3 DEF Db
  <2>2. x[2] \in TaskIds
    BY <2>1 DEF Items
  <2>. QED
    BY <2>2, <1>2, <1>3, RowFields, ZenonT(30) DEF ThreadInv, CandidateOK, HeadsItsThread
<1>8. ASSUME NEW u \in TaskIds, d1.tasks[u].state = "IN_PROGRESS" PROVE HeadsItsThread(d1, u)
  BY <1>8, <1>2, <1>3 DEF ThreadInv, HeadsItsThread
<1>9. CASE d.threads[h] # NoThread
  <2>1. ThreadInv(d1, 0)
    BY <1>2, <1>6, <1>7, <1>8 DEF ThreadInv
  <2>2. e = reconcileThreadHead(d1, h)
    BY <1>4, <1>9
  <2>3. d1.threads[h] # NoThread /\ d1.threadedTasksIndex[h] # {}
    BY <1>2, <1>3, <1>9
  <2>4. SameRows(d1, e) /\ e.threadedTasksIndex = d1.threadedTasksIndex /\ ThreadInv(e, 0)
    BY <1>1, <1>3, <2>1, <2>2, <2>3, ReconcileInv
  <2>. QED
    BY <1>2, <1>3, <1>5, <2>4 DEF SameRows, MembersWithin
<1>10. CASE d.threads[h] = NoThread
  <2>1. /\ SameRows(d1, e) /\ e.threadedTasksIndex = d1.threadedTasksIndex
        /\ e.queueIndex = d1.queueIndex \cup {item}
        /\ e.threads[h].head = t
        /\ \A g \in ThreadIds \ {h} : e.threads[g] = d1.threads[g]
    <3>1. e = SetHead(d1, h, t) /\ item = <<d1.tasks[t].scheduledAt, t>>
      BY <1>3, <1>4, <1>10 DEF item
    <3>. QED
      BY <1>1, <1>3, <3>1, SetHeadRows
  <2>2. e.tasks = d1.tasks /\ SameRows(d, e) /\ MembersWithin(d, e, t)
    BY <2>1, <1>2, <1>3, <1>5 DEF SameRows, MembersWithin
  <2>4. \A u \in TaskIds : HeadsItsThread(d1, u) => d1.tasks[u].threadId # h
    BY <1>1, <1>2, <1>3, <1>10, TablesAssumption, RowFields DEF HeadsItsThread, NoThread
  <2>5. \A u \in TaskIds : HeadsItsThread(d1, u) => HeadsItsThread(e, u)
    <3>1. SUFFICES ASSUME NEW u \in TaskIds, HeadsItsThread(d1, u) PROVE HeadsItsThread(e, u)
      OBVIOUS
    <3>2. d1.tasks[u].threadId # h /\ d1.tasks[u].threadId \in ThreadIds \cup {None}
      BY <3>1, <2>4, <1>3, RowFields
    <3>. QED
      BY <3>1, <3>2, <2>1, <2>2 DEF HeadsItsThread
  <2>6. ASSUME NEW x \in e.queueIndex PROVE x[2] # 0 /\ CandidateOK(e, x)
    <3>1. CASE x \in d1.queueIndex
      BY <3>1, <1>7, <2>2, <2>5 DEF CandidateOK
    <3>2. CASE x = item
      BY <3>2, <1>1, <1>3, <1>5, <2>1, <2>2 DEF CandidateOK, HeadsItsThread
    <3>. QED
      BY <3>1, <3>2, <2>1
  <2>7. ASSUME NEW u \in TaskIds, e.tasks[u].state = "IN_PROGRESS" PROVE HeadsItsThread(e, u)
    BY <2>7, <2>2, <2>5, <1>8
  <2>8. ASSUME NEW g \in ThreadIds, e.threads[g] # NoThread PROVE e.threads[g].head # 0
    BY <2>8, <2>1, <1>1, <1>2 DEF ThreadInv
  <2>9. \A g \in ThreadIds : \A x \in e.threadedTasksIndex[g] : MemberOK(e, g, x)
    BY <2>1, <2>2, <1>6 DEF MemberOK, Exists, IsLive
  <2>. QED
    BY <2>2, <2>6, <2>7, <2>8, <2>9 DEF ThreadInv
<1>. QED
  BY <1>9, <1>10

\* The members of h that are left behind by its head t: the earliest takes over.
LEMMA PromoteInv ==
  ASSUME NEW d \in Db, NEW h \in ThreadIds, NEW t \in TaskIds,
         d.threads[h].head = t, ThreadInv(d, t), \A x \in d.threadedTasksIndex[h] : x[2] # t
  PROVE  LET e == promoteNextThreadHead(d, h)
         IN  /\ SameRows(d, e) /\ e.threadedTasksIndex = d.threadedTasksIndex
             /\ ThreadInv(e, t)
<1> DEFINE first == First(d.threadedTasksIndex[h])
           next == first[2]
           e == promoteNextThreadHead(d, h)
<1>1. /\ d.threadedTasksIndex[h] = {} => e = [d EXCEPT !.threads[h] = NoThread]
      /\ d.threadedTasksIndex[h] # {} /\ ~Exists(d, next) => e = Fail(d)
      /\ d.threadedTasksIndex[h] # {} /\ Exists(d, next) => e = SetHead(d, h, next)
  BY Zenon, ZenonT(30) DEF promoteNextThreadHead
<1>2. d.threadedTasksIndex[h] # {} => first \in d.threadedTasksIndex[h] /\ next \in TaskIds
  BY EarliestMember
<1>. SUFFICES SameRows(d, e) /\ e.threadedTasksIndex = d.threadedTasksIndex /\ ThreadInv(e, t)
  OBVIOUS
<1>3. next = first[2]
  OBVIOUS
<1>. HIDE DEF first, next, e
<1>4. /\ \A x \in d.queueIndex : x[2] \in TaskIds
      /\ \A u \in TaskIds : d.tasks[u].threadId \in ThreadIds \cup {None} /\ u # 0
  <2>1. d.queueIndex \in SUBSET Items
    BY DEF Db
  <2>. QED
    BY <2>1, RowFields DEF Items
<1>5. ASSUME NEW u \in TaskIds \ {t}, HeadsItsThread(d, u) PROVE d.tasks[u].threadId # h
  BY <1>5, TablesAssumption DEF HeadsItsThread
<1>6. ASSUME SameRows(d, e), e.threadedTasksIndex = d.threadedTasksIndex,
             \A g \in ThreadIds \ {h} : e.threads[g] = d.threads[g],
             e.threads[h] # NoThread => e.threads[h].head # 0,
             \A x \in e.queueIndex : x \in d.queueIndex \/ (x[2] # t /\ CandidateOK(e, x))
      PROVE  ThreadInv(e, t)
  <2>1. e.tasks = d.tasks
    BY <1>6 DEF SameRows
  <2>2. ASSUME NEW u \in TaskIds \ {t}, HeadsItsThread(d, u) PROVE HeadsItsThread(e, u)
    BY <2>1, <2>2, <1>4, <1>5, <1>6 DEF HeadsItsThread
  <2>3. ASSUME NEW x \in e.queueIndex PROVE x[2] # t /\ CandidateOK(e, x)
    BY <2>1, <2>2, <1>4, <1>6 DEF ThreadInv, CandidateOK
  <2>4. \A g \in ThreadIds : \A x \in e.threadedTasksIndex[g] : x[2] # t => MemberOK(e, g, x)
    BY <2>1, <1>6 DEF ThreadInv, MemberOK, Exists, IsLive
  <2>. QED
    BY <2>1, <2>2, <2>3, <2>4, <1>6 DEF ThreadInv
<1>7. CASE d.threadedTasksIndex[h] = {}
  <2>1. e = [d EXCEPT !.threads[h] = NoThread]
    BY <1>1, <1>7
  <2>2. NoThread \in Thread
    BY DEF NoThread, Thread
  <2>3. /\ SameRows(d, e) /\ e.threadedTasksIndex = d.threadedTasksIndex
        /\ e.queueIndex = d.queueIndex /\ e.threads[h] = NoThread
        /\ \A g \in ThreadIds \ {h} : e.threads[g] = d.threads[g]
    BY <2>1, <2>2 DEF SameRows, Db
  <2>. QED
    BY <2>3, <1>6
<1>8. CASE d.threadedTasksIndex[h] # {} /\ ~Exists(d, next)
  BY <1>1, <1>8, FailRows, SameThreadsInv DEF SameThreads
<1>9. CASE d.threadedTasksIndex[h] # {} /\ Exists(d, next)
  <2>1. e = SetHead(d, h, next) /\ next \in TaskIds
    BY <1>1, <1>2, <1>9
  <2>2. /\ SameRows(d, e) /\ e.threadedTasksIndex = d.threadedTasksIndex
        /\ e.queueIndex = d.queueIndex \cup {<<d.tasks[next].scheduledAt, next>>}
        /\ e.threads[h].head = next
        /\ \A g \in ThreadIds \ {h} : e.threads[g] = d.threads[g]
    BY <2>1, SetHeadRows
  <2>3. next # t /\ IsLive(d, next) /\ d.tasks[next].threadId = h
    BY <1>2, <1>3, <1>9 DEF ThreadInv, MemberOK
  <2>4. d.tasks[next].state = "ENQUEUED" /\ e.tasks = d.tasks
    BY <2>1, <2>2, <2>3, <1>5 DEF ThreadInv, IsLive, SameRows
  <2>5. CandidateOK(e, <<d.tasks[next].scheduledAt, next>>)
    BY <2>2, <2>3, <2>4 DEF CandidateOK, HeadsItsThread
  <2>. QED
    BY <2>1, <2>2, <2>3, <2>5, <1>4, <1>6
<1>. QED
  BY <1>7, <1>8, <1>9

\* A task leaves its thread, and takes its member item along unless the call fails.
LEMMA DetachInv ==
  ASSUME NEW d \in Db, NEW t \in TaskIds, d.tasks[t].threadId # None, ThreadInv(d, t),
         \A h \in ThreadIds : \A x \in d.threadedTasksIndex[h] :
             x[2] = t => h = d.tasks[t].threadId /\ x = <<d.tasks[t].scheduledAt, t>>
  PROVE  LET e == detachTaskFromThread(d, t)
         IN  /\ SameRows(d, e) /\ MembersWithin(d, e, t) /\ ThreadInv(e, t)
             /\ e.err \/ \A h \in ThreadIds : \A x \in e.threadedTasksIndex[h] : x[2] # t
<1> DEFINE h == d.tasks[t].threadId
           item == <<d.tasks[t].scheduledAt, t>>
           d1 == RemoveFromThreadIndex(d, h, item)
           e == detachTaskFromThread(d, t)
<1>1. h \in ThreadIds /\ item \in Items
  BY RowFields DEF Items
<1>2. /\ SameRows(d, d1) /\ d1.queueIndex = d.queueIndex /\ d1.threads = d.threads
      /\ d1.threadedTasksIndex[h] = d.threadedTasksIndex[h] \ {item}
      /\ \A g \in ThreadIds \ {h} : d1.threadedTasksIndex[g] = d.threadedTasksIndex[g]
  <2>. HIDE DEF h, item
  <2>. QED
    BY <1>1, RemoveRows
<1>3. /\ d.threads[h] = NoThread => e = Fail(d)
      /\ d.threads[h] # NoThread /\ d.threads[h].head # t => e = d1
      /\ d.threads[h] # NoThread /\ d.threads[h].head = t => e = promoteNextThreadHead(d1, h)
  BY Zenon, ZenonT(30) DEF detachTaskFromThread
<1>4. \A g \in ThreadIds : \A x \in d.threadedTasksIndex[g] : x[2] = t => g = h /\ x = item
  OBVIOUS
<1>. SUFFICES /\ SameRows(d, e) /\ MembersWithin(d, e, t) /\ ThreadInv(e, t)
              /\ e.err \/ \A g \in ThreadIds : \A x \in e.threadedTasksIndex[g] : x[2] # t
  OBVIOUS
<1>. HIDE DEF h, item, d1, e
<1>5. /\ d1 \in Db /\ d1.tasks = d.tasks
      /\ \A g \in ThreadIds : \A x \in d1.threadedTasksIndex[g] :
            x \in d.threadedTasksIndex[g] /\ x[2] # t
  BY <1>1, <1>2, <1>4 DEF SameRows
<1>6. ThreadInv(d1, t)
  <2>1. \A u \in TaskIds : HeadsItsThread(d1, u) <=> HeadsItsThread(d, u)
    BY <1>2, <1>5 DEF HeadsItsThread
  <2>2. \A x \in d1.queueIndex : x[2] # t /\ CandidateOK(d1, x)
    BY <1>2, <1>5, ZenonT(30) DEF ThreadInv, CandidateOK, HeadsItsThread
  <2>3. \A g \in ThreadIds : \A x \in d1.threadedTasksIndex[g] : MemberOK(d1, g, x)
    BY <1>5 DEF ThreadInv, MemberOK, Exists, IsLive
  <2>. QED
    BY <2>1, <2>2, <2>3, <1>2, <1>5 DEF ThreadInv
<1>7. CASE d.threads[h] = NoThread
  BY <1>3, <1>7, FailRows, SameThreadsInv DEF SameThreads, MembersWithin
<1>8. CASE d.threads[h] # NoThread /\ d.threads[h].head # t
  BY <1>2, <1>3, <1>5, <1>6, <1>8 DEF MembersWithin
<1>9. CASE d.threads[h] # NoThread /\ d.threads[h].head = t
  <2>1. d1.threads[h].head = t /\ e = promoteNextThreadHead(d1, h)
    BY <1>2, <1>3, <1>9
  <2>2. SameRows(d1, e) /\ e.threadedTasksIndex = d1.threadedTasksIndex /\ ThreadInv(e, t)
    BY <2>1, <1>1, <1>5, <1>6, PromoteInv
  <2>3. SameRows(d, e)
    BY <2>2, <1>2 DEF SameRows
  <2>. QED
    BY <2>2, <2>3, <1>5 DEF MembersWithin
<1>. QED
  BY <1>7, <1>8, <1>9

\* A task that has just become ENQUEUED again moves inside its thread.
LEMMA RescheduleInv ==
  ASSUME NEW d \in Db, NEW t \in TaskIds, NEW old \in Nat,
         d.tasks[t].state = "ENQUEUED", d.tasks[t].threadId # None, ThreadInv(d, t),
         \A h \in ThreadIds : \A x \in d.threadedTasksIndex[h] :
             x[2] = t => h = d.tasks[t].threadId /\ x = <<old, t>>
  PROVE  LET e == rescheduleTaskInThread(d, t, old)
         IN  SameRows(d, e) /\ MembersWithin(d, e, t) /\ (e.err \/ ThreadInv(e, 0))
<1> DEFINE h == d.tasks[t].threadId
           item == <<d.tasks[t].scheduledAt, t>>
           was == <<old, t>>
           d0 == RemoveFromThreadIndex(d, h, was)
           d1 == AddToThreadIndex(d0, h, item)
           e == rescheduleTaskInThread(d, t, old)
<1>1. h \in ThreadIds /\ item \in Items /\ was \in Items
  BY RowFields DEF Items
<1>2. /\ SameRows(d, d0) /\ d0.queueIndex = d.queueIndex /\ d0.threads = d.threads
      /\ d0.threadedTasksIndex[h] = d.threadedTasksIndex[h] \ {was}
      /\ \A g \in ThreadIds \ {h} : d0.threadedTasksIndex[g] = d.threadedTasksIndex[g]
  <2>. HIDE DEF h, was
  <2>. QED
    BY <1>1, RemoveRows
<1>3. d0 \in Db
  BY <1>2, Zenon DEF SameRows
<1>4. /\ SameRows(d0, d1) /\ d1.queueIndex = d0.queueIndex /\ d1.threads = d0.threads
      /\ d1.threadedTasksIndex[h] = d0.threadedTasksIndex[h] \cup {item}
      /\ \A g \in ThreadIds \ {h} : d1.threadedTasksIndex[g] = d0.threadedTasksIndex[g]
  <2>. HIDE DEF h, item, d0
  <2>. QED
    BY <1>1, <1>3, AddRows
<1>5. e = IF d.threads[h] = NoThread THEN Fail(d) ELSE reconcileThreadHead(d1, h)
  BY DEF rescheduleTaskInThread
<1>6. /\ \A g \in ThreadIds : \A x \in d.threadedTasksIndex[g] : x[2] = t => g = h /\ x = was
      /\ item[1] = d.tasks[t].scheduledAt /\ item[2] = t /\ d.tasks[t].threadId = h
      /\ t # 0
  BY RowFields
<1>. SUFFICES SameRows(d, e) /\ MembersWithin(d, e, t) /\ (e.err \/ ThreadInv(e, 0))
  OBVIOUS
<1>. HIDE DEF h, item, was, d0, d1, e
<1>7. /\ SameRows(d, d1) /\ d1 \in Db /\ d1.tasks = d.tasks
      /\ d1.queueIndex = d.queueIndex /\ d1.threads = d.threads
      /\ d1.threadedTasksIndex[h] # {}
      /\ \A g \in ThreadIds : \A x \in d1.threadedTasksIndex[g] :
            (x \in d.threadedTasksIndex[g] /\ x[2] # t) \/ (x = item /\ g = h)
  BY <1>1, <1>2, <1>4, <1>6 DEF SameRows
<1>8. CASE d.threads[h] = NoThread
  BY <1>5, <1>8, FailRows DEF SameThreads, MembersWithin
<1>9. CASE d.threads[h] # NoThread
  <2>1. \A x \in d1.queueIndex : x[2] # 0 /\ CandidateOK(d1, x)
    <3>1. d1.queueIndex \in SUBSET Items
      BY <1>7 DEF Db
    <3>2. \A x \in d1.queueIndex : x[2] # 0
      BY <3>1, RowFields DEF Items
    <3>. QED
      BY <3>2, <1>7, ZenonT(30) DEF ThreadInv, CandidateOK, HeadsItsThread
  <2>2. ASSUME NEW u \in TaskIds, d1.tasks[u].state = "IN_PROGRESS" PROVE HeadsItsThread(d1, u)
    BY <2>2, <1>7 DEF ThreadInv, HeadsItsThread
  <2>3. \A g \in ThreadIds : \A x \in d1.threadedTasksIndex[g] : MemberOK(d1, g, x)
    BY <1>6, <1>7 DEF ThreadInv, MemberOK, Exists, IsLive
  <2>4. ThreadInv(d1, 0)
    BY <2>1, <2>2, <2>3, <1>7 DEF ThreadInv
  <2>5. e = reconcileThreadHead(d1, h) /\ d1.threads[h] # NoThread
    BY <1>5, <1>7, <1>9
  <2>6. SameRows(d1, e) /\ e.threadedTasksIndex = d1.threadedTasksIndex /\ ThreadInv(e, 0)
    BY <1>1, <1>7, <2>4, <2>5, ReconcileInv
  <2>7. SameRows(d, e)
    BY <2>6, <1>7 DEF SameRows
  <2>. QED
    BY <2>6, <2>7, <1>6, <1>7 DEF MembersWithin
<1>. QED
  BY <1>8, <1>9
===============================================================================
