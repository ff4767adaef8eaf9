--------------------------- MODULE QueuesCoreProofs ---------------------------
(***************************************************************************)
(* Proofs about QueuesCore: garbage collection, SwapQueueId and Restore    *)
(* keep the invariant of the tables, so every step does, and the theorems  *)
(* follow from it.                                                         *)
(***************************************************************************)
EXTENDS QueuesTablesProofs

-------------------------------------------------------------------------------
(* Garbage collection.                                                     *)

LEMMA Visited ==
  ASSUME NEW d, d \in Qdb
  PROVE  /\ gcListed(d) \in SUBSET ScheduleKeys /\ gcVisited(d) \in SUBSET gcListed(d)
         /\ \A k \in gcListed(d) : k[1] \in d.gcRecords /\ ScheduleExists(d, k[1], k[2])
         /\ IsFiniteSet(gcListed(d))
<1>1. d.gcRecords \subseteq QueueIds
  BY QdbFields
<1>2. \A S, n : FirstIds(S, n) \subseteq S
  BY DEF FirstIds
<1>3. \A q : gcPage(d, q) \subseteq SchedulesOf(d, q)
  BY <1>2, Zenon DEF gcPage
<1>4. ASSUME NEW k \in gcListed(d)
      PROVE  /\ k \in ScheduleKeys /\ k[1] \in d.gcRecords
             /\ ScheduleExists(d, k[1], k[2])
  <2>1. PICK q \in FirstIds(d.gcRecords, GcRecordsPageSize) : k \in {q} \X gcPage(d, q)
    BY <1>4 DEF gcListed
  <2>2. q \in d.gcRecords /\ q \in QueueIds
    BY <2>1, <1>1, <1>2
  <2>3. PICK s \in gcPage(d, q) : k = <<q, s>>
    BY <2>1
  <2>4. s \in ScheduleIds /\ ScheduleExists(d, q, s)
    BY <2>3, <1>3 DEF SchedulesOf
  <2>. QED
    BY <2>2, <2>3, <2>4 DEF ScheduleKeys
<1>5. IsFiniteSet(ScheduleKeys)
  <2>1. IsFiniteSet(QueueIds) /\ IsFiniteSet(ScheduleIds)
    BY FS_Interval, QueuesAssumption DEF QueueIds, ScheduleIds
  <2>. QED
    BY <2>1, FS_Product DEF ScheduleKeys
<1>6. gcListed(d) \in SUBSET ScheduleKeys
  BY <1>4, Zenon
<1>7. gcVisited(d) \in SUBSET gcListed(d)
  BY DEF gcVisited
<1>. QED
  BY <1>4, <1>5, <1>6, <1>7, FS_Subset

\* A record goes only when every schedule of its queue was visited.
LEMMA DrainedVisited ==
  ASSUME NEW d, d \in Qdb, NEW q \in gcDrained(d), NEW s \in SchedulesOf(d, q)
  PROVE  <<q, s>> \in gcVisited(d)
<1> DEFINE listed == gcListed(d)
           before == {x \in listed : KeyBefore(x, <<q, s>>)}
           upto == {k \in listed : k[1] <= q}
<1>1. /\ q \in FirstIds(d.gcRecords, GcRecordsPageSize) /\ gcPage(d, q) = SchedulesOf(d, q)
      /\ Cardinality(upto) < MaxVisitedSchedules
  BY DEF gcDrained
<1>2. <<q, s>> \in listed
  <2>1. <<q, s>> \in {q} \X gcPage(d, q)
    BY <1>1
  <2>. QED
    BY <1>1, <2>1 DEF gcListed
<1>3. listed \subseteq ScheduleKeys /\ IsFiniteSet(listed) /\ q \in QueueIds
  <2>1. q \in d.gcRecords
    BY <1>1 DEF FirstIds
  <2>. QED
    BY <2>1, Visited, QdbFields, Zenon
<1>4. before \in SUBSET upto
  <2>1. ASSUME NEW x \in listed, KeyBefore(x, <<q, s>>)
        PROVE  x[1] <= q
    <3>1. x[1] \in Nat /\ q \in Nat
      BY <1>3, Ids DEF ScheduleKeys
    <3>. QED
      BY <2>1, <3>1 DEF KeyBefore
  <2>. QED
    BY <2>1
<1>5. IsFiniteSet(upto) /\ IsFiniteSet(before)
  <2>1. upto \in SUBSET listed /\ before \in SUBSET listed
    OBVIOUS
  <2>. HIDE DEF upto, before, listed
  <2>. QED
    BY <2>1, <1>3, FS_Subset
<1>. HIDE DEF upto, before
<1>6. Cardinality(before) <= Cardinality(upto)
  BY <1>4, <1>5, FS_Subset
<1>7. Cardinality(before) \in Nat /\ Cardinality(upto) \in Nat
  BY <1>5, FS_CardinalityType
<1>8. Cardinality(before) < MaxVisitedSchedules
  BY <1>1, <1>6, <1>7, QueuesAssumption
<1>. QED
  BY <1>2, <1>8 DEF gcVisited, before

LEMMA CollectInv ==
  ASSUME NEW d, NEW f, NEW reads, StateInv(d, f, reads)
  PROVE  StateInv(runQueuesGarbageCollection(d), f, reads)
<1> DEFINE K == gcVisited(d)
           c == schedulesDelete(d, K)
           e == runQueuesGarbageCollection(d)
<1>1. SchedulesInv(d) /\ SchedulesCounted(d) /\ d \in Qdb /\ FateOK(d, f)
  BY DEF StateInv, TablesInv, SchedulesInv
<1>2. /\ K \in SUBSET ScheduleKeys
      /\ \A k \in K : k[1] \in d.gcRecords /\ ScheduleExists(d, k[1], k[2])
  BY <1>1, Visited
<1>3. e = [c EXCEPT !.gcRecords = c.gcRecords \ gcDrained(d)]
  BY DEF runQueuesGarbageCollection
<1>4. \A q \in gcDrained(d) : \A s \in SchedulesOf(d, q) : <<q, s>> \in K
  BY <1>1, DrainedVisited
<1>. HIDE DEF K, e
<1>5. /\ SchedulesInv(c) /\ SameQueues(d, c)
      /\ \A r \in QueueIds : SchedulesOf(c, r) = {u \in SchedulesOf(d, r) : <<r, u>> \notin K}
  <2>1. Dropped(d, c, K)
    BY <1>1, <1>2, SchedulesDelete
  <2>. QED
    BY <2>1, Zenon DEF Dropped
<1>. HIDE DEF c
<1>6. /\ e \in Qdb /\ SameSchedules(c, e) /\ e.queues = d.queues
      /\ e.queueNames = d.queueNames /\ e.numberOfQueues = d.numberOfQueues
      /\ e.gcRecords = d.gcRecords \ gcDrained(d)
  BY <1>3, <1>5 DEF SchedulesInv, SameQueues, SameSchedules, Qdb
<1>7. /\ SchedulesInv(e) /\ \A r \in QueueIds : SchedulesOf(e, r) = SchedulesOf(c, r)
  <2>1. e \in Qdb /\ SameSchedules(c, e)
    BY <1>6
  <2>. QED
    BY <2>1, <1>5, SameSchedulesInv
<1>8. SameRows(d, e)
  BY <1>6, Zenon DEF SameRows
<1>9. \A r \in QueueIds, u \in ScheduleIds :
        ScheduleExists(e, r, u) => ScheduleExists(d, r, u) /\ <<r, u>> \notin K
  BY <1>5, <1>7 DEF SchedulesOf
<1>10. ASSUME NEW r \in QueueIds, QueueExists(e, r)
       PROVE  e.queues[r].schedulesCount = Cardinality(SchedulesOf(e, r))
  <2>1. QueueExists(d, r) /\ e.queues[r] = d.queues[r]
    BY <1>6, <1>10, Zenon DEF QueueExists
  <2>2. r \notin d.gcRecords
    BY <1>1, <2>1 DEF FateOK
  <2>3. \A u \in SchedulesOf(d, r) : <<r, u>> \notin K
    BY <1>2, <2>2
  <2>4. SchedulesOf(e, r) = SchedulesOf(d, r)
    BY <1>5, <1>7, <2>3
  <2>. QED
    BY <1>1, <2>1, <2>4, Zenon DEF SchedulesCounted
<1>11. ASSUME NEW r \in QueueIds, NEW u \in ScheduleIds, ScheduleExists(e, r, u)
       PROVE  f[r] = "live" \/ r \in e.gcRecords
  <2>1. ScheduleExists(d, r, u) /\ <<r, u>> \notin K
    BY <1>9, <1>11
  <2>2. r \notin gcDrained(d)
    BY <1>4, <2>1 DEF SchedulesOf
  <2>. QED
    BY <1>1, <1>6, <2>1, <2>2 DEF FateOK
<1>12. SchedulesCounted(e) /\ e.gcRecords \subseteq d.gcRecords
  BY <1>6, <1>10 DEF SchedulesCounted
<1>13. StateInv(e, f, reads)
  BY <1>7, <1>8, <1>11, <1>12, ChangeSchedules, Zenon
<1>. QED
  BY <1>13 DEF e

-------------------------------------------------------------------------------
(* SwapQueueId.                                                            *)

\* The tables with the schedules of old in d under new, from the tables w
\* without them.
Rekeyed(d, w, old, new) ==
    [w EXCEPT
        !.scheduledIndex = @ \cup {<<d.schedules[<<old, s>>].nextScheduledAt, new, s>> :
                                      s \in SchedulesOf(d, old)},
        !.scheduleNames = [k \in DOMAIN @ |->
            IF k[1] = new /\ d.scheduleNames[<<old, k[2]>>] \in SchedulesOf(d, old)
            THEN d.scheduleNames[<<old, k[2]>>] ELSE @[k]],
        !.schedules = [k \in DOMAIN @ |->
            IF k[1] = new /\ k[2] \in SchedulesOf(d, old)
            THEN d.schedules[<<old, k[2]>>] ELSE @[k]]]

\* The fields of the rekeyed tables c, and what they say of schedules.
RekeyedRows(d, w, c, old, new) ==
    /\ c \in Qdb /\ SameQueues(w, c)
    /\ \A r \in QueueIds, u \in ScheduleIds :
          c.schedules[<<r, u>>] = IF r = new /\ u \in SchedulesOf(d, old)
                                  THEN d.schedules[<<old, u>>] ELSE w.schedules[<<r, u>>]
    /\ \A r \in QueueIds, sn \in ScheduleNames :
          c.scheduleNames[<<r, sn>>] =
              IF r = new /\ d.scheduleNames[<<old, sn>>] \in SchedulesOf(d, old)
              THEN d.scheduleNames[<<old, sn>>] ELSE w.scheduleNames[<<r, sn>>]
    /\ \A t \in Nat, r \in QueueIds, u \in ScheduleIds :
          <<t, r, u>> \in c.scheduledIndex <=>
              \/ <<t, r, u>> \in w.scheduledIndex
              \/ /\ r = new /\ u \in SchedulesOf(d, old)
                 /\ t = d.schedules[<<old, u>>].nextScheduledAt

RekeyedTo(d, w, c, old, new) ==
    /\ SchedulesInv(c) /\ SameQueues(w, c)
    /\ SchedulesOf(c, new) = SchedulesOf(d, old)
    /\ \A r \in QueueIds \ {new} : SchedulesOf(c, r) = SchedulesOf(w, r)
    /\ \A u \in SchedulesOf(d, old) : c.schedules[<<new, u>>] = d.schedules[<<old, u>>]

LEMMA RekeyedFields ==
  ASSUME NEW d \in Qdb, NEW w \in Qdb, NEW old \in QueueIds, NEW new \in QueueIds
  PROVE  RekeyedRows(d, w, Rekeyed(d, w, old, new), old, new)
<1> DEFINE moved == SchedulesOf(d, old)
           c == Rekeyed(d, w, old, new)
           added == {<<d.schedules[<<old, s>>].nextScheduledAt, new, s>> : s \in moved}
           names == [k \in QueueIds \X ScheduleNames |->
               IF k[1] = new /\ d.scheduleNames[<<old, k[2]>>] \in moved
               THEN d.scheduleNames[<<old, k[2]>>] ELSE w.scheduleNames[k]]
           rows == [k \in ScheduleKeys |->
               IF k[1] = new /\ k[2] \in moved
               THEN d.schedules[<<old, k[2]>>] ELSE w.schedules[k]]
<1>1. c = [w EXCEPT !.scheduledIndex = w.scheduledIndex \cup added,
                    !.scheduleNames = names, !.schedules = rows]
  BY DEF Rekeyed, Qdb
<1>2. moved \subseteq ScheduleIds
  BY DEF SchedulesOf
<1>. HIDE DEF moved
<1>3. added \subseteq Nat \X QueueIds \X ScheduleIds
  <2>1. ASSUME NEW s \in moved
        PROVE  <<d.schedules[<<old, s>>].nextScheduledAt, new, s>> \in Nat \X QueueIds \X ScheduleIds
    <3>1. s \in ScheduleIds /\ d.schedules[<<old, s>>].nextScheduledAt \in Nat
      BY <1>2, RowTypes
    <3>. QED
      BY <3>1
  <2>. QED
    BY <2>1
<1>4. names \in [QueueIds \X ScheduleNames -> ScheduleIds \cup {0}]
  BY <1>2, QdbFields
<1>5. rows \in [ScheduleKeys -> Schedule]
  BY <1>2, QdbFields DEF ScheduleKeys
<1>6. /\ \A r \in QueueIds, u \in ScheduleIds :
            rows[<<r, u>>] = IF r = new /\ u \in moved
                             THEN d.schedules[<<old, u>>] ELSE w.schedules[<<r, u>>]
      /\ \A r \in QueueIds, sn \in ScheduleNames :
            names[<<r, sn>>] = IF r = new /\ d.scheduleNames[<<old, sn>>] \in moved
                               THEN d.scheduleNames[<<old, sn>>] ELSE w.scheduleNames[<<r, sn>>]
      /\ \A t \in Nat, r \in QueueIds, u \in ScheduleIds :
            <<t, r, u>> \in added <=> /\ r = new /\ u \in moved
                                      /\ t = d.schedules[<<old, u>>].nextScheduledAt
  BY DEF ScheduleKeys
<1>. HIDE DEF added, names, rows, c
<1>7. w.scheduledIndex \cup added \subseteq Nat \X QueueIds \X ScheduleIds
  BY <1>3, QdbFields, Zenon
<1>8. /\ c \in Qdb /\ SameQueues(w, c)
      /\ c.scheduledIndex = w.scheduledIndex \cup added
      /\ c.scheduleNames = names /\ c.schedules = rows
  BY <1>1, <1>4, <1>5, <1>7 DEF Qdb, SameQueues
<1>9. RekeyedRows(d, w, c, old, new)
  BY <1>6, <1>8 DEF RekeyedRows, moved
<1>. QED
  BY <1>9 DEF c

LEMMA RekeyInv ==
  ASSUME NEW d, NEW w, SchedulesInv(d), SchedulesInv(w),
         NEW old \in QueueIds, NEW new \in QueueIds, SchedulesOf(w, new) = {}
  PROVE  RekeyedTo(d, w, Rekeyed(d, w, old, new), old, new)
<1> DEFINE c == Rekeyed(d, w, old, new)
           moved == SchedulesOf(d, old)
<1>1. /\ d \in Qdb /\ w \in Qdb /\ ScheduleNamesOK(d) /\ ScheduleNamesOK(w)
      /\ DueOK(d) /\ DueOK(w)
  BY DEF SchedulesInv
<1>2. /\ c \in Qdb /\ SameQueues(w, c)
      /\ \A r \in QueueIds, u \in ScheduleIds :
            c.schedules[<<r, u>>] = IF r = new /\ u \in moved
                                    THEN d.schedules[<<old, u>>] ELSE w.schedules[<<r, u>>]
      /\ \A r \in QueueIds, sn \in ScheduleNames :
            c.scheduleNames[<<r, sn>>] =
                IF r = new /\ d.scheduleNames[<<old, sn>>] \in moved
                THEN d.scheduleNames[<<old, sn>>] ELSE w.scheduleNames[<<r, sn>>]
      /\ \A t \in Nat, r \in QueueIds, u \in ScheduleIds :
            <<t, r, u>> \in c.scheduledIndex <=>
                \/ <<t, r, u>> \in w.scheduledIndex
                \/ r = new /\ u \in moved /\ t = d.schedules[<<old, u>>].nextScheduledAt
  <2>1. RekeyedRows(d, w, c, old, new)
    BY <1>1, RekeyedFields
  <2>. HIDE DEF c
  <2>. QED
    BY <2>1, Zenon DEF RekeyedRows
<1>3. \A u \in ScheduleIds : /\ w.schedules[<<new, u>>].name = None
                             /\ u \in moved <=> d.schedules[<<old, u>>].name # None
  BY DEF SchedulesOf, ScheduleExists
<1>4. moved \subseteq ScheduleIds
  BY DEF SchedulesOf
<1>. HIDE DEF c, moved
<1>a. ASSUME NEW r \in QueueIds, NEW u \in ScheduleIds
      PROVE  c.schedules[<<r, u>>] = IF r = new /\ u \in moved
                                     THEN d.schedules[<<old, u>>] ELSE w.schedules[<<r, u>>]
  BY <1>2
<1>b. ASSUME NEW r \in QueueIds, NEW sn \in ScheduleNames
      PROVE  c.scheduleNames[<<r, sn>>] =
               IF r = new /\ d.scheduleNames[<<old, sn>>] \in moved
               THEN d.scheduleNames[<<old, sn>>] ELSE w.scheduleNames[<<r, sn>>]
  BY <1>2
<1>5. ScheduleNamesOK(c)
  <2>1. SUFFICES ASSUME NEW r \in QueueIds, NEW sn \in ScheduleNames, NEW u \in ScheduleIds
                 PROVE  c.scheduleNames[<<r, sn>>] = u <=> c.schedules[<<r, u>>].name = sn
    BY Zenon DEF ScheduleNamesOK
  <2>2. w.scheduleNames[<<r, sn>>] = u <=> w.schedules[<<r, u>>].name = sn
    BY <1>1 DEF ScheduleNamesOK
  <2>3. d.scheduleNames[<<old, sn>>] = u <=> d.schedules[<<old, u>>].name = sn
    BY <1>1 DEF ScheduleNamesOK
  <2>4. u # 0 /\ sn # None
    BY Ids
  <2>a. c.schedules[<<r, u>>] = IF r = new /\ u \in moved
                                THEN d.schedules[<<old, u>>] ELSE w.schedules[<<r, u>>]
    BY <1>a
  <2>b. c.scheduleNames[<<r, sn>>] =
            IF r = new /\ d.scheduleNames[<<old, sn>>] \in moved
            THEN d.scheduleNames[<<old, sn>>] ELSE w.scheduleNames[<<r, sn>>]
    BY <1>b
  <2>c. r = new => w.scheduleNames[<<r, sn>>] # u
    BY <2>2, <2>4, <1>3
  <2>5. CASE r # new
    BY <2>2, <2>5, <2>a, <2>b
  <2>6. CASE r = new /\ u \in moved
    <3>1. c.schedules[<<r, u>>].name = d.schedules[<<old, u>>].name
      BY <2>6, <2>a
    <3>2. d.scheduleNames[<<old, sn>>] = u => c.scheduleNames[<<r, sn>>] = u
      BY <2>6, <2>b
    <3>3. c.scheduleNames[<<r, sn>>] = u => d.scheduleNames[<<old, sn>>] = u
      BY <2>6, <2>b, <2>c
    <3>. QED
      BY <3>1, <3>2, <3>3, <2>3
  <2>7. CASE r = new /\ u \notin moved
    <3>1. c.schedules[<<r, u>>].name = None
      BY <2>7, <2>a, <1>3
    <3>2. c.scheduleNames[<<r, sn>>] # u
      BY <2>7, <2>b, <2>c
    <3>. QED
      BY <3>1, <3>2, <2>4
  <2>. QED
    BY <2>5, <2>6, <2>7
<1>6. DueOK(c)
  <2>1. SUFFICES ASSUME NEW t \in Nat, NEW r \in QueueIds, NEW u \in ScheduleIds
                 PROVE  <<t, r, u>> \in c.scheduledIndex <=>
                          c.schedules[<<r, u>>].name # None
                          /\ c.schedules[<<r, u>>].nextScheduledAt = t
    BY Zenon DEF DueOK
  <2>2. <<t, r, u>> \in w.scheduledIndex <=>
            w.schedules[<<r, u>>].name # None /\ w.schedules[<<r, u>>].nextScheduledAt = t
    BY <1>1 DEF DueOK
  <2>3. <<t, r, u>> \in c.scheduledIndex <=>
            \/ <<t, r, u>> \in w.scheduledIndex
            \/ r = new /\ u \in moved /\ t = d.schedules[<<old, u>>].nextScheduledAt
    BY <1>2
  <2>4. r = new => w.schedules[<<r, u>>].name = None
    BY <1>3
  <2>5. u \in moved <=> d.schedules[<<old, u>>].name # None
    BY <1>3
  <2>6. c.schedules[<<r, u>>] = IF r = new /\ u \in moved
                                THEN d.schedules[<<old, u>>] ELSE w.schedules[<<r, u>>]
    BY <1>a
  <2>. QED
    BY <2>2, <2>3, <2>4, <2>5, <2>6
<1>7. \A r \in QueueIds, u \in ScheduleIds :
        ScheduleExists(c, r, u) <=> IF r = new THEN u \in moved ELSE ScheduleExists(w, r, u)
  BY <1>a, <1>3 DEF ScheduleExists
<1>8. SchedulesOf(c, new) = moved /\ \A r \in QueueIds \ {new} : SchedulesOf(c, r) = SchedulesOf(w, r)
  BY <1>4, <1>7 DEF SchedulesOf
<1>9. \A u \in moved : c.schedules[<<new, u>>] = d.schedules[<<old, u>>]
  BY <1>a, <1>4
<1>10. SchedulesInv(c) /\ SameQueues(w, c)
  BY <1>2, <1>5, <1>6, Zenon DEF SchedulesInv
<1>11. RekeyedTo(d, w, c, old, new)
  BY <1>8, <1>9, <1>10, Zenon DEF RekeyedTo, moved
<1>. QED
  BY <1>11 DEF c

\* From d to e the queue n and its schedules moved from one id to another.
Moved(d, e, n, old, new) ==
    /\ e.queueNames[n] = new
    /\ SchedulesOf(e, new) = SchedulesOf(d, old) /\ SchedulesOf(e, old) = {}
    /\ \A u \in SchedulesOf(d, old) : e.schedules[<<new, u>>] = d.schedules[<<old, u>>]

LEMMA SwapQueueIdInv ==
  ASSUME NEW d, NEW f, NEW reads, StateInv(d, f, reads),
         NEW n \in QueueNames, NEW old \in QueueIds, NEW new \in QueueIds,
         d.queues[old].name = n, f[new] = "unused"
  PROVE  /\ StateInv(swapQueueId(d, old, new), [f EXCEPT ![new] = "live", ![old] = "swapped"], reads)
         /\ Moved(d, swapQueueId(d, old, new), n, old, new)
<1> DEFINE K == {old} \X SchedulesOf(d, old)
           w == schedulesDelete(d, K)
           c == Rekeyed(d, w, old, new)
           row == [d.queues[old] EXCEPT !.version = @ + 1]
           e == swapQueueId(d, old, new)
           g == [f EXCEPT ![new] = "live", ![old] = "swapped"]
<1>1. /\ d \in Qdb /\ SchedulesInv(d) /\ NamesOK(d) /\ SchedulesCounted(d)
      /\ d.numberOfQueues = Cardinality(QueuesOf(d)) /\ d.numberOfQueues \in Nat
      /\ FateOK(d, f) /\ VersionsOK(d) /\ ReadsOK(d, reads)
      /\ f \in [QueueIds -> Fates] /\ reads \in [QueueNames -> Seen]
  BY QdbFields DEF StateInv, TablesInv, SchedulesInv
<1>2. /\ QueueExists(d, old) /\ d.queueNames[n] = old /\ f[old] = "live" /\ n # None
      /\ ~QueueExists(d, new) /\ old # new /\ new \notin d.gcRecords /\ old \notin d.gcRecords
  BY <1>1, Ids DEF QueueExists, NamesOK, FateOK
<1>3. SchedulesOf(d, new) = {}
  BY <1>1, <1>2 DEF FateOK, SchedulesOf
<1>4. e = queuesSwapId(c, old, new, row)
  BY DEF swapQueueId, Rekeyed, rekeyed
<1>5. /\ d.queues[old] \in Queue /\ d.queues[old].version \in Nat
      /\ row \in Queue /\ row.name = n /\ row.version = d.queues[old].version + 1
      /\ row.schedulesCount = d.queues[old].schedulesCount
  <2>1. d.queues[old] \in Queue /\ d.queues[old].version \in Nat
    BY <1>1, RowTypes DEF Queue
  <2> DEFINE v == d.queues[old].version + 1
  <2>2. v \in Nat /\ row = [d.queues[old] EXCEPT !.version = v]
    BY <2>1
  <2>. HIDE DEF v, row
  <2>. QED
    BY <2>1, <2>2 DEF Queue, v
<1>6. /\ K \in SUBSET ScheduleKeys /\ \A k \in K : ScheduleExists(d, k[1], k[2])
      /\ \A r \in QueueIds, u \in ScheduleIds : <<r, u>> \in K <=> r = old /\ u \in SchedulesOf(d, old)
  BY DEF SchedulesOf, ScheduleKeys
<1>. HIDE DEF K, row
<1>7. /\ SchedulesInv(w) /\ SameQueues(d, w)
      /\ \A r \in QueueIds : SchedulesOf(w, r) = {u \in SchedulesOf(d, r) : <<r, u>> \notin K}
  <2>1. Dropped(d, w, K)
    BY <1>1, <1>6, SchedulesDelete
  <2>. QED
    BY <2>1, Zenon DEF Dropped
<1>. HIDE DEF w
<1>8. /\ SchedulesOf(w, old) = {}
      /\ \A r \in QueueIds \ {old} : SchedulesOf(w, r) = SchedulesOf(d, r)
  BY <1>6, <1>7 DEF SchedulesOf
<1>9. SchedulesOf(w, new) = {}
  BY <1>2, <1>3, <1>8
<1>10. /\ SchedulesInv(c) /\ SameQueues(w, c)
       /\ SchedulesOf(c, new) = SchedulesOf(d, old)
       /\ \A r \in QueueIds \ {new} : SchedulesOf(c, r) = SchedulesOf(w, r)
       /\ \A u \in SchedulesOf(d, old) : c.schedules[<<new, u>>] = d.schedules[<<old, u>>]
  <2>1. RekeyedTo(d, w, c, old, new)
    BY <1>1, <1>7, <1>9, RekeyInv
  <2>. HIDE DEF c
  <2>. QED
    BY <2>1, Zenon DEF RekeyedTo
<1>. HIDE DEF c, e
<1>11. c \in Qdb /\ c.queues = d.queues /\ c.queueNames = d.queueNames
       /\ c.numberOfQueues = d.numberOfQueues /\ c.gcRecords = d.gcRecords
  BY <1>7, <1>10, Zenon DEF SchedulesInv, SameQueues
<1>12. NoQueue \in Queue /\ NoQueue.name = None
  BY DEF NoQueue, Queue
<1> DEFINE rows == [d.queues EXCEPT ![new] = row, ![old] = NoQueue]
           names == [d.queueNames EXCEPT ![n] = new]
<1>13. /\ rows \in [QueueIds -> Queue] /\ names \in [QueueNames -> QueueIds \cup {0}]
       /\ \A r \in QueueIds : rows[r] = IF r = old THEN NoQueue
                                        ELSE IF r = new THEN row ELSE d.queues[r]
       /\ \A m \in QueueNames : names[m] = IF m = n THEN new ELSE d.queueNames[m]
  BY <1>1, <1>2, <1>5, <1>12, QdbFields
<1>14. e = [c EXCEPT !.queueNames = names, !.queues = rows]
  BY <1>4, <1>5, <1>11 DEF queuesSwapId, Qdb
<1>. HIDE DEF rows, names
<1>15. /\ e \in Qdb /\ SameSchedules(c, e) /\ e.queues = rows /\ e.queueNames = names
       /\ e.numberOfQueues = d.numberOfQueues /\ e.gcRecords = d.gcRecords
  BY <1>11, <1>13, <1>14 DEF Qdb, SameSchedules
<1>16. SchedulesInv(e) /\ \A r \in QueueIds : SchedulesOf(e, r) = SchedulesOf(c, r)
  <2>1. e \in Qdb /\ SameSchedules(c, e)
    BY <1>15
  <2>. QED
    BY <2>1, <1>10, SameSchedulesInv
<1>17. /\ SchedulesOf(e, new) = SchedulesOf(d, old) /\ SchedulesOf(e, old) = {}
       /\ \A r \in QueueIds \ {old, new} : SchedulesOf(e, r) = SchedulesOf(d, r)
  BY <1>2, <1>8, <1>10, <1>16
<1>18. NamesOK(e)
  <2>1. SUFFICES ASSUME NEW m \in QueueNames, NEW r \in QueueIds
                 PROVE  e.queueNames[m] = r <=> e.queues[r].name = m
    BY Zenon DEF NamesOK
  <2>2. /\ d.queueNames[m] = r <=> d.queues[r].name = m
        /\ d.queueNames[m] = new <=> d.queues[new].name = m
        /\ m # None
    BY <1>1, Ids DEF NamesOK
  <2>3. /\ e.queueNames[m] = IF m = n THEN new ELSE d.queueNames[m]
        /\ e.queues[r] = IF r = old THEN NoQueue ELSE IF r = new THEN row ELSE d.queues[r]
    BY <1>13, <1>15
  <2>. QED
    BY <2>2, <2>3, <1>2, <1>5, <1>12 DEF QueueExists
<1>19. \A r \in QueueIds : QueueExists(e, r) <=> (QueueExists(d, r) /\ r # old) \/ r = new
  BY <1>2, <1>5, <1>12, <1>13, <1>15 DEF QueueExists
<1>20. e.numberOfQueues = Cardinality(QueuesOf(e))
  <2> DEFINE rest == QueuesOf(d) \ {old}
  <2>1. IsFiniteSet(QueuesOf(d)) /\ old \in QueuesOf(d) /\ Cardinality(QueuesOf(d)) \in Nat
    BY <1>2, CountedSets DEF QueuesOf
  <2>2. IsFiniteSet(rest) /\ Cardinality(rest) = Cardinality(QueuesOf(d)) - 1
    BY <2>1, FS_RemoveElement
  <2>3. QueuesOf(e) = rest \cup {new} /\ new \notin rest
    BY <1>2, <1>19 DEF QueuesOf
  <2>. HIDE DEF rest
  <2>4. Cardinality(QueuesOf(e)) = Cardinality(rest) + 1
    BY <2>2, <2>3, FS_AddElement
  <2>. QED
    BY <2>1, <2>2, <2>4, <1>1, <1>15
<1>21. SchedulesCounted(e)
  <2>1. SUFFICES ASSUME NEW r \in QueueIds, QueueExists(e, r)
                 PROVE  e.queues[r].schedulesCount = Cardinality(SchedulesOf(e, r))
    BY Zenon DEF SchedulesCounted
  <2>2. e.queues[r] = IF r = old THEN NoQueue ELSE IF r = new THEN row ELSE d.queues[r]
    BY <1>13, <1>15
  <2>3. CASE r = new
    <3>1. e.queues[r] = row /\ SchedulesOf(e, r) = SchedulesOf(d, old)
      BY <2>2, <2>3, <1>2, <1>17
    <3>2. d.queues[old].schedulesCount = Cardinality(SchedulesOf(d, old))
      BY <1>1, <1>2, Zenon DEF SchedulesCounted
    <3>. QED
      BY <3>1, <3>2, <1>5
  <2>4. CASE r # new
    <3>1. QueueExists(d, r) /\ r # old
      BY <2>1, <2>4, <1>19
    <3>2. e.queues[r] = d.queues[r] /\ SchedulesOf(e, r) = SchedulesOf(d, r)
      BY <2>2, <2>4, <3>1, <1>17
    <3>. QED
      BY <3>1, <3>2, <1>1, Zenon DEF SchedulesCounted
  <2>. QED
    BY <2>3, <2>4
<1>22. /\ g \in [QueueIds -> Fates]
       /\ \A r \in QueueIds : g[r] = IF r = old THEN "swapped" ELSE IF r = new THEN "live" ELSE f[r]
  BY <1>1, <1>2 DEF Fates
<1>. HIDE DEF g
<1>23. FateOK(e, g)
  <2>1. \A r \in QueueIds : QueueExists(e, r) <=> g[r] = "live"
    BY <1>1, <1>2, <1>19, <1>22 DEF FateOK
  <2>2. ASSUME NEW r \in QueueIds, NEW u \in ScheduleIds, ScheduleExists(e, r, u)
        PROVE  g[r] = "live" \/ r \in e.gcRecords
    <3>1. u \in SchedulesOf(e, r) /\ r # old
      BY <2>2, <1>17 DEF SchedulesOf
    <3>2. CASE r = new
      BY <3>1, <3>2, <1>22
    <3>3. CASE r # new
      <4>1. ScheduleExists(d, r, u)
        BY <3>1, <3>3, <1>17 DEF SchedulesOf
      <4>. QED
        BY <4>1, <3>1, <3>3, <1>1, <1>15, <1>22 DEF FateOK
    <3>. QED
      BY <3>2, <3>3
  <2>3. \A r \in e.gcRecords : g[r] = "deleted"
    BY <1>1, <1>2, <1>15, <1>22, QdbFields DEF FateOK
  <2>. QED
    BY <2>1, <2>2, <2>3, Zenon DEF FateOK
<1>24. VersionsOK(e)
  <2>1. d.queues[old].version >= 1
    BY <1>1, <1>2, Zenon DEF VersionsOK
  <2>2. row.version >= 1
    BY <2>1, <1>5
  <2>3. SUFFICES ASSUME NEW r \in QueueIds, QueueExists(e, r)
                 PROVE  e.queues[r].version >= 1
    BY Zenon DEF VersionsOK
  <2>4. e.queues[r] = IF r = old THEN NoQueue ELSE IF r = new THEN row ELSE d.queues[r]
    BY <1>13, <1>15
  <2>5. CASE r = new
    BY <2>2, <2>4, <2>5, <1>2
  <2>6. CASE r # new
    BY <2>3, <2>4, <2>6, <1>1, <1>19 DEF VersionsOK
  <2>. QED
    BY <2>5, <2>6
<1>25. ReadsOK(e, reads)
  <2>1. SUFFICES ASSUME NEW m \in QueueNames
                 PROVE  ReadOK(e, reads[m], m)
    BY <1>1, Zenon DEF ReadsOK
  <2>2. ReadOK(d, reads[m], m) /\ reads[m].version \in Nat
    BY <1>1 DEF ReadsOK, Seen
  <2>3. CASE m = n
    <3>1. reads[m].deleted \/ reads[m].version <= d.queues[old].version
      BY <2>2, <2>3, <1>2, Ids DEF ReadOK
    <3>2. reads[m].deleted \/ (reads[m].version <= row.version /\ reads[m].version # row.version)
      BY <3>1, <2>2, <1>5
    <3>3. e.queueNames[m] = new /\ e.queues[new] = row
      BY <2>3, <1>2, <1>13, <1>15
    <3>. QED
      BY <3>2, <3>3 DEF ReadOK
  <2>4. CASE m # n
    <3>1. /\ e.queueNames[m] = d.queueNames[m] /\ d.queueNames[m] # old /\ d.queueNames[m] # new
      <4>1. e.queueNames[m] = d.queueNames[m]
        BY <2>4, <1>13, <1>15
      <4>2. /\ d.queueNames[m] = old <=> d.queues[old].name = m
            /\ d.queueNames[m] = new <=> d.queues[new].name = m
        BY <1>1, Zenon DEF NamesOK
      <4>3. d.queues[new].name # m
        BY <1>2, Ids DEF QueueExists
      <4>. QED
        BY <4>1, <4>2, <4>3, <2>4
    <3>2. \A r \in QueueIds : d.queueNames[m] = r => e.queues[r] = d.queues[r]
      BY <3>1, <1>13, <1>15
    <3>. QED
      BY <3>1, <3>2, <2>2, Zenon DEF ReadOK
  <2>. QED
    BY <2>3, <2>4
<1>26. /\ e.queueNames[n] = new
       /\ \A u \in SchedulesOf(d, old) : e.schedules[<<new, u>>] = d.schedules[<<old, u>>]
  BY <1>10, <1>13, <1>15 DEF SameSchedules
<1>27. StateInv(e, g, reads)
  BY <1>1, <1>15, <1>16, <1>18, <1>20, <1>21, <1>22, <1>23, <1>24, <1>25, Zenon
     DEF StateInv, TablesInv
<1>28. Moved(d, e, n, old, new)
  BY <1>17, <1>26, Zenon DEF Moved
<1>. QED
  BY <1>27, <1>28 DEF e, g

-------------------------------------------------------------------------------
(* Restore.                                                                *)

\* The names index is a function of the rows, so Restore derives it again.
LEMMA RestoreExact ==
  ASSUME NEW d, SchedulesInv(d), NamesOK(d)
  PROVE  restored(d) = d
<1> DEFINE qn == [n \in QueueNames |->
               IF \E q \in QueueIds : d.queues[q].name = n
               THEN CHOOSE q \in QueueIds : d.queues[q].name = n ELSE 0]
           sns == [k \in QueueIds \X ScheduleNames |->
               IF \E s \in ScheduleIds : d.schedules[<<k[1], s>>].name = k[2]
               THEN CHOOSE s \in ScheduleIds : d.schedules[<<k[1], s>>].name = k[2] ELSE 0]
           due == {DueItem(d, k[1], k[2]) :
                      k \in {x \in ScheduleKeys : ScheduleExists(d, x[1], x[2])}}
<1>1. d \in Qdb /\ ScheduleNamesOK(d) /\ DueOK(d)
  BY DEF SchedulesInv
<1>2. qn = d.queueNames
  <2>1. SUFFICES ASSUME NEW n \in QueueNames
                 PROVE  (IF \E q \in QueueIds : d.queues[q].name = n
                         THEN CHOOSE q \in QueueIds : d.queues[q].name = n ELSE 0)
                        = d.queueNames[n]
    BY <1>1, QdbFields
  <2>2. d.queueNames[n] \in QueueIds \cup {0}
    BY <1>1, QdbFields
  <2>3. \A q \in QueueIds : d.queues[q].name = n <=> q = d.queueNames[n]
    BY Zenon DEF NamesOK
  <2>4. CASE d.queueNames[n] = 0
    BY <2>3, <2>4, Ids
  <2>5. CASE d.queueNames[n] \in QueueIds
    BY <2>3, <2>5
  <2>. QED
    BY <2>2, <2>4, <2>5
<1>3. sns = d.scheduleNames
  <2>1. ASSUME NEW r \in QueueIds, NEW sn \in ScheduleNames
        PROVE  sns[<<r, sn>>] = d.scheduleNames[<<r, sn>>]
    <3>1. sns[<<r, sn>>] = IF \E s \in ScheduleIds : d.schedules[<<r, s>>].name = sn
                           THEN CHOOSE s \in ScheduleIds : d.schedules[<<r, s>>].name = sn ELSE 0
      OBVIOUS
    <3>2. d.scheduleNames[<<r, sn>>] \in ScheduleIds \cup {0}
      BY <1>1, QdbFields
    <3>3. \A s \in ScheduleIds : d.schedules[<<r, s>>].name = sn <=> s = d.scheduleNames[<<r, sn>>]
      BY <1>1 DEF ScheduleNamesOK
    <3>. HIDE DEF sns
    <3>4. CASE d.scheduleNames[<<r, sn>>] = 0
      BY <3>1, <3>3, <3>4, Ids
    <3>5. CASE d.scheduleNames[<<r, sn>>] \in ScheduleIds
      BY <3>1, <3>3, <3>5
    <3>. QED
      BY <3>2, <3>4, <3>5
  <2>2. d.scheduleNames \in [QueueIds \X ScheduleNames -> ScheduleIds \cup {0}]
    BY <1>1, QdbFields
  <2>3. \A k \in QueueIds \X ScheduleNames : sns[k] = d.scheduleNames[k]
    <3>1. SUFFICES ASSUME NEW k \in QueueIds \X ScheduleNames
                   PROVE  sns[k] = d.scheduleNames[k]
      OBVIOUS
    <3>2. PICK r \in QueueIds, sn \in ScheduleNames : k = <<r, sn>>
      OBVIOUS
    <3>. HIDE DEF sns
    <3>. QED
      BY <2>1, <3>2
  <2>4. DOMAIN sns = QueueIds \X ScheduleNames /\ sns = [k \in DOMAIN sns |-> sns[k]]
    OBVIOUS
  <2>. HIDE DEF sns
  <2>. QED
    BY <2>2, <2>3, <2>4
<1>4. due = d.scheduledIndex
  <2>1. d.scheduledIndex \subseteq Nat \X QueueIds \X ScheduleIds
    BY <1>1, QdbFields
  <2>2. ASSUME NEW x \in d.scheduledIndex
        PROVE  x \in due
    <3>1. PICK t \in Nat, r \in QueueIds, u \in ScheduleIds : x = <<t, r, u>>
      BY <2>1
    <3>2. d.schedules[<<r, u>>].name # None /\ d.schedules[<<r, u>>].nextScheduledAt = t
      BY <3>1, <1>1, Zenon DEF DueOK
    <3>3. <<r, u>> \in ScheduleKeys /\ <<r, u>>[1] = r /\ <<r, u>>[2] = u
      BY DEF ScheduleKeys
    <3>4. x = DueItem(d, r, u) /\ ScheduleExists(d, r, u)
      BY <3>1, <3>2 DEF DueItem, ScheduleExists
    <3>. QED
      BY <3>3, <3>4
  <2>3. ASSUME NEW x \in due
        PROVE  x \in d.scheduledIndex
    <3>1. PICK k \in ScheduleKeys : ScheduleExists(d, k[1], k[2]) /\ x = DueItem(d, k[1], k[2])
      OBVIOUS
    <3>2. PICK r \in QueueIds, u \in ScheduleIds : k = <<r, u>>
      BY DEF ScheduleKeys
    <3>3. /\ d.schedules[<<r, u>>].name # None /\ d.schedules[<<r, u>>].nextScheduledAt \in Nat
          /\ x = <<d.schedules[<<r, u>>].nextScheduledAt, r, u>>
      BY <3>1, <3>2, <1>1, RowTypes DEF ScheduleExists, DueItem
    <3>. QED
      BY <3>3, <1>1 DEF DueOK
  <2>. QED
    BY <2>2, <2>3
<1>. HIDE DEF qn, sns, due
<1>5. restored(d) = [queues |-> d.queues, queueNames |-> qn, schedules |-> d.schedules,
                     scheduleNames |-> sns, scheduledIndex |-> due,
                     numberOfQueues |-> d.numberOfQueues, gcRecords |-> d.gcRecords]
  BY DEF restored, qn, sns, due
<1>. QED
  BY <1>1, <1>2, <1>3, <1>4, <1>5 DEF Qdb

-------------------------------------------------------------------------------
(* The calls.                                                              *)

LEMMA InitInv == Init => IInv
<1> SUFFICES ASSUME Init PROVE IInv
  OBVIOUS
<1>1. NoQueue \in Queue /\ NoSchedule \in Schedule /\ NoQueue.name = None /\ NoSchedule.name = None
  BY DEF NoQueue, NoSchedule, Queue, Schedule
<1>2. /\ qdb = EmptyQdb /\ clock = 0 /\ fate = [q \in QueueIds |-> "unused"]
      /\ seen = [n \in QueueNames |-> NotSeen]
  BY DEF Init
<1>3. /\ \A q \in QueueIds : qdb.queues[q] = NoQueue
      /\ \A n \in QueueNames : qdb.queueNames[n] = 0
      /\ \A q \in QueueIds, s \in ScheduleIds : qdb.schedules[<<q, s>>] = NoSchedule
      /\ \A q \in QueueIds, sn \in ScheduleNames : qdb.scheduleNames[<<q, sn>>] = 0
      /\ qdb.scheduledIndex = {} /\ qdb.numberOfQueues = 0 /\ qdb.gcRecords = {}
  BY <1>2 DEF EmptyQdb, ScheduleKeys
<1>4. qdb \in Qdb
  BY <1>1, <1>2 DEF EmptyQdb, Qdb
<1>5. SchedulesInv(qdb) /\ NamesOK(qdb)
  BY <1>1, <1>3, <1>4, Ids DEF SchedulesInv, ScheduleNamesOK, DueOK, NamesOK
<1>6. \A q \in QueueIds : ~QueueExists(qdb, q) /\ \A s \in ScheduleIds : ~ScheduleExists(qdb, q, s)
  BY <1>1, <1>3 DEF QueueExists, ScheduleExists
<1>7. TablesInv(qdb)
  <2>1. QueuesOf(qdb) = {}
    BY <1>6 DEF QueuesOf
  <2>2. qdb.numberOfQueues = Cardinality(QueuesOf(qdb))
    BY <2>1, <1>3, FS_EmptySet
  <2>. QED
    BY <1>5, <1>6, <2>2 DEF TablesInv, SchedulesCounted
<1>8. fate \in [QueueIds -> Fates] /\ FateOK(qdb, fate) /\ VersionsOK(qdb)
  BY <1>2, <1>3, <1>6 DEF Fates, FateOK, VersionsOK
<1>9. seen \in [QueueNames -> Seen] /\ ReadsOK(qdb, seen)
  BY <1>2, <1>3 DEF Seen, NotSeen, ReadsOK, ReadOK
<1>. QED
  BY <1>2, <1>7, <1>8, <1>9, QueuesAssumption DEF IInv

LEMMA IInvState ==
  /\ IInv <=> StateInv(qdb, fate, seen) /\ clock \in 0 .. MaxTime
  /\ IInv' <=> StateInv(qdb', fate', seen') /\ clock' \in 0 .. MaxTime
BY Zenon DEF IInv, StateInv

\* A client remembers what it reads.
LEMMA GetQueueInv ==
  ASSUME NEW d, NEW f, NEW reads, StateInv(d, f, reads), Readers,
         NEW n \in QueueNames, NEW q \in QueueIds, d.queues[q].name = n, NEW after,
         after = [reads EXCEPT ![n] = [version |-> d.queues[q].version,
                                       settings |-> d.queues[q].settings, deleted |-> FALSE]]
  PROVE  StateInv(d, f, after)
<1> DEFINE r == [version |-> d.queues[q].version, settings |-> d.queues[q].settings,
                 deleted |-> FALSE]
<1>1. /\ d \in Qdb /\ NamesOK(d) /\ ReadsOK(d, reads) /\ reads \in [QueueNames -> Seen]
  BY DEF StateInv, TablesInv, SchedulesInv
<1>2. d.queueNames[n] = q /\ d.queues[q] \in Queue
  BY <1>1, RowTypes DEF NamesOK
<1>3. r \in Seen /\ r.version = d.queues[q].version /\ r.settings = d.queues[q].settings
  BY <1>2 DEF Seen, Queue
<1>4. d.queues[q].version \in Nat
  BY <1>2 DEF Queue
<1>. HIDE DEF r
<1>5. after = [reads EXCEPT ![n] = r]
  BY DEF r
<1>6. after \in [QueueNames -> Seen] /\ \A m \in QueueNames : after[m] = IF m = n THEN r ELSE reads[m]
  BY <1>1, <1>3, <1>5
<1>7. ReadOK(d, r, n)
  BY <1>2, <1>3, <1>4 DEF ReadOK
<1>8. ReadsOK(d, after)
  BY <1>1, <1>6, <1>7 DEF ReadsOK
<1>. QED
  BY <1>6, <1>8, Zenon DEF StateInv

\* Every step keeps the inductive invariant.
LEMMA StepInv == IInv /\ [Next]_qvars => IInv'
<1> SUFFICES ASSUME IInv, [Next]_qvars PROVE IInv'
  OBVIOUS
<1>1. /\ StateInv(qdb, fate, seen) /\ clock \in 0 .. MaxTime /\ clock \in Nat
      /\ qdb \in Qdb /\ SchedulesInv(qdb) /\ NamesOK(qdb)
  BY IInvState, QueuesAssumption DEF StateInv, TablesInv, SchedulesInv
<1>2. SUFFICES StateInv(qdb', fate', seen') /\ clock' \in 0 .. MaxTime
  BY IInvState, Zenon
<1>3. \A n \in QueueNames : getByName(qdb, n) # 0 =>
          /\ getByName(qdb, n) \in QueueIds /\ QueueExists(qdb, getByName(qdb, n))
          /\ qdb.queues[getByName(qdb, n)].name = n
  BY <1>1, LookupQueue, Zenon
<1>4. \A q \in QueueIds, sn \in ScheduleNames : getScheduleByName(qdb, q, sn) # 0 =>
          /\ getScheduleByName(qdb, q, sn) \in ScheduleIds
          /\ ScheduleExists(qdb, q, getScheduleByName(qdb, q, sn))
  BY <1>1, LookupSchedule, Zenon
<1>5. ASSUME NEW n \in QueueNames, NEW q \in QueueIds, NEW x \in Settings, CreateQueue(n, q, x)
      PROVE  StateInv(qdb', fate', seen') /\ clock' = clock
  <2>1. /\ getByName(qdb, n) = 0 /\ fate[q] = "unused" /\ clock' = clock /\ seen' = seen
        /\ qdb' = createQueue(qdb, n, q, x) /\ fate' = [fate EXCEPT ![q] = "live"]
    BY <1>5 DEF CreateQueue
  <2>2. StateInv(createQueue(qdb, n, q, x), [fate EXCEPT ![q] = "live"], seen)
    BY <2>1, <1>1, CreateQueueInv
  <2>. QED
    BY <2>1, <2>2, Zenon
<1>6. ASSUME NEW n \in QueueNames, GetQueue(n)
      PROVE  StateInv(qdb', fate', seen') /\ clock' = clock
  <2> DEFINE q == getByName(qdb, n)
  <2>1. /\ Readers /\ q # 0 /\ qdb' = qdb /\ fate' = fate /\ clock' = clock
        /\ seen' = [seen EXCEPT ![n] = [version |-> qdb.queues[q].version,
                                        settings |-> qdb.queues[q].settings, deleted |-> FALSE]]
    BY <1>6 DEF GetQueue
  <2>2. q \in QueueIds /\ qdb.queues[q].name = n
    BY <2>1, <1>3
  <2>. HIDE DEF q
  <2>3. StateInv(qdb, fate, seen')
    BY <2>1, <2>2, <1>1, GetQueueInv
  <2>. QED
    BY <2>1, <2>3, Zenon
<1>7. ASSUME NEW n \in QueueNames, NEW v \in 1 .. MaxVersion, NEW x \in Settings,
             UpdateQueue(n, v, x)
      PROVE  StateInv(qdb', fate', seen') /\ clock' = clock
  <2> DEFINE q == getByName(qdb, n)
  <2>1. /\ q # 0 /\ qdb' = updateQueue(qdb, q, x)
        /\ fate' = fate /\ seen' = seen /\ clock' = clock
    BY <1>7 DEF UpdateQueue
  <2>2. q \in QueueIds /\ QueueExists(qdb, q)
    BY <2>1, <1>3
  <2>. HIDE DEF q
  <2>3. StateInv(updateQueue(qdb, q, x), fate, seen)
    BY <2>2, <1>1, UpdateQueueInv
  <2>. QED
    BY <2>1, <2>3, Zenon
<1>8. ASSUME NEW n \in QueueNames, DeleteQueue(n)
      PROVE  StateInv(qdb', fate', seen') /\ clock' = clock
  <2> DEFINE q == getByName(qdb, n)
  <2>1. /\ q # 0 /\ qdb' = deleteQueue(qdb, q) /\ fate' = [fate EXCEPT ![q] = "deleted"]
        /\ seen' = IF Readers THEN [seen EXCEPT ![n].deleted = TRUE] ELSE seen
        /\ clock' = clock
    BY <1>8 DEF DeleteQueue
  <2>2. q \in QueueIds /\ qdb.queues[q].name = n
    BY <2>1, <1>3
  <2>. HIDE DEF q
  <2>3. StateInv(deleteQueue(qdb, q), [fate EXCEPT ![q] = "deleted"], seen')
    BY <2>1, <2>2, <1>1, DeleteQueueInv
  <2>. QED
    BY <2>1, <2>3, Zenon
<1>9. ASSUME NEW n \in QueueNames, NEW new \in QueueIds, SwapQueueId(n, new)
      PROVE  StateInv(qdb', fate', seen') /\ clock' = clock
  <2> DEFINE old == getByName(qdb, n)
  <2>1. /\ old # 0 /\ fate[new] = "unused" /\ qdb' = swapQueueId(qdb, old, new)
        /\ fate' = [fate EXCEPT ![new] = "live", ![old] = "swapped"]
        /\ clock' = clock /\ seen' = seen
    BY <1>9 DEF SwapQueueId
  <2>2. old \in QueueIds /\ qdb.queues[old].name = n
    BY <2>1, <1>3
  <2>. HIDE DEF old
  <2>3. StateInv(swapQueueId(qdb, old, new), [fate EXCEPT ![new] = "live", ![old] = "swapped"], seen)
    BY <2>1, <2>2, <1>1, SwapQueueIdInv
  <2>. QED
    BY <2>1, <2>3, Zenon
<1>10. ASSUME NEW n \in QueueNames, NEW sn \in ScheduleNames, NEW s \in ScheduleIds,
              NEW c \in Crons, CreateSchedule(n, sn, s, c)
       PROVE  StateInv(qdb', fate', seen') /\ clock' = clock
  <2> DEFINE q == getByName(qdb, n)
  <2>1. /\ q # 0 /\ ~ScheduleExists(qdb, q, s) /\ getScheduleByName(qdb, q, sn) = 0
        /\ qdb' = createSchedule(qdb, q, sn, s, c, clock)
        /\ fate' = fate /\ seen' = seen /\ clock' = clock
    BY <1>10 DEF CreateSchedule
  <2>2. q \in QueueIds /\ QueueExists(qdb, q)
    BY <2>1, <1>3
  <2>. HIDE DEF q
  <2>3. StateInv(createSchedule(qdb, q, sn, s, c, clock), fate, seen)
    BY <2>1, <2>2, <1>1, CreateScheduleInv
  <2>. QED
    BY <2>1, <2>3, Zenon
<1>11. ASSUME NEW n \in QueueNames, NEW sn \in ScheduleNames, NEW v \in 1 .. MaxVersion,
              NEW c \in Crons, UpdateSchedule(n, sn, v, c)
       PROVE  StateInv(qdb', fate', seen') /\ clock' = clock
  <2> DEFINE q == getByName(qdb, n)
             s == getScheduleByName(qdb, q, sn)
             row == [qdb.schedules[<<q, s>>] EXCEPT !.version = @ + 1, !.cron = c,
                                                    !.nextScheduledAt = NextTickAfter(c, clock)]
  <2>1. /\ q # 0 /\ s # 0 /\ qdb' = schedulesUpdate(qdb, q, s, row)
        /\ fate' = fate /\ seen' = seen /\ clock' = clock
    BY <1>11 DEF UpdateSchedule, updateSchedule
  <2>2. q \in QueueIds
    BY <2>1, <1>3
  <2>3. s \in ScheduleIds /\ ScheduleExists(qdb, q, s)
    BY <2>1, <2>2, <1>4
  <2>. HIDE DEF q, s
  <2>4. /\ qdb.schedules[<<q, s>>] \in Schedule /\ qdb.schedules[<<q, s>>].version \in Nat
        /\ NextTickAfter(c, clock) \in Nat
    BY <2>2, <2>3, <1>1, RowTypes, NextTicks
  <2>5. row \in Schedule /\ row.name = qdb.schedules[<<q, s>>].name
    <3> DEFINE old == qdb.schedules[<<q, s>>]
               w == old.version + 1
               t == NextTickAfter(c, clock)
    <3>1. old \in Schedule /\ w \in Nat /\ t \in Nat
      BY <2>4
    <3>2. row = [old EXCEPT !.version = w, !.cron = c, !.nextScheduledAt = t]
      OBVIOUS
    <3>. HIDE DEF old, w, t, row
    <3>3. row \in Schedule /\ row.name = old.name
      BY <3>1, <3>2 DEF Schedule
    <3>. QED
      BY <3>3 DEF old
  <2>. HIDE DEF row
  <2>6. StateInv(schedulesUpdate(qdb, q, s, row), fate, seen)
    BY <2>2, <2>3, <2>5, <1>1, UpdateScheduleInv
  <2>. QED
    BY <2>1, <2>6, Zenon
<1>12. ASSUME NEW n \in QueueNames, NEW sn \in ScheduleNames, DeleteSchedule(n, sn)
       PROVE  StateInv(qdb', fate', seen') /\ clock' = clock
  <2> DEFINE q == getByName(qdb, n)
             s == getScheduleByName(qdb, q, sn)
  <2>1. /\ q # 0 /\ s # 0 /\ qdb' = deleteSchedule(qdb, q, s)
        /\ fate' = fate /\ seen' = seen /\ clock' = clock
    BY <1>12 DEF DeleteSchedule
  <2>2. q \in QueueIds /\ QueueExists(qdb, q)
    BY <2>1, <1>3
  <2>3. s \in ScheduleIds /\ ScheduleExists(qdb, q, s)
    BY <2>1, <2>2, <1>4
  <2>. HIDE DEF q, s
  <2>4. StateInv(deleteSchedule(qdb, q, s), fate, seen)
    BY <2>2, <2>3, <1>1, DeleteScheduleInv
  <2>. QED
    BY <2>1, <2>4, Zenon
<1>13. ASSUME NEW q \in QueueIds, NEW s \in ScheduleIds, NEW t \in 1 .. MaxTime,
              NEW e \in EnqueuedFor, ReportSchedulesStatus(q, s, t, e)
       PROVE  StateInv(qdb', fate', seen') /\ clock' = clock
  <2> DEFINE row == [qdb.schedules[<<q, s>>] EXCEPT !.nextScheduledAt = t,
                        !.lastEnqueuedFor = IF e # 0 THEN e ELSE @]
  <2>1. /\ ScheduleExists(qdb, q, s) /\ qdb' = schedulesUpdate(qdb, q, s, row)
        /\ fate' = fate /\ seen' = seen /\ clock' = clock
    BY <1>13 DEF ReportSchedulesStatus, reportSchedulesStatus
  <2>2. qdb.schedules[<<q, s>>] \in Schedule /\ t \in Nat /\ e \in Nat
    BY <1>1, RowTypes, QueuesAssumption
  <2>3. row \in Schedule /\ row.name = qdb.schedules[<<q, s>>].name
    BY <2>2 DEF Schedule
  <2>. HIDE DEF row
  <2>4. StateInv(schedulesUpdate(qdb, q, s, row), fate, seen)
    BY <2>1, <2>3, <1>1, UpdateScheduleInv
  <2>. QED
    BY <2>1, <2>4, Zenon
<1>14. ASSUME RunQueuesGarbageCollection
       PROVE  StateInv(qdb', fate', seen') /\ clock' = clock
  <2>1. /\ qdb' = runQueuesGarbageCollection(qdb)
        /\ fate' = fate /\ seen' = seen /\ clock' = clock
    BY <1>14 DEF RunQueuesGarbageCollection
  <2>2. StateInv(runQueuesGarbageCollection(qdb), fate, seen)
    BY <1>1, CollectInv
  <2>. QED
    BY <2>1, <2>2, Zenon
<1>15. ASSUME Restore
       PROVE  StateInv(qdb', fate', seen') /\ clock' = clock
  <2>1. qdb' = restored(qdb) /\ fate' = fate /\ seen' = seen /\ clock' = clock
    BY <1>15 DEF Restore
  <2>2. qdb' = qdb
    BY <2>1, <1>1, RestoreExact
  <2>. QED
    BY <2>1, <2>2, <1>1, Zenon
<1>16. ASSUME Tick
       PROVE  StateInv(qdb', fate', seen') /\ clock' \in 0 .. MaxTime
  <2>1. /\ qdb' = qdb /\ fate' = fate /\ seen' = seen
        /\ clock < MaxTime /\ clock' = clock + 1
    BY <1>16 DEF Tick
  <2>2. StateInv(qdb', fate', seen')
    BY <2>1, <1>1, Zenon
  <2>3. clock' \in 0 .. MaxTime
    BY <2>1, <1>1, QueuesAssumption
  <2>. QED
    BY <2>2, <2>3
<1>17. ASSUME UNCHANGED qvars
       PROVE  StateInv(qdb', fate', seen') /\ clock' = clock
  <2>1. qdb' = qdb /\ fate' = fate /\ seen' = seen /\ clock' = clock
    BY <1>17 DEF qvars
  <2>. QED
    BY <2>1, <1>1, Zenon
<1>18. ASSUME QueueCalls
       PROVE  StateInv(qdb', fate', seen') /\ clock' = clock
  BY <1>18, <1>5, <1>6, <1>7, <1>8, <1>9, Zenon DEF QueueCalls
<1>19. ASSUME ScheduleCalls
       PROVE  StateInv(qdb', fate', seen') /\ clock' = clock
  BY <1>19, <1>10, <1>11, <1>12, Zenon DEF ScheduleCalls
<1>. QED
  BY <1>1, <1>13, <1>14, <1>15, <1>16, <1>17, <1>18, <1>19, Zenon DEF Next

-------------------------------------------------------------------------------
(* The theorems.                                                           *)

\* IInv holds in every state that the calls of QueuesCore can reach.
THEOREM QueuesInvariant == Spec => []IInv
BY InitInv, StepInv, PTL DEF Spec

LEMMA IInvTables ==
  IInv => /\ qdb \in Qdb /\ SchedulesInv(qdb) /\ NamesOK(qdb) /\ SchedulesCounted(qdb)
          /\ qdb.numberOfQueues = Cardinality(QueuesOf(qdb))
          /\ ScheduleNamesOK(qdb) /\ FateOK(qdb, fate) /\ ReadsOK(qdb, seen)
BY DEF IInv, TablesInv, SchedulesInv

\* Type correctness: in particular no counter goes below zero, for any limits,
\* budgets and sets of names, settings and cron expressions.
THEOREM QueuesTypes == Spec => []QueuesTypeOK
<1>1. IInv => QueuesTypeOK
  BY IInvTables, Zenon DEF IInv, QueuesTypeOK
<1>. QED
  BY <1>1, QueuesInvariant, PTL

\* A restore through Create rebuilds exactly the tables it was taken from.
THEOREM RestoreRebuilds == Spec => []RestoreIsExact
<1>1. IInv => RestoreIsExact
  BY IInvTables, RestoreExact, Zenon DEF RestoreIsExact
<1>. QED
  BY <1>1, QueuesInvariant, PTL

\* The names indexes and the index of due schedules hold what the rows say
\* after every call, a swap of ids, a collection and a restore included.
THEOREM QueueIndexes == Spec => []QueueIndexesMatchRows
<1>1. IInv => QueueIndexesMatchRows
  <2>1. ASSUME IInv
        PROVE  qdb.scheduledIndex = {DueItem(qdb, k[1], k[2]) :
                   k \in {x \in ScheduleKeys : ScheduleExists(qdb, x[1], x[2])}}
    <3>1. restored(qdb) = qdb
      BY <2>1, IInvTables, RestoreExact, Zenon
    <3>2. restored(qdb).scheduledIndex = {DueItem(qdb, k[1], k[2]) :
              k \in {x \in ScheduleKeys : ScheduleExists(qdb, x[1], x[2])}}
      BY DEF restored
    <3>. QED
      BY <3>1, <3>2, Zenon
  <2>. QED
    BY <2>1, IInvTables, Zenon DEF QueueIndexesMatchRows, NamesOK, ScheduleNamesOK
<1>. QED
  BY <1>1, QueuesInvariant, PTL

\* The counters behind the two limits, NumberOfQueues and SchedulesCount, are
\* the numbers of the rows they count.
THEOREM Counts == Spec => []CountsExact
<1>1. IInv => CountsExact
  BY IInvTables, Zenon DEF CountsExact, SchedulesCounted, QueuesOf
<1>. QED
  BY <1>1, QueuesInvariant, PTL

\* No call strands a schedule: it belongs to a queue that exists, or to a
\* deleted one whose record RunQueuesGarbageCollection still holds.
THEOREM SchedulesReachable == Spec => []NoLostSchedules
<1>1. IInv => NoLostSchedules
  <2>1. SUFFICES ASSUME IInv, NEW q \in QueueIds, SchedulesOf(qdb, q) # {}
                 PROVE  \/ fate[q] = "live" /\ QueueExists(qdb, q)
                        \/ fate[q] = "deleted" /\ q \in qdb.gcRecords
    BY DEF NoLostSchedules
  <2>2. PICK s \in ScheduleIds : ScheduleExists(qdb, q, s)
    BY <2>1 DEF SchedulesOf
  <2>3. FateOK(qdb, fate)
    BY <2>1, IInvTables
  <2>. QED
    BY <2>2, <2>3, Zenon DEF FateOK
<1>. QED
  BY <1>1, QueuesInvariant, PTL

\* Only SwapQueueId retires the id of a queue without deleting the queue.
LEMMA WhoSwaps ==
  ASSUME IInv, [Next]_qvars, NEW n \in QueueNames, getByName(qdb, n) # 0,
         fate'[getByName(qdb, n)] = "swapped"
  PROVE  \E new \in QueueIds : SwapQueueId(n, new)
<1> DEFINE old == getByName(qdb, n)
<1>1. qdb \in Qdb /\ NamesOK(qdb) /\ FateOK(qdb, fate) /\ fate \in [QueueIds -> Fates]
  BY IInvTables DEF IInv
<1>2. /\ old \in QueueIds /\ qdb.queues[old].name = n /\ QueueExists(qdb, old)
      /\ \A m \in QueueNames : getByName(qdb, m) # 0 =>
            getByName(qdb, m) \in QueueIds /\ qdb.queues[getByName(qdb, m)].name = m
  BY <1>1, LookupQueue, Zenon
<1>3. fate[old] = "live"
  BY <1>1, <1>2, Zenon DEF FateOK
<1>4. fate'[old] = "swapped"
  OBVIOUS
<1>. HIDE DEF old
<1>5. fate' # fate
  BY <1>3, <1>4
<1>6. QueueCalls
  BY <1>5, Zenon DEF Next, qvars, ScheduleCalls, CreateSchedule, UpdateSchedule, DeleteSchedule,
        ReportSchedulesStatus, RunQueuesGarbageCollection, Restore, Tick
<1>7. ASSUME NEW m \in QueueNames, NEW q \in QueueIds, NEW x \in Settings
      PROVE  ~CreateQueue(m, q, x)
  BY <1>1, <1>2, <1>3, <1>4 DEF CreateQueue
<1>8. ASSUME NEW m \in QueueNames
      PROVE  ~DeleteQueue(m)
  <2>1. SUFFICES ASSUME DeleteQueue(m) PROVE FALSE
    OBVIOUS
  <2>2. fate' = [fate EXCEPT ![getByName(qdb, m)] = "deleted"]
    BY <2>1 DEF DeleteQueue
  <2>. QED
    BY <2>2, <1>1, <1>2, <1>3, <1>4
<1>9. PICK m \in QueueNames, new \in QueueIds : SwapQueueId(m, new)
  BY <1>5, <1>6, <1>7, <1>8, Zenon DEF QueueCalls, GetQueue, UpdateQueue
<1>10. /\ getByName(qdb, m) # 0
       /\ fate' = [fate EXCEPT ![new] = "live", ![getByName(qdb, m)] = "swapped"]
  BY <1>9 DEF SwapQueueId
<1>11. getByName(qdb, m) = old
  BY <1>1, <1>2, <1>3, <1>4, <1>10
<1>12. m = n
  BY <1>2, <1>10, <1>11
<1>. QED
  BY <1>9, <1>12

\* SwapQueueId moves every schedule with its row, and leaves none behind.
THEOREM SwapKeeps == Spec => SwapKeepsSchedules
<1>1. ASSUME IInv, IInv', [Next]_qvars, NEW n \in QueueNames, getByName(qdb, n) # 0,
             fate'[getByName(qdb, n)] = "swapped"
      PROVE  /\ getByName(qdb', n) # 0 /\ SchedulesSeen(qdb', n) = SchedulesSeen(qdb, n)
             /\ SchedulesOf(qdb', getByName(qdb, n)) = {}
  <2> DEFINE old == getByName(qdb, n)
  <2>1. PICK new \in QueueIds : SwapQueueId(n, new)
    BY <1>1, WhoSwaps, Zenon
  <2>2. qdb' = swapQueueId(qdb, old, new) /\ fate[new] = "unused"
    BY <2>1 DEF SwapQueueId
  <2>3. StateInv(qdb, fate, seen) /\ qdb \in Qdb /\ NamesOK(qdb)
    BY <1>1, IInvState, IInvTables
  <2>4. old \in QueueIds /\ qdb.queues[old].name = n
    BY <1>1, <2>3, LookupQueue, Zenon
  <2>5. StateInv(qdb', fate', seen')
    BY <1>1, IInvState
  <2>6. qdb' \in Qdb /\ NamesOK(qdb')
    BY <2>5 DEF StateInv, TablesInv, SchedulesInv
  <2>7. getByName(qdb', n) = qdb'.queueNames[n]
    BY <2>6, LookupQueue
  <2>. HIDE DEF old
  <2>8. /\ qdb'.queueNames[n] = new
        /\ SchedulesOf(qdb', new) = SchedulesOf(qdb, old) /\ SchedulesOf(qdb', old) = {}
        /\ \A u \in SchedulesOf(qdb, old) : qdb'.schedules[<<new, u>>] = qdb.schedules[<<old, u>>]
    <3>1. Moved(qdb, swapQueueId(qdb, old, new), n, old, new)
      BY <2>2, <2>3, <2>4, SwapQueueIdInv
    <3>2. Moved(qdb, qdb', n, old, new)
      BY <3>1, <2>2, Zenon
    <3>. QED
      BY <3>2 DEF Moved
  <2>9. SchedulesSeen(qdb', n) = {qdb'.schedules[<<new, u>>] : u \in SchedulesOf(qdb, old)}
    BY <2>7, <2>8 DEF SchedulesSeen
  <2>10. SchedulesSeen(qdb, n) = {qdb.schedules[<<old, u>>] : u \in SchedulesOf(qdb, old)}
    BY DEF SchedulesSeen, old
  <2>11. SchedulesSeen(qdb', n) = SchedulesSeen(qdb, n)
    <3> DEFINE S == SchedulesOf(qdb, old)
    <3>1. \A u \in S : qdb'.schedules[<<new, u>>] = qdb.schedules[<<old, u>>]
      BY <2>8
    <3>2. /\ SchedulesSeen(qdb', n) = {qdb'.schedules[<<new, u>>] : u \in S}
          /\ SchedulesSeen(qdb, n) = {qdb.schedules[<<old, u>>] : u \in S}
      BY <2>9, <2>10
    <3>. HIDE DEF S
    <3>3. ASSUME NEW x PROVE x \in SchedulesSeen(qdb', n) <=> x \in SchedulesSeen(qdb, n)
      BY <3>1, <3>2
    <3>. QED
      BY <3>3
  <2>. QED
    BY <2>7, <2>8, <2>11, Ids DEF old
<1>2. IInv /\ IInv' /\ [Next]_qvars =>
         [\A n \in QueueNames :
             LET old == getByName(qdb, n)
                 new == getByName(qdb', n)
             IN  old # 0 /\ fate'[old] = "swapped" =>
                   /\ new # 0 /\ SchedulesSeen(qdb', n) = SchedulesSeen(qdb, n)
                   /\ SchedulesOf(qdb', old) = {}]_qvars
  BY <1>1, Zenon
<1>. QED
  BY <1>2, QueuesInvariant, PTL DEF Spec, SwapKeepsSchedules

\* The version check of UpdateQueue lets no update overwrite settings that its
\* caller did not read.
THEOREM NoUpdateLost == Spec => NoLostUpdate
<1>1. ASSUME IInv, NEW n \in QueueNames, NEW v \in 1 .. MaxVersion, NEW x \in Settings,
             Readers, UpdateQueue(n, v, x), ~seen[n].deleted
      PROVE  qdb.queues[getByName(qdb, n)].settings = seen[n].settings
  <2> DEFINE q == getByName(qdb, n)
  <2>1. q # 0 /\ v = seen[n].version /\ qdb.queues[q].version = v
    BY <1>1 DEF UpdateQueue
  <2>2. qdb \in Qdb /\ NamesOK(qdb) /\ ReadOK(qdb, seen[n], n)
    BY <1>1, IInvTables DEF ReadsOK
  <2>3. q = qdb.queueNames[n]
    BY <2>2, LookupQueue
  <2>. HIDE DEF q
  <2>4. PICK r \in QueueIds : /\ qdb.queueNames[n] = r
                              /\ seen[n].version = qdb.queues[r].version
                                   => seen[n].settings = qdb.queues[r].settings
    BY <2>1, <2>2, <2>3, <1>1 DEF ReadOK
  <2>. QED
    BY <2>1, <2>3, <2>4 DEF q
<1>2. IInv => [\A n \in QueueNames, v \in 1 .. MaxVersion, x \in Settings :
                  Readers /\ UpdateQueue(n, v, x) /\ ~seen[n].deleted
                  => qdb.queues[getByName(qdb, n)].settings = seen[n].settings]_qvars
  BY <1>1, Zenon
<1>. QED
  BY <1>2, QueuesInvariant, PTL DEF NoLostUpdate

===============================================================================
