--------------------------- MODULE QueuesTablesProofs -------------------------
(***************************************************************************)
(* Facts about the tables of QueuesCore.  The invariant is stated for any  *)
(* tables d, the fate f of the ids and what clients have read; each helper *)
(* and each call on a queue or on a schedule has a lemma that takes it     *)
(* from one record of tables to the next.                                  *)
(***************************************************************************)
EXTENDS QueuesCore, FiniteSetTheorems, TLAPS

NamesOK(d) ==
    \A n \in QueueNames, q \in QueueIds : d.queueNames[n] = q <=> d.queues[q].name = n

ScheduleNamesOK(d) ==
    \A q \in QueueIds, sn \in ScheduleNames, s \in ScheduleIds :
        d.scheduleNames[<<q, sn>>] = s <=> d.schedules[<<q, s>>].name = sn

\* scheduledIndex, item by item.
DueOK(d) ==
    \A t \in Nat, q \in QueueIds, s \in ScheduleIds :
        <<t, q, s>> \in d.scheduledIndex <=>
            d.schedules[<<q, s>>].name # None /\ d.schedules[<<q, s>>].nextScheduledAt = t

QueuesOf(d) == {q \in QueueIds : QueueExists(d, q)}

SchedulesCounted(d) ==
    \A q \in QueueIds : QueueExists(d, q) =>
        d.queues[q].schedulesCount = Cardinality(SchedulesOf(d, q))

\* The invariant of the schedules, and of all tables.
SchedulesInv(d) == d \in Qdb /\ ScheduleNamesOK(d) /\ DueOK(d)

TablesInv(d) ==
    /\ SchedulesInv(d) /\ NamesOK(d) /\ SchedulesCounted(d)
    /\ d.numberOfQueues = Cardinality(QueuesOf(d))

\* What fate says about the tables.
FateOK(d, f) ==
    /\ \A q \in QueueIds : QueueExists(d, q) <=> f[q] = "live"
    /\ \A q \in QueueIds, s \in ScheduleIds :
          ScheduleExists(d, q, s) => f[q] = "live" \/ q \in d.gcRecords
    /\ \A q \in d.gcRecords : f[q] = "deleted"

\* What a client read of the queue under n is no newer than the queue, and if
\* it is as new it is the same.
ReadOK(d, r, n) ==
    \/ r.deleted
    \/ d.queueNames[n] = 0 /\ r.version = 0
    \/ \E q \in QueueIds :
          /\ d.queueNames[n] = q /\ r.version <= d.queues[q].version
          /\ r.version = d.queues[q].version => r.settings = d.queues[q].settings

VersionsOK(d) == \A q \in QueueIds : QueueExists(d, q) => d.queues[q].version >= 1

ReadsOK(d, reads) ==
    /\ \A n \in QueueNames : ReadOK(d, reads[n], n)
    /\ ~Readers => \A n \in QueueNames : reads[n].version = 0

\* The inductive invariant.
IInv ==
    /\ TablesInv(qdb) /\ FateOK(qdb, fate) /\ VersionsOK(qdb) /\ ReadsOK(qdb, seen)
    /\ clock \in 0 .. MaxTime
    /\ fate \in [QueueIds -> Fates] /\ seen \in [QueueNames -> Seen]

\* The queues of two tables are the same, and so are the schedules.
SameQueues(d, e) ==
    /\ e.queues = d.queues /\ e.queueNames = d.queueNames
    /\ e.numberOfQueues = d.numberOfQueues /\ e.gcRecords = d.gcRecords

SameSchedules(d, e) ==
    /\ e.schedules = d.schedules /\ e.scheduleNames = d.scheduleNames
    /\ e.scheduledIndex = d.scheduledIndex

-------------------------------------------------------------------------------
(* Tables and their fields.                                                *)

LEMMA QdbFields ==
  ASSUME NEW d \in Qdb
  PROVE  /\ d.queues \in [QueueIds -> Queue]
         /\ d.queueNames \in [QueueNames -> QueueIds \cup {0}]
         /\ d.schedules \in [ScheduleKeys -> Schedule]
         /\ d.scheduleNames \in [QueueIds \X ScheduleNames -> ScheduleIds \cup {0}]
         /\ d.scheduledIndex \subseteq Nat \X QueueIds \X ScheduleIds
         /\ d.numberOfQueues \in Nat /\ d.gcRecords \subseteq QueueIds
BY DEF Qdb

LEMMA Ids ==
  /\ \A q \in QueueIds : q # 0 /\ q \in Nat
  /\ \A s \in ScheduleIds : s # 0 /\ s \in Nat
  /\ None \notin QueueNames /\ None \notin ScheduleNames /\ None \notin Settings
BY QueuesAssumption DEF QueueIds, ScheduleIds

LEMMA RowTypes ==
  ASSUME NEW d \in Qdb
  PROVE  /\ \A q \in QueueIds : d.queues[q] \in Queue
         /\ \A q \in QueueIds, s \in ScheduleIds :
               /\ <<q, s>> \in ScheduleKeys /\ d.schedules[<<q, s>>] \in Schedule
               /\ d.schedules[<<q, s>>].nextScheduledAt \in Nat
               /\ d.schedules[<<q, s>>].version \in Nat
               /\ d.schedules[<<q, s>>].name \in ScheduleNames \cup {None}
BY QdbFields DEF ScheduleKeys, Schedule

\* The sets that are counted are finite.
LEMMA CountedSets ==
  ASSUME NEW d
  PROVE  /\ IsFiniteSet(QueuesOf(d)) /\ Cardinality(QueuesOf(d)) \in Nat
         /\ \A q : IsFiniteSet(SchedulesOf(d, q)) /\ Cardinality(SchedulesOf(d, q)) \in Nat
<1>1. IsFiniteSet(QueueIds) /\ IsFiniteSet(ScheduleIds)
  BY FS_Interval, QueuesAssumption DEF QueueIds, ScheduleIds
<1>2. QueuesOf(d) \in SUBSET QueueIds /\ \A q : SchedulesOf(d, q) \in SUBSET ScheduleIds
  BY DEF QueuesOf, SchedulesOf
<1>3. IsFiniteSet(QueuesOf(d)) /\ \A q : IsFiniteSet(SchedulesOf(d, q))
  BY <1>1, <1>2, FS_Subset
<1>. QED
  BY <1>3, FS_CardinalityType

\* A lookup by name finds the entry of the index, because it has a row.
LEMMA LookupQueue ==
  ASSUME NEW d, d \in Qdb, NamesOK(d), NEW n \in QueueNames
  PROVE  /\ getByName(d, n) = d.queueNames[n] /\ getByName(d, n) \in QueueIds \cup {0}
         /\ getByName(d, n) # 0 => /\ getByName(d, n) \in QueueIds
                                   /\ d.queues[getByName(d, n)].name = n
                                   /\ QueueExists(d, getByName(d, n))
<1>1. d.queueNames[n] \in QueueIds \cup {0}
  BY QdbFields
<1>2. d.queueNames[n] \in QueueIds => d.queues[d.queueNames[n]].name = n
  BY Zenon DEF NamesOK
<1>3. d.queueNames[n] \in QueueIds => QueueExists(d, d.queueNames[n])
  BY <1>2, Ids DEF QueueExists
<1>4. getByName(d, n) = d.queueNames[n]
  BY <1>1, <1>3 DEF getByName
<1>. QED
  BY <1>1, <1>2, <1>3, <1>4, Zenon

LEMMA LookupSchedule ==
  ASSUME NEW d, SchedulesInv(d), NEW q \in QueueIds, NEW sn \in ScheduleNames
  PROVE  LET s == getScheduleByName(d, q, sn)
         IN  /\ s = d.scheduleNames[<<q, sn>>]
             /\ s # 0 => s \in ScheduleIds /\ d.schedules[<<q, s>>].name = sn
                         /\ ScheduleExists(d, q, s)
<1> DEFINE s == d.scheduleNames[<<q, sn>>]
<1>1. s \in ScheduleIds \cup {0}
  BY QdbFields DEF SchedulesInv
<1>2. s \in ScheduleIds => d.schedules[<<q, s>>].name = sn
  BY Zenon DEF SchedulesInv, ScheduleNamesOK
<1>3. s \in ScheduleIds => ScheduleExists(d, q, s)
  BY <1>2, Ids DEF ScheduleExists
<1>4. getScheduleByName(d, q, sn) = s
  BY <1>1, <1>3 DEF getScheduleByName
<1>. HIDE DEF s
<1>. QED
  BY <1>1, <1>2, <1>3, <1>4 DEF s

-------------------------------------------------------------------------------
(* The helpers that change schedules.                                      *)

\* From d to e schedule s of q was added, the schedules in K were dropped, or
\* rows of schedules changed.
Added(d, e, q, s) ==
    /\ SchedulesInv(e) /\ SameQueues(d, e)
    /\ SchedulesOf(e, q) = SchedulesOf(d, q) \cup {s}
    /\ \A r \in QueueIds \ {q} : SchedulesOf(e, r) = SchedulesOf(d, r)

Dropped(d, e, K) ==
    /\ SchedulesInv(e) /\ SameQueues(d, e)
    /\ \A r \in QueueIds : SchedulesOf(e, r) = {u \in SchedulesOf(d, r) : <<r, u>> \notin K}

Changed(d, e) ==
    /\ SchedulesInv(e) /\ SameQueues(d, e)
    /\ \A r \in QueueIds : SchedulesOf(e, r) = SchedulesOf(d, r)

LEMMA SchedulesCreate ==
  ASSUME NEW d, SchedulesInv(d), NEW q \in QueueIds, NEW s \in ScheduleIds,
         NEW row \in Schedule, row.name \in ScheduleNames,
         ~ScheduleExists(d, q, s), d.scheduleNames[<<q, row.name>>] = 0
  PROVE  Added(d, schedulesCreate(d, q, s, row), q, s)
<1> DEFINE e == schedulesCreate(d, q, s, row)
<1>1. /\ d \in Qdb /\ ScheduleNamesOK(d) /\ DueOK(d)
      /\ d.schedules[<<q, s>>].name = None /\ row.name # None
      /\ row.nextScheduledAt \in Nat
  BY Ids DEF SchedulesInv, ScheduleExists, Schedule
<1>2. /\ SameQueues(d, e)
      /\ e.scheduledIndex = d.scheduledIndex \cup {<<row.nextScheduledAt, q, s>>}
      /\ e.scheduleNames = [d.scheduleNames EXCEPT ![<<q, row.name>>] = s]
      /\ e.schedules = [d.schedules EXCEPT ![<<q, s>>] = row]
      /\ e \in Qdb
  <2> DEFINE index == d.scheduledIndex \cup {<<row.nextScheduledAt, q, s>>}
             names == [d.scheduleNames EXCEPT ![<<q, row.name>>] = s]
             rows == [d.schedules EXCEPT ![<<q, s>>] = row]
  <2>1. /\ index \in SUBSET (Nat \X QueueIds \X ScheduleIds)
        /\ names \in [QueueIds \X ScheduleNames -> ScheduleIds \cup {0}]
        /\ rows \in [ScheduleKeys -> Schedule]
    BY <1>1, QdbFields DEF ScheduleKeys
  <2>2. e = [d EXCEPT !.scheduledIndex = index, !.scheduleNames = names, !.schedules = rows]
    BY DEF schedulesCreate
  <2>. HIDE DEF index, names, rows, e
  <2>3. /\ e \in Qdb /\ SameQueues(d, e)
        /\ e.scheduledIndex = index /\ e.scheduleNames = names /\ e.schedules = rows
    BY <1>1, <2>1, <2>2 DEF Qdb, SameQueues
  <2>. QED
    BY <2>3 DEF index, names, rows
<1>. HIDE DEF e
<1>3. \A r \in QueueIds, u \in ScheduleIds :
        e.schedules[<<r, u>>] = IF r = q /\ u = s THEN row ELSE d.schedules[<<r, u>>]
  BY <1>1, <1>2, QdbFields DEF ScheduleKeys
<1>4. \A r \in QueueIds, sn \in ScheduleNames :
        e.scheduleNames[<<r, sn>>] =
            IF r = q /\ sn = row.name THEN s ELSE d.scheduleNames[<<r, sn>>]
  BY <1>1, <1>2, QdbFields
<1>5. ScheduleNamesOK(e)
  <2>1. SUFFICES ASSUME NEW r \in QueueIds, NEW sn \in ScheduleNames, NEW u \in ScheduleIds
                 PROVE  e.scheduleNames[<<r, sn>>] = u <=> e.schedules[<<r, u>>].name = sn
    BY Zenon DEF ScheduleNamesOK
  <2>2. d.scheduleNames[<<r, sn>>] = u <=> d.schedules[<<r, u>>].name = sn
    BY <1>1 DEF ScheduleNamesOK
  <2>3. u # 0 /\ sn # None
    BY Ids
  <2>4. CASE r = q /\ sn = row.name
    BY <2>2, <2>3, <2>4, <1>1, <1>3, <1>4
  <2>5. CASE ~(r = q /\ sn = row.name)
    BY <2>2, <2>3, <2>5, <1>1, <1>3, <1>4
  <2>. QED
    BY <2>4, <2>5
<1>6. DueOK(e)
  <2>1. SUFFICES ASSUME NEW t \in Nat, NEW r \in QueueIds, NEW u \in ScheduleIds
                 PROVE  <<t, r, u>> \in e.scheduledIndex <=>
                          e.schedules[<<r, u>>].name # None
                          /\ e.schedules[<<r, u>>].nextScheduledAt = t
    BY Zenon DEF DueOK
  <2>2. <<t, r, u>> \in d.scheduledIndex <=>
            d.schedules[<<r, u>>].name # None /\ d.schedules[<<r, u>>].nextScheduledAt = t
    BY <1>1 DEF DueOK
  <2>3. <<t, r, u>> \in e.scheduledIndex <=>
            \/ <<t, r, u>> \in d.scheduledIndex
            \/ t = row.nextScheduledAt /\ r = q /\ u = s
    BY <1>2
  <2>. QED
    BY <2>2, <2>3, <1>1, <1>3
<1>7. \A r \in QueueIds, u \in ScheduleIds :
        ScheduleExists(e, r, u) <=> ScheduleExists(d, r, u) \/ (r = q /\ u = s)
  BY <1>1, <1>3 DEF ScheduleExists
<1>8. /\ SchedulesOf(e, q) = SchedulesOf(d, q) \cup {s}
      /\ \A r \in QueueIds \ {q} : SchedulesOf(e, r) = SchedulesOf(d, r)
  BY <1>7 DEF SchedulesOf
<1>9. SchedulesInv(e) /\ SameQueues(d, e)
  BY <1>2, <1>5, <1>6, Zenon DEF SchedulesInv
<1>10. Added(d, e, q, s)
  BY <1>8, <1>9, Zenon DEF Added
<1>. QED
  BY <1>10 DEF e

LEMMA SchedulesUpdate ==
  ASSUME NEW d, SchedulesInv(d), NEW q \in QueueIds, NEW s \in ScheduleIds,
         ScheduleExists(d, q, s),
         NEW row \in Schedule, row.name = d.schedules[<<q, s>>].name
  PROVE  Changed(d, schedulesUpdate(d, q, s, row))
<1> DEFINE e == schedulesUpdate(d, q, s, row)
<1>1. /\ d \in Qdb /\ ScheduleNamesOK(d) /\ DueOK(d)
      /\ row.name # None /\ row.nextScheduledAt \in Nat
  BY DEF SchedulesInv, ScheduleExists, Schedule
<1>2. /\ SameQueues(d, e) /\ e.scheduleNames = d.scheduleNames
      /\ e.scheduledIndex = (d.scheduledIndex \ {DueItem(d, q, s)})
                                \cup {<<row.nextScheduledAt, q, s>>}
      /\ e.schedules = [d.schedules EXCEPT ![<<q, s>>] = row]
      /\ e \in Qdb
  <2> DEFINE index == (d.scheduledIndex \ {DueItem(d, q, s)})
                          \cup {<<row.nextScheduledAt, q, s>>}
             rows == [d.schedules EXCEPT ![<<q, s>>] = row]
  <2>1. /\ index \in SUBSET (Nat \X QueueIds \X ScheduleIds)
        /\ d.scheduleNames \in [QueueIds \X ScheduleNames -> ScheduleIds \cup {0}]
        /\ rows \in [ScheduleKeys -> Schedule]
    <3>1. <<row.nextScheduledAt, q, s>> \in Nat \X QueueIds \X ScheduleIds
      BY <1>1
    <3>2. d.scheduledIndex \subseteq Nat \X QueueIds \X ScheduleIds
      BY <1>1, QdbFields, Zenon
    <3>3. index \in SUBSET (Nat \X QueueIds \X ScheduleIds)
      BY <3>1, <3>2, Zenon
    <3>. HIDE DEF index
    <3>. QED
      BY <1>1, <3>3, QdbFields DEF ScheduleKeys
  <2>2. e = [d EXCEPT !.scheduledIndex = index, !.scheduleNames = d.scheduleNames,
                      !.schedules = rows]
    BY <1>1 DEF schedulesUpdate, Qdb
  <2>. HIDE DEF index, rows, e
  <2>3. /\ e \in Qdb /\ SameQueues(d, e) /\ e.scheduledIndex = index
        /\ e.scheduleNames = d.scheduleNames /\ e.schedules = rows
    BY <1>1, <2>1, <2>2 DEF Qdb, SameQueues
  <2>. QED
    BY <2>3 DEF index, rows
<1>. HIDE DEF e
<1>3. \A r \in QueueIds, u \in ScheduleIds :
        e.schedules[<<r, u>>] = IF r = q /\ u = s THEN row ELSE d.schedules[<<r, u>>]
  BY <1>1, <1>2, QdbFields DEF ScheduleKeys
<1>4. \A r \in QueueIds, u \in ScheduleIds :
        e.schedules[<<r, u>>].name = d.schedules[<<r, u>>].name
  BY <1>3
<1>5. ScheduleNamesOK(e)
  <2>1. SUFFICES ASSUME NEW r \in QueueIds, NEW sn \in ScheduleNames, NEW u \in ScheduleIds
                 PROVE  e.scheduleNames[<<r, sn>>] = u <=> e.schedules[<<r, u>>].name = sn
    BY Zenon DEF ScheduleNamesOK
  <2>2. d.scheduleNames[<<r, sn>>] = u <=> d.schedules[<<r, u>>].name = sn
    BY <1>1 DEF ScheduleNamesOK
  <2>. QED
    BY <2>2, <1>2, <1>4
<1>6. DueOK(e)
  <2>1. SUFFICES ASSUME NEW t \in Nat, NEW r \in QueueIds, NEW u \in ScheduleIds
                 PROVE  <<t, r, u>> \in e.scheduledIndex <=>
                          e.schedules[<<r, u>>].name # None
                          /\ e.schedules[<<r, u>>].nextScheduledAt = t
    BY Zenon DEF DueOK
  <2>2. <<t, r, u>> \in d.scheduledIndex <=>
            d.schedules[<<r, u>>].name # None /\ d.schedules[<<r, u>>].nextScheduledAt = t
    BY <1>1, Zenon DEF DueOK
  <2>3. <<t, r, u>> \in e.scheduledIndex <=>
            \/ <<t, r, u>> \in d.scheduledIndex
               /\ ~(t = d.schedules[<<q, s>>].nextScheduledAt /\ r = q /\ u = s)
            \/ t = row.nextScheduledAt /\ r = q /\ u = s
    BY <1>2 DEF DueItem
  <2>. QED
    BY <2>2, <2>3, <1>1, <1>3
<1>7. \A r \in QueueIds, u \in ScheduleIds : ScheduleExists(e, r, u) <=> ScheduleExists(d, r, u)
  BY <1>4, Zenon DEF ScheduleExists
<1>8. \A r \in QueueIds : SchedulesOf(e, r) = SchedulesOf(d, r)
  BY <1>7 DEF SchedulesOf
<1>9. SchedulesInv(e) /\ SameQueues(d, e)
  BY <1>2, <1>5, <1>6, Zenon DEF SchedulesInv
<1>10. Changed(d, e)
  BY <1>8, <1>9, Zenon DEF Changed
<1>. QED
  BY <1>10 DEF e

LEMMA SchedulesDelete ==
  ASSUME NEW d, SchedulesInv(d), NEW K \in SUBSET ScheduleKeys,
         \A k \in K : ScheduleExists(d, k[1], k[2])
  PROVE  Dropped(d, schedulesDelete(d, K), K)
<1> DEFINE e == schedulesDelete(d, K)
<1>1. d \in Qdb /\ ScheduleNamesOK(d) /\ DueOK(d) /\ NoSchedule \in Schedule
  BY DEF SchedulesInv, NoSchedule, Schedule
<1>2. /\ SameQueues(d, e)
      /\ e.scheduledIndex = d.scheduledIndex \ {DueItem(d, k[1], k[2]) : k \in K}
      /\ e.scheduleNames = [n \in QueueIds \X ScheduleNames |->
             IF \E k \in K : n = <<k[1], d.schedules[k].name>> THEN 0 ELSE d.scheduleNames[n]]
      /\ e.schedules = [k \in ScheduleKeys |->
             IF k \in K THEN NoSchedule ELSE d.schedules[k]]
      /\ e \in Qdb
  <2>1. /\ SameQueues(d, e)
        /\ e.scheduledIndex = d.scheduledIndex \ {DueItem(d, k[1], k[2]) : k \in K}
        /\ e.scheduleNames = [n \in QueueIds \X ScheduleNames |->
               IF \E k \in K : n = <<k[1], d.schedules[k].name>> THEN 0 ELSE d.scheduleNames[n]]
        /\ e.schedules = [k \in ScheduleKeys |->
               IF k \in K THEN NoSchedule ELSE d.schedules[k]]
    BY <1>1 DEF schedulesDelete, Qdb, SameQueues
  <2>2. /\ e.scheduledIndex \subseteq Nat \X QueueIds \X ScheduleIds
        /\ e.scheduleNames \in [QueueIds \X ScheduleNames -> ScheduleIds \cup {0}]
        /\ e.schedules \in [ScheduleKeys -> Schedule]
    BY <1>1, <2>1, QdbFields
  <2>3. e = [d EXCEPT !.scheduledIndex = e.scheduledIndex,
                      !.scheduleNames = e.scheduleNames, !.schedules = e.schedules]
    BY <1>1 DEF schedulesDelete, Qdb
  <2>. HIDE DEF e
  <2>. QED
    BY <1>1, <2>1, <2>2, <2>3 DEF Qdb
<1>. HIDE DEF e
<1>3. \A k \in K : \E r \in QueueIds, u \in ScheduleIds :
         k = <<r, u>> /\ k[1] = r /\ k[2] = u
  BY DEF ScheduleKeys
<1>4. \A r \in QueueIds, u \in ScheduleIds :
        e.schedules[<<r, u>>] = IF <<r, u>> \in K THEN NoSchedule ELSE d.schedules[<<r, u>>]
  BY <1>2 DEF ScheduleKeys
<1>5. ASSUME NEW r \in QueueIds, NEW sn \in ScheduleNames
      PROVE  e.scheduleNames[<<r, sn>>] =
               IF \E u \in ScheduleIds : <<r, u>> \in K /\ d.schedules[<<r, u>>].name = sn
               THEN 0 ELSE d.scheduleNames[<<r, sn>>]
  <2>1. (\E k \in K : <<r, sn>> = <<k[1], d.schedules[k].name>>)
          <=> \E u \in ScheduleIds : <<r, u>> \in K /\ d.schedules[<<r, u>>].name = sn
    <3>1. ASSUME NEW k \in K, <<r, sn>> = <<k[1], d.schedules[k].name>>
          PROVE  \E u \in ScheduleIds : <<r, u>> \in K /\ d.schedules[<<r, u>>].name = sn
      <4>1. k = <<r, k[2]>> /\ k[2] \in ScheduleIds /\ d.schedules[k].name = sn
        BY <3>1, <1>3
      <4>. QED
        BY <4>1
    <3>2. ASSUME NEW u \in ScheduleIds, <<r, u>> \in K, d.schedules[<<r, u>>].name = sn
          PROVE  \E k \in K : <<r, sn>> = <<k[1], d.schedules[k].name>>
      BY <3>2
    <3>. QED
      BY <3>1, <3>2
  <2>. QED
    BY <1>2, <2>1
<1>6. ScheduleNamesOK(e)
  <2>1. SUFFICES ASSUME NEW r \in QueueIds, NEW sn \in ScheduleNames, NEW u \in ScheduleIds
                 PROVE  e.scheduleNames[<<r, sn>>] = u <=> e.schedules[<<r, u>>].name = sn
    BY Zenon DEF ScheduleNamesOK
  <2>2. \A v \in ScheduleIds :
           d.scheduleNames[<<r, sn>>] = v <=> d.schedules[<<r, v>>].name = sn
    BY <1>1, Zenon DEF ScheduleNamesOK
  <2>3. u # 0 /\ sn # None /\ NoSchedule.name = None
    BY Ids DEF NoSchedule
  <2>4. CASE \E v \in ScheduleIds : <<r, v>> \in K /\ d.schedules[<<r, v>>].name = sn
    <3>1. PICK v \in ScheduleIds : <<r, v>> \in K /\ d.schedules[<<r, v>>].name = sn
      BY <2>4
    <3>2. e.scheduleNames[<<r, sn>>] = 0
      BY <2>4, <1>5
    <3>3. <<r, u>> \notin K => d.schedules[<<r, u>>].name # sn
      BY <3>1, <2>2
    <3>. QED
      BY <3>2, <3>3, <2>3, <1>4
  <2>5. CASE ~\E v \in ScheduleIds : <<r, v>> \in K /\ d.schedules[<<r, v>>].name = sn
    <3>1. e.scheduleNames[<<r, sn>>] = d.scheduleNames[<<r, sn>>]
      BY <2>5, <1>5
    <3>. QED
      BY <3>1, <2>2, <2>3, <2>5, <1>4
  <2>. QED
    BY <2>4, <2>5
<1>7. DueOK(e)
  <2>1. SUFFICES ASSUME NEW t \in Nat, NEW r \in QueueIds, NEW u \in ScheduleIds
                 PROVE  <<t, r, u>> \in e.scheduledIndex <=>
                          e.schedules[<<r, u>>].name # None
                          /\ e.schedules[<<r, u>>].nextScheduledAt = t
    BY Zenon DEF DueOK
  <2>2. <<t, r, u>> \in d.scheduledIndex <=>
            d.schedules[<<r, u>>].name # None /\ d.schedules[<<r, u>>].nextScheduledAt = t
    BY <1>1, Zenon DEF DueOK
  <2>3. (\E k \in K : <<t, r, u>> = DueItem(d, k[1], k[2]))
           <=> <<r, u>> \in K /\ t = d.schedules[<<r, u>>].nextScheduledAt
    BY <1>3 DEF DueItem
  <2>4. <<t, r, u>> \in e.scheduledIndex <=>
            <<t, r, u>> \in d.scheduledIndex
            /\ ~(<<r, u>> \in K /\ t = d.schedules[<<r, u>>].nextScheduledAt)
    BY <1>2, <2>3
  <2>. QED
    BY <2>2, <2>4, <1>4 DEF NoSchedule
<1>8. \A r \in QueueIds, u \in ScheduleIds :
        ScheduleExists(e, r, u) <=> ScheduleExists(d, r, u) /\ <<r, u>> \notin K
  <2>1. NoSchedule.name = None
    BY DEF NoSchedule
  <2>. QED
    BY <1>4, <2>1 DEF ScheduleExists
<1>9. \A r \in QueueIds : SchedulesOf(e, r) = {u \in SchedulesOf(d, r) : <<r, u>> \notin K}
  BY <1>8 DEF SchedulesOf
<1>10. SchedulesInv(e) /\ SameQueues(d, e)
  BY <1>2, <1>6, <1>7, Zenon DEF SchedulesInv
<1>11. Dropped(d, e, K)
  BY <1>9, <1>10, Zenon DEF Dropped
<1>. QED
  BY <1>11 DEF e

-------------------------------------------------------------------------------
(* What a call leaves alone stays in step.                                 *)

\* But for their SchedulesCount, the queues are the same.
SameRows(d, e) ==
    /\ e.queueNames = d.queueNames /\ e.numberOfQueues = d.numberOfQueues
    /\ \A q \in QueueIds : /\ e.queues[q].name = d.queues[q].name
                           /\ e.queues[q].version = d.queues[q].version
                           /\ e.queues[q].settings = d.queues[q].settings

LEMMA SameRowsInv ==
  ASSUME NEW d, NEW e, SameRows(d, e), NEW reads
  PROVE  /\ NamesOK(d) => NamesOK(e)
         /\ QueuesOf(e) = QueuesOf(d)
         /\ \A q \in QueueIds : QueueExists(e, q) <=> QueueExists(d, q)
         /\ VersionsOK(d) => VersionsOK(e)
         /\ ReadsOK(d, reads) => ReadsOK(e, reads)
<1>1. NamesOK(d) => NamesOK(e)
  BY DEF SameRows, NamesOK
<1>2. \A q \in QueueIds : QueueExists(e, q) <=> QueueExists(d, q)
  BY Zenon DEF SameRows, QueueExists
<1>3. QueuesOf(e) = QueuesOf(d)
  BY <1>2 DEF QueuesOf
<1>4. VersionsOK(d) => VersionsOK(e)
  BY <1>2, Zenon DEF SameRows, VersionsOK
<1>5. \A n \in QueueNames : ReadOK(d, reads[n], n) => ReadOK(e, reads[n], n)
  BY Zenon DEF SameRows, ReadOK
<1>. QED
  BY <1>1, <1>2, <1>3, <1>4, <1>5, Zenon DEF ReadsOK

LEMMA SameSchedulesInv ==
  ASSUME NEW d, NEW e, SchedulesInv(d), SameSchedules(d, e), e \in Qdb
  PROVE  /\ SchedulesInv(e)
         /\ \A q \in QueueIds : SchedulesOf(e, q) = SchedulesOf(d, q)
         /\ \A q \in QueueIds, s \in ScheduleIds : ScheduleExists(e, q, s) <=> ScheduleExists(d, q, s)
<1>1. ScheduleNamesOK(e) /\ DueOK(e)
  BY DEF SchedulesInv, SameSchedules, ScheduleNamesOK, DueOK
<1>. QED
  BY <1>1, Zenon DEF SchedulesInv, SameSchedules, SchedulesOf, ScheduleExists

\* The whole state of the core but for its clock.
StateInv(d, f, reads) ==
    /\ TablesInv(d) /\ FateOK(d, f) /\ VersionsOK(d) /\ ReadsOK(d, reads)
    /\ f \in [QueueIds -> Fates] /\ reads \in [QueueNames -> Seen]

-------------------------------------------------------------------------------
(* The calls on queues.                                                    *)

LEMMA CreateQueueInv ==
  ASSUME NEW d, NEW f, NEW reads, StateInv(d, f, reads),
         NEW n \in QueueNames, NEW q \in QueueIds, NEW x \in Settings,
         getByName(d, n) = 0, f[q] = "unused"
  PROVE  StateInv(createQueue(d, n, q, x), [f EXCEPT ![q] = "live"], reads)
<1> DEFINE row == [name |-> n, version |-> 1, settings |-> x, schedulesCount |-> 0]
           e == createQueue(d, n, q, x)
           g == [f EXCEPT ![q] = "live"]
<1>1. /\ d \in Qdb /\ SchedulesInv(d) /\ NamesOK(d) /\ SchedulesCounted(d)
      /\ d.numberOfQueues = Cardinality(QueuesOf(d)) /\ d.numberOfQueues \in Nat
      /\ FateOK(d, f) /\ VersionsOK(d) /\ ReadsOK(d, reads)
      /\ f \in [QueueIds -> Fates] /\ reads \in [QueueNames -> Seen]
  BY QdbFields DEF StateInv, TablesInv, SchedulesInv
<1>2. d.queueNames[n] = 0 /\ ~QueueExists(d, q)
  BY <1>1, LookupQueue DEF FateOK
<1>3. row \in Queue /\ row.name = n /\ row.version = 1 /\ row.schedulesCount = 0
  BY DEF Queue
<1>. HIDE DEF row
<1>4. /\ SameSchedules(d, e) /\ e.gcRecords = d.gcRecords
      /\ e.queues = [d.queues EXCEPT ![q] = row]
      /\ e.queueNames = [d.queueNames EXCEPT ![n] = q]
      /\ e.numberOfQueues = d.numberOfQueues + 1
  BY <1>1, <1>3 DEF createQueue, queuesCreate, Qdb, SameSchedules, row
<1>5. e \in Qdb
  <2>1. /\ [d.queues EXCEPT ![q] = row] \in [QueueIds -> Queue]
        /\ [d.queueNames EXCEPT ![n] = q] \in [QueueNames -> QueueIds \cup {0}]
        /\ d.numberOfQueues + 1 \in Nat
    BY <1>1, <1>3, QdbFields
  <2>2. e = [d EXCEPT !.queues = [d.queues EXCEPT ![q] = row],
                      !.queueNames = [d.queueNames EXCEPT ![n] = q],
                      !.numberOfQueues = d.numberOfQueues + 1]
    BY <1>1, <1>3 DEF createQueue, queuesCreate, Qdb, row
  <2>. QED
    BY <1>1, <2>1, <2>2 DEF Qdb
<1>. HIDE DEF e
<1>6. /\ \A r \in QueueIds : e.queues[r] = IF r = q THEN row ELSE d.queues[r]
      /\ \A m \in QueueNames : e.queueNames[m] = IF m = n THEN q ELSE d.queueNames[m]
  BY <1>1, <1>4, QdbFields
<1>7. /\ SchedulesInv(e)
      /\ \A r \in QueueIds : SchedulesOf(e, r) = SchedulesOf(d, r)
      /\ \A r \in QueueIds, s \in ScheduleIds : ScheduleExists(e, r, s) <=> ScheduleExists(d, r, s)
  BY <1>1, <1>4, <1>5, SameSchedulesInv, Zenon
<1>8. NamesOK(e)
  <2>1. SUFFICES ASSUME NEW m \in QueueNames, NEW r \in QueueIds
                 PROVE  e.queueNames[m] = r <=> e.queues[r].name = m
    BY Zenon DEF NamesOK
  <2>2. /\ d.queueNames[m] = r <=> d.queues[r].name = m
        /\ d.queueNames[m] = q <=> d.queues[q].name = m
        /\ r # 0 /\ m # None
    BY <1>1, Ids DEF NamesOK
  <2>. QED
    BY <2>2, <1>2, <1>3, <1>6 DEF QueueExists
<1>9. \A r \in QueueIds : QueueExists(e, r) <=> QueueExists(d, r) \/ r = q
  BY <1>3, <1>6, Ids DEF QueueExists
<1>10. e.numberOfQueues = Cardinality(QueuesOf(e))
  <2>1. QueuesOf(e) = QueuesOf(d) \cup {q} /\ q \notin QueuesOf(d)
    BY <1>2, <1>9 DEF QueuesOf
  <2>2. IsFiniteSet(QueuesOf(d))
    BY CountedSets
  <2>3. Cardinality(QueuesOf(e)) = Cardinality(QueuesOf(d)) + 1
    BY <2>1, <2>2, FS_AddElement
  <2>. QED
    BY <2>3, <1>1, <1>4
<1>11. SchedulesOf(d, q) = {}
  BY <1>1 DEF FateOK, SchedulesOf
<1>12. SchedulesCounted(e)
  <2>1. SUFFICES ASSUME NEW r \in QueueIds, QueueExists(e, r)
                 PROVE  e.queues[r].schedulesCount = Cardinality(SchedulesOf(e, r))
    BY Zenon DEF SchedulesCounted
  <2>2. CASE r = q
    BY <2>2, <1>3, <1>6, <1>7, <1>11, FS_EmptySet
  <2>3. CASE r # q
    BY <2>1, <2>3, <1>1, <1>6, <1>7, <1>9, Zenon DEF SchedulesCounted
  <2>. QED
    BY <2>2, <2>3
<1>13. /\ g \in [QueueIds -> Fates]
       /\ \A r \in QueueIds : g[r] = IF r = q THEN "live" ELSE f[r]
  BY <1>1 DEF Fates
<1>. HIDE DEF g
<1>14. FateOK(e, g)
  BY <1>1, <1>4, <1>7, <1>9, <1>13, QdbFields DEF FateOK
<1>15. VersionsOK(e)
  BY <1>1, <1>3, <1>6, <1>9 DEF VersionsOK
<1>16. ReadsOK(e, reads)
  <2>1. SUFFICES ASSUME NEW m \in QueueNames, ~reads[m].deleted
                 PROVE  ReadOK(e, reads[m], m)
    BY <1>1, Zenon DEF ReadsOK, ReadOK
  <2>2. ReadOK(d, reads[m], m)
    BY <1>1, Zenon DEF ReadsOK
  <2>3. CASE m = n
    <3>1. reads[m].version = 0
      BY <2>1, <2>2, <2>3, <1>2, Ids, Zenon DEF ReadOK
    <3>. QED
      BY <3>1, <2>3, <1>3, <1>6 DEF ReadOK
  <2>4. CASE m # n
    <3>1. e.queueNames[m] = d.queueNames[m] /\ d.queueNames[m] # q
      BY <2>4, <1>1, <1>2, <1>6, Ids DEF NamesOK, QueueExists
    <3>. QED
      BY <3>1, <2>2, <1>6, Zenon DEF ReadOK
  <2>. QED
    BY <2>3, <2>4
<1>. QED
  BY <1>1, <1>7, <1>8, <1>10, <1>12, <1>13, <1>14, <1>15, <1>16, Zenon
     DEF StateInv, TablesInv, e, g

LEMMA UpdateQueueInv ==
  ASSUME NEW d, NEW f, NEW reads, StateInv(d, f, reads),
         NEW q \in QueueIds, QueueExists(d, q), NEW x \in Settings
  PROVE  StateInv(updateQueue(d, q, x), f, reads)
<1> DEFINE row == [d.queues[q] EXCEPT !.settings = x, !.version = @ + 1]
           e == updateQueue(d, q, x)
<1>1. /\ d \in Qdb /\ SchedulesInv(d) /\ NamesOK(d) /\ SchedulesCounted(d)
      /\ d.numberOfQueues = Cardinality(QueuesOf(d))
      /\ FateOK(d, f) /\ VersionsOK(d) /\ ReadsOK(d, reads)
      /\ f \in [QueueIds -> Fates] /\ reads \in [QueueNames -> Seen]
      /\ d.queues[q] \in Queue /\ d.queues[q].version \in Nat
  BY RowTypes DEF StateInv, TablesInv, SchedulesInv, Queue
<1>2. /\ row \in Queue /\ row.name = d.queues[q].name
      /\ row.version = d.queues[q].version + 1
      /\ row.schedulesCount = d.queues[q].schedulesCount
  <2> DEFINE v == d.queues[q].version + 1
  <2>1. v \in Nat /\ row = [d.queues[q] EXCEPT !.settings = x, !.version = v]
    BY <1>1 DEF Queue
  <2>. HIDE DEF v, row
  <2>. QED
    BY <1>1, <2>1 DEF Queue, v
<1>3. e = [d EXCEPT !.queues = [d.queues EXCEPT ![q] = row]]
  BY <1>1 DEF updateQueue, Qdb, Queue
<1>. HIDE DEF row, e
<1>4. /\ e \in Qdb /\ SameSchedules(d, e) /\ e.gcRecords = d.gcRecords
      /\ e.queueNames = d.queueNames /\ e.numberOfQueues = d.numberOfQueues
      /\ e.queues = [d.queues EXCEPT ![q] = row]
  BY <1>1, <1>2, <1>3 DEF Qdb, SameSchedules
<1>5. \A r \in QueueIds : e.queues[r] = IF r = q THEN row ELSE d.queues[r]
  BY <1>1, <1>4, QdbFields
<1>6. \A r \in QueueIds : /\ e.queues[r].name = d.queues[r].name
                          /\ e.queues[r].schedulesCount = d.queues[r].schedulesCount
  BY <1>2, <1>5
<1>7. /\ SchedulesInv(e)
      /\ \A r \in QueueIds : SchedulesOf(e, r) = SchedulesOf(d, r)
      /\ \A r \in QueueIds, s \in ScheduleIds : ScheduleExists(e, r, s) <=> ScheduleExists(d, r, s)
  BY <1>1, <1>4, SameSchedulesInv, Zenon
<1>8. NamesOK(e)
  BY <1>1, <1>4, <1>6 DEF NamesOK
<1>9. \A r \in QueueIds : QueueExists(e, r) <=> QueueExists(d, r)
  BY <1>6, Zenon DEF QueueExists
<1>10. QueuesOf(e) = QueuesOf(d)
  BY <1>9 DEF QueuesOf
<1>11. SchedulesCounted(e)
  BY <1>1, <1>6, <1>7, <1>9, Zenon DEF SchedulesCounted
<1>12. FateOK(e, f)
  BY <1>1, <1>4, <1>7, <1>9, QdbFields DEF FateOK
<1>13. VersionsOK(e)
  BY <1>1, <1>2, <1>5, <1>9 DEF VersionsOK
<1>14. ReadsOK(e, reads)
  <2>1. SUFFICES ASSUME NEW m \in QueueNames
                 PROVE  ReadOK(e, reads[m], m)
    BY <1>1, Zenon DEF ReadsOK
  <2>2. ReadOK(d, reads[m], m) /\ reads[m].version \in Nat
    BY <1>1 DEF ReadsOK, Seen
  <2>3. CASE d.queueNames[m] = q
    <3>1. reads[m].deleted \/ reads[m].version <= d.queues[q].version
      BY <2>2, <2>3, Ids DEF ReadOK
    <3>2. reads[m].deleted \/ (reads[m].version <= row.version /\ reads[m].version # row.version)
      BY <3>1, <2>2, <1>1, <1>2
    <3>. QED
      BY <3>2, <2>3, <1>4, <1>5 DEF ReadOK
  <2>4. CASE d.queueNames[m] # q
    BY <2>2, <2>4, <1>4, <1>5, Zenon DEF ReadOK
  <2>. QED
    BY <2>3, <2>4
<1>. QED
  BY <1>1, <1>4, <1>7, <1>8, <1>10, <1>11, <1>12, <1>13, <1>14, Zenon
     DEF StateInv, TablesInv, e

\* The reads of the name are over: what they saw was deleted.
LEMMA DeleteQueueInv ==
  ASSUME NEW d, NEW f, NEW reads, StateInv(d, f, reads),
         NEW n \in QueueNames, NEW q \in QueueIds, d.queues[q].name = n,
         NEW after, after = IF Readers THEN [reads EXCEPT ![n].deleted = TRUE] ELSE reads
  PROVE  StateInv(deleteQueue(d, q), [f EXCEPT ![q] = "deleted"], after)
<1> DEFINE e == deleteQueue(d, q)
           g == [f EXCEPT ![q] = "deleted"]
<1>1. /\ d \in Qdb /\ SchedulesInv(d) /\ NamesOK(d) /\ SchedulesCounted(d)
      /\ d.numberOfQueues = Cardinality(QueuesOf(d)) /\ d.numberOfQueues \in Nat
      /\ FateOK(d, f) /\ VersionsOK(d) /\ ReadsOK(d, reads)
      /\ f \in [QueueIds -> Fates] /\ reads \in [QueueNames -> Seen]
  BY QdbFields DEF StateInv, TablesInv, SchedulesInv
<1>2. NoQueue \in Queue /\ NoQueue.name = None /\ n # None
  BY Ids DEF NoQueue, Queue
<1>3. QueueExists(d, q) /\ d.queueNames[n] = q /\ f[q] = "live"
  BY <1>1, <1>2 DEF QueueExists, NamesOK, FateOK
<1>4. d.numberOfQueues - 1 \in Nat /\ Cardinality(QueuesOf(d) \ {q}) = d.numberOfQueues - 1
  <2>1. IsFiniteSet(QueuesOf(d)) /\ q \in QueuesOf(d)
    BY <1>3, CountedSets DEF QueuesOf
  <2>2. IsFiniteSet(QueuesOf(d) \ {q}) /\ Cardinality(QueuesOf(d) \ {q}) = Cardinality(QueuesOf(d)) - 1
    BY <2>1, FS_RemoveElement
  <2>3. Cardinality(QueuesOf(d) \ {q}) \in Nat
    BY <2>2, FS_CardinalityType
  <2>. QED
    BY <2>2, <2>3, <1>1
<1>5. e = [d EXCEPT !.queues = [d.queues EXCEPT ![q] = NoQueue],
                    !.queueNames = [d.queueNames EXCEPT ![n] = 0],
                    !.numberOfQueues = d.numberOfQueues - 1,
                    !.gcRecords = d.gcRecords \cup {q}]
  BY <1>1 DEF deleteQueue, queuesDelete, Qdb
<1>. HIDE DEF e
<1>6. /\ SameSchedules(d, e) /\ e.gcRecords = d.gcRecords \cup {q}
      /\ e.queues = [d.queues EXCEPT ![q] = NoQueue]
      /\ e.queueNames = [d.queueNames EXCEPT ![n] = 0]
      /\ e.numberOfQueues = d.numberOfQueues - 1
      /\ e \in Qdb
  <2>1. /\ [d.queues EXCEPT ![q] = NoQueue] \in [QueueIds -> Queue]
        /\ [d.queueNames EXCEPT ![n] = 0] \in [QueueNames -> QueueIds \cup {0}]
        /\ d.gcRecords \cup {q} \subseteq QueueIds
    BY <1>1, <1>2, QdbFields
  <2>. QED
    BY <1>1, <1>4, <1>5, <2>1 DEF Qdb, SameSchedules
<1>7. /\ \A r \in QueueIds : e.queues[r] = IF r = q THEN NoQueue ELSE d.queues[r]
      /\ \A m \in QueueNames : e.queueNames[m] = IF m = n THEN 0 ELSE d.queueNames[m]
  BY <1>1, <1>6, QdbFields
<1>8. /\ SchedulesInv(e)
      /\ \A r \in QueueIds : SchedulesOf(e, r) = SchedulesOf(d, r)
      /\ \A r \in QueueIds, s \in ScheduleIds : ScheduleExists(e, r, s) <=> ScheduleExists(d, r, s)
  BY <1>1, <1>6, SameSchedulesInv, Zenon
<1>9. NamesOK(e)
  <2>1. SUFFICES ASSUME NEW m \in QueueNames, NEW r \in QueueIds
                 PROVE  e.queueNames[m] = r <=> e.queues[r].name = m
    BY Zenon DEF NamesOK
  <2>2. /\ d.queueNames[m] = r <=> d.queues[r].name = m
        /\ r # 0 /\ m # None
    BY <1>1, Ids DEF NamesOK
  <2>. QED
    BY <2>2, <1>2, <1>3, <1>7
<1>10. \A r \in QueueIds : QueueExists(e, r) <=> QueueExists(d, r) /\ r # q
  BY <1>2, <1>7 DEF QueueExists
<1>11. QueuesOf(e) = QueuesOf(d) \ {q}
  BY <1>10 DEF QueuesOf
<1>12. SchedulesCounted(e)
  BY <1>1, <1>7, <1>8, <1>10, Zenon DEF SchedulesCounted
<1>13. /\ g \in [QueueIds -> Fates]
       /\ \A r \in QueueIds : g[r] = IF r = q THEN "deleted" ELSE f[r]
  BY <1>1 DEF Fates
<1>. HIDE DEF g
<1>14. FateOK(e, g)
  <2>1. \A r \in QueueIds : QueueExists(e, r) <=> g[r] = "live"
    BY <1>1, <1>10, <1>13 DEF FateOK
  <2>2. \A r \in QueueIds, s \in ScheduleIds :
            ScheduleExists(e, r, s) => g[r] = "live" \/ r \in e.gcRecords
    BY <1>1, <1>6, <1>8, <1>13 DEF FateOK
  <2>3. \A r \in e.gcRecords : g[r] = "deleted"
    BY <1>1, <1>6, <1>13, QdbFields DEF FateOK
  <2>. QED
    BY <2>1, <2>2, <2>3, Zenon DEF FateOK
<1>15. VersionsOK(e)
  BY <1>1, <1>7, <1>10, Zenon DEF VersionsOK
<1>16. after \in [QueueNames -> Seen] /\ ReadsOK(e, after)
  <2>1. /\ after \in [QueueNames -> Seen]
        /\ \A m \in QueueNames : m # n \/ ~Readers => after[m] = reads[m]
        /\ Readers => after[n].deleted
    BY <1>1 DEF Seen
  <2>2. ~Readers => \A m \in QueueNames : after[m].version = 0
    BY <1>1, <2>1, Zenon DEF ReadsOK
  <2>3. ASSUME NEW m \in QueueNames
        PROVE  ReadOK(e, after[m], m)
    <3>1. ReadOK(d, reads[m], m)
      BY <1>1, Zenon DEF ReadsOK
    <3>2. CASE m = n
      <4>1. e.queueNames[m] = 0
        BY <3>2, <1>7
      <4>2. CASE Readers
        BY <4>2, <3>2, <2>1, Zenon DEF ReadOK
      <4>3. CASE ~Readers
        BY <4>1, <4>3, <2>2, Zenon DEF ReadOK
      <4>. QED
        BY <4>2, <4>3
    <3>3. CASE m # n
      <4>1. e.queueNames[m] = d.queueNames[m] /\ d.queueNames[m] # q /\ after[m] = reads[m]
        BY <3>3, <2>1, <1>1, <1>7 DEF NamesOK
      <4>. QED
        BY <4>1, <3>1, <1>7, Zenon DEF ReadOK
    <3>. QED
      BY <3>2, <3>3
  <2>. QED
    BY <2>1, <2>2, <2>3, Zenon DEF ReadsOK
<1>. QED
  BY <1>4, <1>6, <1>8, <1>9, <1>11, <1>12, <1>13, <1>14, <1>15, <1>16, Zenon
     DEF StateInv, TablesInv, e, g

-------------------------------------------------------------------------------
(* The calls on schedules.                                                 *)

LEMMA ChangeSchedules ==
  ASSUME NEW d, NEW f, NEW reads, StateInv(d, f, reads),
         NEW e, SchedulesInv(e), SameRows(d, e), SchedulesCounted(e),
         e.gcRecords \subseteq d.gcRecords,
         \A r \in QueueIds, u \in ScheduleIds :
            ScheduleExists(e, r, u) => f[r] = "live" \/ r \in e.gcRecords
  PROVE  StateInv(e, f, reads)
<1>1. /\ NamesOK(e) /\ QueuesOf(e) = QueuesOf(d) /\ VersionsOK(e) /\ ReadsOK(e, reads)
      /\ \A q \in QueueIds : QueueExists(e, q) <=> QueueExists(d, q)
  BY SameRowsInv, Zenon DEF StateInv, TablesInv
<1>2. FateOK(e, f)
  BY <1>1, Zenon DEF StateInv, FateOK
<1>3. e.numberOfQueues = Cardinality(QueuesOf(e))
  BY <1>1, Zenon DEF StateInv, TablesInv, SameRows
<1>. QED
  BY <1>1, <1>2, <1>3, Zenon DEF StateInv, TablesInv

\* The queue's SchedulesCount is written after its schedules.
SetCount(c, q, k) == [c EXCEPT !.queues[q].schedulesCount = k]

LEMMA Recount ==
  ASSUME NEW d, NEW f, NEW reads, StateInv(d, f, reads),
         NEW c, SchedulesInv(c), SameQueues(d, c),
         NEW q \in QueueIds, QueueExists(d, q),
         NEW k \in Nat, k = Cardinality(SchedulesOf(c, q)),
         \A r \in QueueIds \ {q} : SchedulesOf(c, r) = SchedulesOf(d, r)
  PROVE  StateInv(SetCount(c, q, k), f, reads)
<1> DEFINE row == [d.queues[q] EXCEPT !.schedulesCount = k]
           e == SetCount(c, q, k)
<1>1. /\ d \in Qdb /\ c \in Qdb /\ d.queues[q] \in Queue /\ c.queues = d.queues
      /\ FateOK(d, f) /\ SchedulesCounted(d)
  BY RowTypes DEF StateInv, TablesInv, SchedulesInv, SameQueues
<1>2. /\ row \in Queue /\ row.name = d.queues[q].name /\ row.version = d.queues[q].version
      /\ row.settings = d.queues[q].settings /\ row.schedulesCount = k
  BY <1>1 DEF Queue
<1>3. e = [c EXCEPT !.queues = [d.queues EXCEPT ![q] = row]]
  BY <1>1 DEF Qdb, SetCount
<1>. HIDE DEF row, e
<1>4. /\ e \in Qdb /\ SameSchedules(c, e) /\ e.gcRecords = d.gcRecords
      /\ e.queueNames = d.queueNames /\ e.numberOfQueues = d.numberOfQueues
      /\ e.queues = [d.queues EXCEPT ![q] = row]
  <2>1. [d.queues EXCEPT ![q] = row] \in [QueueIds -> Queue]
    BY <1>1, <1>2, QdbFields
  <2>. QED
    BY <1>1, <1>3, <2>1 DEF Qdb, SameSchedules, SameQueues
<1>5. \A r \in QueueIds : e.queues[r] = IF r = q THEN row ELSE d.queues[r]
  BY <1>1, <1>4, QdbFields
<1>6. SameRows(d, e)
  BY <1>2, <1>4, <1>5 DEF SameRows
<1>7. SchedulesInv(e) /\ \A r \in QueueIds : SchedulesOf(e, r) = SchedulesOf(c, r)
  <2>1. e \in Qdb /\ SameSchedules(c, e)
    BY <1>4
  <2>. QED
    BY <2>1, SameSchedulesInv
<1>8. SchedulesCounted(e)
  <2>1. SUFFICES ASSUME NEW r \in QueueIds, QueueExists(e, r)
                 PROVE  e.queues[r].schedulesCount = Cardinality(SchedulesOf(e, r))
    BY Zenon DEF SchedulesCounted
  <2>2. CASE r = q
    BY <2>2, <1>2, <1>5, <1>7
  <2>3. CASE r # q
    <3>1. e.queues[r] = d.queues[r] /\ SchedulesOf(e, r) = SchedulesOf(d, r)
      BY <2>3, <1>5, <1>7
    <3>2. QueueExists(d, r)
      BY <2>1, <3>1, Zenon DEF QueueExists
    <3>. QED
      BY <3>1, <3>2, <1>1, Zenon DEF SchedulesCounted
  <2>. QED
    BY <2>2, <2>3
<1>9. ASSUME NEW r \in QueueIds, NEW u \in ScheduleIds, ScheduleExists(e, r, u)
      PROVE  f[r] = "live" \/ r \in e.gcRecords
  <2>1. CASE r = q
    BY <2>1, <1>1, Zenon DEF FateOK
  <2>2. CASE r # q
    <3>1. u \in SchedulesOf(d, r)
      BY <2>2, <1>7, <1>9 DEF SchedulesOf
    <3>. QED
      BY <3>1, <1>1, <1>4 DEF FateOK, SchedulesOf
  <2>. QED
    BY <2>1, <2>2
<1>10. e.gcRecords \subseteq d.gcRecords
  BY <1>4
<1>11. StateInv(e, f, reads)
  BY <1>6, <1>7, <1>8, <1>9, <1>10, ChangeSchedules, Zenon
<1>. QED
  BY <1>11 DEF e

LEMMA NextTicks ==
  ASSUME NEW cron \in Crons, NEW t \in Nat
  PROVE  NextTickAfter(cron, t) \in Nat
<1>1. cron \in Nat /\ cron > 0
  BY QueuesAssumption
<1>2. t \div cron + 1 \in Nat
  BY <1>1
<1>. QED
  BY <1>1, <1>2 DEF NextTickAfter

LEMMA CreateScheduleInv ==
  ASSUME NEW d, NEW f, NEW reads, StateInv(d, f, reads),
         NEW q \in QueueIds, QueueExists(d, q),
         NEW sn \in ScheduleNames, NEW s \in ScheduleIds, NEW cron \in Crons, NEW now \in Nat,
         ~ScheduleExists(d, q, s), getScheduleByName(d, q, sn) = 0
  PROVE  StateInv(createSchedule(d, q, sn, s, cron, now), f, reads)
<1> DEFINE row == [name |-> sn, version |-> 1, cron |-> cron,
                   nextScheduledAt |-> NextTickAfter(cron, now), lastEnqueuedFor |-> 0]
           c == schedulesCreate(d, q, s, row)
           k == d.queues[q].schedulesCount + 1
<1>1. row \in Schedule /\ row.name = sn
  BY NextTicks DEF Schedule
<1>2. SchedulesInv(d) /\ SchedulesCounted(d) /\ d \in Qdb
  BY DEF StateInv, TablesInv, SchedulesInv
<1>3. d.scheduleNames[<<q, sn>>] = 0
  BY <1>2, LookupSchedule
<1>4. createSchedule(d, q, sn, s, cron, now)
        = [c EXCEPT !.queues[q].schedulesCount = c.queues[q].schedulesCount + 1]
  BY DEF createSchedule
<1>. HIDE DEF row
<1>5. /\ SchedulesInv(c) /\ SameQueues(d, c)
      /\ SchedulesOf(c, q) = SchedulesOf(d, q) \cup {s}
      /\ \A r \in QueueIds \ {q} : SchedulesOf(c, r) = SchedulesOf(d, r)
  <2>1. Added(d, c, q, s)
    BY <1>1, <1>2, <1>3, SchedulesCreate
  <2>. QED
    BY <2>1, Zenon DEF Added
<1>. HIDE DEF c
<1>6. k \in Nat /\ k = Cardinality(SchedulesOf(c, q))
  <2>1. IsFiniteSet(SchedulesOf(d, q)) /\ s \notin SchedulesOf(d, q)
        /\ Cardinality(SchedulesOf(d, q)) \in Nat
    BY CountedSets DEF SchedulesOf
  <2>2. Cardinality(SchedulesOf(d, q) \cup {s}) = Cardinality(SchedulesOf(d, q)) + 1
    BY <2>1, FS_AddElement
  <2>3. d.queues[q].schedulesCount = Cardinality(SchedulesOf(d, q))
    BY <1>2, Zenon DEF SchedulesCounted
  <2>. QED
    BY <2>1, <2>2, <2>3, <1>5
<1>7. createSchedule(d, q, sn, s, cron, now) = SetCount(c, q, k)
  BY <1>4, <1>5, Zenon DEF SameQueues, SetCount
<1>. HIDE DEF k
<1>8. StateInv(SetCount(c, q, k), f, reads)
  BY <1>5, <1>6, Recount
<1>. QED
  BY <1>7, <1>8

LEMMA DeleteScheduleInv ==
  ASSUME NEW d, NEW f, NEW reads, StateInv(d, f, reads),
         NEW q \in QueueIds, QueueExists(d, q),
         NEW s \in ScheduleIds, ScheduleExists(d, q, s)
  PROVE  StateInv(deleteSchedule(d, q, s), f, reads)
<1> DEFINE K == {<<q, s>>}
           c == schedulesDelete(d, K)
           k == d.queues[q].schedulesCount - 1
<1>1. SchedulesInv(d) /\ SchedulesCounted(d) /\ d \in Qdb
  BY DEF StateInv, TablesInv, SchedulesInv
<1>2. K \in SUBSET ScheduleKeys /\ \A x \in K : ScheduleExists(d, x[1], x[2])
  BY DEF ScheduleKeys
<1>3. deleteSchedule(d, q, s) = [c EXCEPT !.queues[q].schedulesCount = c.queues[q].schedulesCount - 1]
  BY DEF deleteSchedule
<1>4. \A r \in QueueIds, u \in ScheduleIds : <<r, u>> \in K <=> r = q /\ u = s
  OBVIOUS
<1>. HIDE DEF K
<1>5. /\ SchedulesInv(c) /\ SameQueues(d, c)
      /\ \A r \in QueueIds : SchedulesOf(c, r) = {u \in SchedulesOf(d, r) : <<r, u>> \notin K}
  <2>1. Dropped(d, c, K)
    BY <1>1, <1>2, SchedulesDelete
  <2>. QED
    BY <2>1, Zenon DEF Dropped
<1>. HIDE DEF c
<1>6. /\ SchedulesOf(c, q) = SchedulesOf(d, q) \ {s}
      /\ \A r \in QueueIds \ {q} : SchedulesOf(c, r) = SchedulesOf(d, r)
  BY <1>4, <1>5 DEF SchedulesOf
<1>7. k \in Nat /\ k = Cardinality(SchedulesOf(c, q))
  <2>1. IsFiniteSet(SchedulesOf(d, q)) /\ s \in SchedulesOf(d, q)
        /\ Cardinality(SchedulesOf(c, q)) \in Nat
    BY CountedSets DEF SchedulesOf
  <2>2. Cardinality(SchedulesOf(d, q) \ {s}) = Cardinality(SchedulesOf(d, q)) - 1
    BY <2>1, FS_RemoveElement
  <2>3. d.queues[q].schedulesCount = Cardinality(SchedulesOf(d, q))
    BY <1>1, Zenon DEF SchedulesCounted
  <2>. QED
    BY <2>1, <2>2, <2>3, <1>6
<1>8. deleteSchedule(d, q, s) = SetCount(c, q, k)
  BY <1>3, <1>5, Zenon DEF SameQueues, SetCount
<1>. HIDE DEF k
<1>9. StateInv(SetCount(c, q, k), f, reads)
  BY <1>5, <1>6, <1>7, Recount
<1>. QED
  BY <1>8, <1>9

LEMMA UpdateScheduleInv ==
  ASSUME NEW d, NEW f, NEW reads, StateInv(d, f, reads),
         NEW q \in QueueIds, NEW s \in ScheduleIds, ScheduleExists(d, q, s),
         NEW row \in Schedule, row.name = d.schedules[<<q, s>>].name
  PROVE  StateInv(schedulesUpdate(d, q, s, row), f, reads)
<1> DEFINE e == schedulesUpdate(d, q, s, row)
<1>1. SchedulesInv(d) /\ SchedulesCounted(d) /\ FateOK(d, f)
  BY DEF StateInv, TablesInv
<1>2. /\ SchedulesInv(e) /\ SameQueues(d, e)
      /\ \A r \in QueueIds : SchedulesOf(e, r) = SchedulesOf(d, r)
  <2>1. Changed(d, e)
    BY <1>1, SchedulesUpdate
  <2>. QED
    BY <2>1, Zenon DEF Changed
<1>. HIDE DEF e
<1>3. SameRows(d, e) /\ e.gcRecords = d.gcRecords
  BY <1>2, Zenon DEF SameRows, SameQueues
<1>4. SchedulesCounted(e)
  BY <1>1, <1>2, Zenon DEF SchedulesCounted, SameQueues, QueueExists
<1>5. \A r \in QueueIds, u \in ScheduleIds : ScheduleExists(e, r, u) <=> ScheduleExists(d, r, u)
  BY <1>2 DEF SchedulesOf
<1>6. \A r \in QueueIds, u \in ScheduleIds :
         ScheduleExists(e, r, u) => f[r] = "live" \/ r \in e.gcRecords
  BY <1>1, <1>3, <1>5 DEF FateOK
<1>7. e.gcRecords \subseteq d.gcRecords
  BY <1>3
<1>8. StateInv(e, f, reads)
  BY <1>2, <1>3, <1>4, <1>6, <1>7, ChangeSchedules, Zenon
<1>. QED
  BY <1>8 DEF e

===============================================================================
