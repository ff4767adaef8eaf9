--------------------------- MODULE TaskTablesProofs ---------------------------
(***************************************************************************)
(* Facts about the index operators of TaskTables, for every content of the *)
(* tables: the first item of a non-empty index, the last time of a scan.   *)
(***************************************************************************)
EXTENDS TaskTables, FiniteSetTheorems, TLAPS

\* A non-empty set of times has a least one.
LEMMA LeastTime ==
  ASSUME NEW S \in SUBSET Nat, S # {}
  PROVE  \E n \in S : \A m \in S : n <= m
<1> DEFINE Below == {T \in SUBSET Nat : \E n \in S : T = 0 .. n}
<1>1. Below # {}
  <2>1. PICK n \in S : TRUE
    OBVIOUS
  <2>2. 0 .. n \in Below
    OBVIOUS
  <2>. QED
    BY <2>2
<1>2. Below \subseteq FiniteSubsetsOf(Nat)
  BY FS_Interval DEF FiniteSubsetsOf
<1>3. PICK T \in Below : \A U \in Below : <<U, T>> \notin StrictSubsetOrdering(Nat)
  BY <1>1, <1>2, FS_StrictSubsetOrderingWellFounded, WFMin
<1>4. PICK n \in S : T = 0 .. n
  OBVIOUS
<1>5. ASSUME NEW m \in S, m < n PROVE FALSE
  <2>1. 0 .. m \in Below
    OBVIOUS
  <2>2. 0 .. m \subseteq 0 .. n /\ 0 .. m # 0 .. n
    <3>1. n \in 0 .. n /\ n \notin 0 .. m
      BY <1>5
    <3>. QED
      BY <3>1, <1>5
  <2>. QED
    BY <2>1, <2>2, <1>2, <1>3, <1>4 DEF StrictSubsetOrdering, FiniteSubsetsOf
<1>. QED
  BY <1>5

\* A non-empty set of times up to a bound has a greatest one.
LEMMA GreatestTime ==
  ASSUME NEW S \in SUBSET Nat, S # {}, NEW b \in Nat, \A n \in S : n <= b
  PROVE  \E n \in S : \A m \in S : m <= n
<1> DEFINE R == {k \in Nat : \E n \in S : k = b - n}
<1>1. PICK n0 \in S : TRUE
  OBVIOUS
<1>2. b - n0 \in R
  OBVIOUS
<1>3. PICK k \in R : \A m \in R : k <= m
  BY <1>2, LeastTime
<1>4. PICK n \in S : k = b - n
  OBVIOUS
<1>5. \A m \in S : b - m \in R
  OBVIOUS
<1>. QED
  BY <1>3, <1>4, <1>5

\* First returns an item of the index it is given.
LEMMA FirstInIndex ==
  ASSUME NEW S \in SUBSET Items, S # {}
  PROVE  First(S) \in S
<1> DEFINE Times == {n \in Nat : \E x \in S : x[1] = n}
<1>1. \A x \in S : x[1] \in Nat /\ x[2] \in Nat /\ x = <<x[1], x[2]>>
  BY DEF Items, TaskIds
<1>2. Times # {}
  BY <1>1
<1>3. PICK n \in Times : \A m \in Times : n <= m
  BY <1>2, LeastTime
<1> DEFINE Ids == {i \in Nat : \E x \in S : x[1] = n /\ x[2] = i}
<1>4. Ids # {}
  BY <1>1
<1>5. PICK i \in Ids : \A j \in Ids : i <= j
  BY <1>4, LeastTime
<1>6. PICK x \in S : x[1] = n /\ x[2] = i
  OBVIOUS
<1>7. ASSUME NEW y \in S PROVE ~Before(y, x)
  <2>1. y[1] \in Times
    BY <1>1
  <2>2. y[1] = n => y[2] \in Ids
    BY <1>1
  <2>. QED
    BY <2>1, <2>2, <1>1, <1>3, <1>5, <1>6 DEF Before
<1>. QED
  BY <1>7 DEF First

\* The time a bounded scan leaves in its cursor is the time of an item.
LEMMA LastTimeOfScan ==
  ASSUME NEW S \in SUBSET Items, S # {}, NEW b \in Nat, \A x \in S : x[1] <= b
  PROVE  LastTime(S) \in Nat
<1> DEFINE Times == {x[1] : x \in S}
<1>1. Times \in SUBSET Nat /\ Times # {}
  BY DEF Items
<1>2. \A n \in Times : n <= b
  OBVIOUS
<1>3. PICK n \in Times : \A m \in Times : m <= n
  BY <1>1, <1>2, GreatestTime
<1>4. \E k \in Times : \A y \in S : y[1] <= k
  BY <1>3
<1>5. LastTime(S) \in Times
  BY <1>4 DEF LastTime
<1>. QED
  BY <1>1, <1>5

\* Induction up to n on a set of loop counters.
LEMMA UpTo ==
  ASSUME NEW n \in Nat, NEW Q, 0 \in Q, \A i \in 0 .. (n - 1) : i \in Q => i + 1 \in Q
  PROVE  \A i \in 0 .. n : i \in Q
<1> DEFINE Missed == {i \in 0 .. n : i \notin Q}
<1>1. SUFFICES ASSUME Missed # {} PROVE FALSE
  OBVIOUS
<1>2. PICK m \in Missed : \A i \in Missed : m <= i
  <2>1. Missed \in SUBSET Nat
    OBVIOUS
  <2>. HIDE DEF Missed
  <2>. QED
    BY <1>1, <2>1, LeastTime
<1>3. m # 0 /\ m - 1 \in 0 .. (n - 1) /\ m - 1 \notin Missed
  BY <1>2
<1>. QED
  BY <1>3

\* An index with at most one item per task is finite.
LEMMA FiniteIndex ==
  ASSUME NEW S \in SUBSET Items, \A x, y \in S : x[2] = y[2] => x = y
  PROVE  IsFiniteSet(S) /\ Cardinality(S) \in Nat
<1> DEFINE f == [x \in S |-> x[2]]
<1>1. \A x \in S : x[2] \in TaskIds
  BY DEF Items
<1>2. f \in [S -> TaskIds] /\ \A x, y \in S : f[x] = f[y] => x = y
  BY <1>1
<1>3. f \in Injection(S, TaskIds)
  <2>. HIDE DEF f
  <2>. QED
    BY <1>2 DEF Injection, IsInjective
<1>4. IsFiniteSet(TaskIds)
  BY FS_Interval, TablesAssumption DEF TaskIds
<1>5. IsFiniteSet(S)
  <2>. HIDE DEF f
  <2>. QED
    BY <1>3, <1>4, FS_Injection
<1>. QED
  BY <1>5, FS_CardinalityType
===============================================================================
