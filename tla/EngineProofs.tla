---------------------------- MODULE EngineProofs ----------------------------
(***************************************************************************)
(* Theorems about libs/queue-engine: EwtEngine, for any division of the    *)
(* minute and any average, and PrioritySorter, for any entries, priorities *)
(* and times.                                                              *)
(***************************************************************************)
EXTENDS EwtEngine, PrioritySorter, FiniteSetTheorems, SequenceTheorems, TLAPS

-----------------------------------------------------------------------------
(* The waiting time.                                                       *)

LEMMA TimesAreNat == EwtSpec => [](average \in Nat \ {0} /\ elapsed \in Nat)
<1> DEFINE Inv == average \in Nat \ {0} /\ elapsed \in Nat
<1>m. \A n \in 1..MaxAverage : n \in Nat \ {0}
  BY EwtAssumption
<1>1. EwtInit => Inv
  BY <1>m DEF EwtInit
<1>2. Inv /\ [EwtNext]_ewtVars => Inv'
  BY <1>m DEF EwtNext, StartService, ServiceGoesOn, FinishService, ewtVars
<1>3. QED
  BY <1>1, <1>2, PTL DEF EwtSpec

LEMMA MultiplesAreWhole ==
  ASSUME NEW m \in Int
  PROVE  WholeMinutes(m * Units)
<1> DEFINE t == m * Units
           q == t \div Units
           r == t % Units
<1>1. Units \in Nat \ {0} /\ t \in Int
  BY EwtAssumption
<1>2. q \in Int /\ r \in Int /\ t = Units * q + r /\ 0 <= r /\ r < Units
  BY <1>1
<1>3. r = Units * (m - q)
  BY <1>1, <1>2
<1> HIDE DEF t, q, r
<1>4. m - q \in Int /\ (m - q >= 1 => Units * (m - q) >= Units) /\ (m - q <= -1 => Units * (m - q) <= -Units)
  BY <1>1, <1>2
<1>5. m - q = 0
  BY <1>1, <1>2, <1>3, <1>4
<1>6. r = 0
  BY <1>1, <1>3, <1>5
<1>7. QED
  BY <1>6 DEF WholeMinutes, t, r

(* ewt.engine.ts with the Int column of queue_entries: the estimate is     *)
(* whole unless somebody has been in the chair for some of the average.    *)
THEOREM RefusedMidService == EwtSpec => []RefusedOnlyMidService
<1>1. average \in Nat \ {0} /\ elapsed \in Nat => RefusedOnlyMidService
  <2> SUFFICES ASSUME average \in Nat \ {0}, elapsed \in Nat, NEW p \in Positions,
                      ~(serving /\ 0 < elapsed /\ elapsed < average * Units)
               PROVE  WholeMinutes(CalculateEwt(p))
    BY DEF RefusedOnlyMidService
  <2>1. Units \in Nat \ {0} /\ p \in Nat \ {0} /\ average * Units \in Nat
    BY EwtAssumption DEF Positions
  <2>2. CurrentServiceRemaining = 0 \/ CurrentServiceRemaining = average * Units
    BY <2>1 DEF CurrentServiceRemaining, Larger
  <2>3. PICK k \in Nat : BaseWait(p) = k * Units
    <3>1. CASE CurrentServiceRemaining = 0
      <4>1. (p - 1) * average \in Nat /\ BaseWait(p) = ((p - 1) * average) * Units
        BY <2>1, <3>1 DEF BaseWait
      <4>2. QED
        BY <4>1
    <3>2. CASE CurrentServiceRemaining = average * Units
      <4>1. p * average \in Nat /\ BaseWait(p) = (p * average) * Units
        BY <2>1, <3>2 DEF BaseWait
      <4>2. QED
        BY <4>1
    <3>3. QED
      BY <2>2, <3>1, <3>2
  <2>4. PICK b \in Int : Buffer(BaseWait(p)) = b * Units
    <3>1. BaseWait(p) \in Int /\ 100 * Units \in Nat \ {0}
      BY <2>1, <2>3
    <3>2. RoundUp(15 * BaseWait(p), 100 * Units) \in Int
      BY <3>1 DEF RoundUp
    <3>3. QED
      BY <3>2 DEF Buffer
  <2>5. BaseWait(p) + Buffer(BaseWait(p)) = (k + b) * Units /\ Units = 1 * Units
    BY <2>1, <2>3, <2>4
  <2>6. CalculateEwt(p) = (k + b) * Units \/ CalculateEwt(p) = 1 * Units
    BY <2>5 DEF CalculateEwt, Larger
  <2>7. QED
    BY <2>6, MultiplesAreWhole
<1>2. QED
  BY <1>1, TimesAreNat, PTL

-----------------------------------------------------------------------------
(* Sorting.                                                                *)

(* What stands in a strict order has the ranks 1..n, and a smaller rank    *)
(* comes before in that order.                                             *)
LEMMA RanksOfAnOrder ==
  ASSUME NEW n \in Nat, NEW R,
         \A i \in 1..n : <<i, i>> \notin R,
         \A i, j, k \in 1..n : <<i, j>> \in R /\ <<j, k>> \in R => <<i, k>> \in R,
         \A i, j \in 1..n : i = j \/ <<i, j>> \in R \/ <<j, i>> \in R,
         NEW rank \in [1..n -> Nat],
         \A i \in 1..n : rank[i] = 1 + Cardinality({j \in 1..n : <<j, i>> \in R})
  PROVE  /\ \A i, j \in 1..n : rank[i] \in 1..n /\ (rank[i] = rank[j] => i = j)
         /\ \A k \in 1..n : \E i \in 1..n : rank[i] = k
         /\ \A i, j \in 1..n : rank[i] < rank[j] => <<i, j>> \in R
<1> DEFINE Ahead(i) == {j \in 1..n : <<j, i>> \in R}
<1>1. IsFiniteSet(1..n) /\ Cardinality(1..n) = n
  BY FS_Interval
<1>2. ASSUME NEW i \in 1..n
      PROVE  /\ IsFiniteSet(Ahead(i)) /\ Cardinality(Ahead(i)) \in Nat
             /\ Cardinality(Ahead(i)) < n /\ rank[i] = 1 + Cardinality(Ahead(i))
  <2>1. Ahead(i) \in SUBSET (1..n) /\ i \notin Ahead(i) /\ rank[i] = 1 + Cardinality(Ahead(i))
    OBVIOUS
  <2> HIDE DEF Ahead
  <2>2. IsFiniteSet(Ahead(i)) /\ Cardinality(Ahead(i)) <= n /\ Cardinality(Ahead(i)) # n
    BY <2>1, <1>1, FS_Subset
  <2>3. Cardinality(Ahead(i)) \in Nat
    BY <2>2, FS_CardinalityType
  <2>4. QED
    BY <2>1, <2>2, <2>3
<1>3. ASSUME NEW i \in 1..n, NEW j \in 1..n, <<i, j>> \in R
      PROVE  rank[i] < rank[j]
  <2>1. Ahead(i) \in SUBSET Ahead(j) /\ i \in Ahead(j) /\ i \notin Ahead(i)
    BY <1>3
  <2>2. /\ IsFiniteSet(Ahead(j)) /\ IsFiniteSet(Ahead(i))
        /\ Cardinality(Ahead(i)) \in Nat /\ Cardinality(Ahead(j)) \in Nat
        /\ rank[i] = 1 + Cardinality(Ahead(i)) /\ rank[j] = 1 + Cardinality(Ahead(j))
    BY <1>2
  <2> HIDE DEF Ahead
  <2>3. Cardinality(Ahead(i)) <= Cardinality(Ahead(j)) /\ Cardinality(Ahead(i)) # Cardinality(Ahead(j))
    BY <2>1, <2>2, FS_Subset
  <2>4. QED
    BY <2>2, <2>3
<1>4. \A i \in 1..n : rank[i] \in 1..n
  <2> SUFFICES ASSUME NEW i \in 1..n
               PROVE  rank[i] \in 1..n
    OBVIOUS
  <2>1. Cardinality(Ahead(i)) \in Nat /\ Cardinality(Ahead(i)) < n /\ rank[i] = 1 + Cardinality(Ahead(i))
    BY <1>2
  <2> HIDE DEF Ahead
  <2>2. QED
    BY <2>1
<1>5. \A i, j \in 1..n : rank[i] = rank[j] => i = j
  <2> SUFFICES ASSUME NEW i \in 1..n, NEW j \in 1..n, i # j
               PROVE  rank[i] # rank[j]
    OBVIOUS
  <2>1. rank[i] \in Nat /\ rank[j] \in Nat
    OBVIOUS
  <2>2. <<i, j>> \in R \/ <<j, i>> \in R
    OBVIOUS
  <2>3. rank[i] < rank[j] \/ rank[j] < rank[i]
    BY <2>2, <1>3
  <2>4. QED
    BY <2>1, <2>3
<1>6. \A k \in 1..n : \E i \in 1..n : rank[i] = k
  <2>1. rank \in Injection(1..n, 1..n)
    BY <1>4, <1>5 DEF Injection, IsInjective
  <2>2. rank \in Surjection(1..n, 1..n)
    BY <2>1, <1>1, FS_Injection
  <2>3. QED
    BY <2>2 DEF Surjection
<1>7. \A i, j \in 1..n : rank[i] < rank[j] => <<i, j>> \in R
  <2> SUFFICES ASSUME NEW i \in 1..n, NEW j \in 1..n, rank[i] < rank[j]
               PROVE  <<i, j>> \in R
    OBVIOUS
  <2>1. ~(<<j, i>> \in R) /\ i # j
    BY <1>3
  <2>2. QED
    BY <2>1
<1>8. QED
  BY <1>4, <1>5, <1>6, <1>7

\* The comparator with the stability of Array.prototype.sort.
StablyBefore(list, j, i) == ComesBefore(list[j], list[i]) \/ (j < i /\ ~ComesBefore(list[i], list[j]))

LEMMA PriorityIsNat ==
  ASSUME now \in Nat, NEW entry \in Sortable
  PROVE  EffectivePriority(entry) \in Nat /\ entry.joinedAt \in Nat /\ entry.priority \in Nat
<1>1. entry.joinedAt \in Nat /\ entry.priority \in Nat
  BY SorterAssumption DEF Sortable
<1>2. Boost(entry) \in Nat
  BY DEF Boost
<1>3. QED
  BY <1>1, <1>2 DEF EffectivePriority

(* The sort gives each row a place of its own, 1..n, in that order.        *)
LEMMA PlacesOfTheSort ==
  ASSUME now \in Nat, NEW list \in Seq(Sortable)
  PROVE  /\ \A i, j \in 1..Len(list) : Place(list, i) \in 1..Len(list)
                                       /\ (Place(list, i) = Place(list, j) => i = j)
         /\ \A k \in 1..Len(list) : \E i \in 1..Len(list) : Place(list, i) = k
         /\ \A i, j \in 1..Len(list) : Place(list, i) < Place(list, j) => StablyBefore(list, i, j)
<1> DEFINE n == Len(list)
           R == {p \in (1..n) \X (1..n) : StablyBefore(list, p[1], p[2])}
           rank == [i \in 1..n |-> Place(list, i)]
           e == [i \in 1..n |-> EffectivePriority(list[i])]
           t == [i \in 1..n |-> list[i].joinedAt]
<1>1. n \in Nat /\ DOMAIN list = 1..n /\ \A i \in 1..n : list[i] \in Sortable
  OBVIOUS
<1>2. \A i \in 1..n : e[i] \in Nat /\ t[i] \in Nat
  BY <1>1, PriorityIsNat
<1>3. \A i, j \in 1..n : StablyBefore(list, i, j) <=>
        \/ e[i] > e[j] \/ (e[i] = e[j] /\ t[i] < t[j])
        \/ i < j /\ ~(e[j] > e[i] \/ (e[j] = e[i] /\ t[j] < t[i]))
  BY DEF StablyBefore, ComesBefore, GoesBefore
<1>4. \A i, j \in 1..n : <<i, j>> \in R <=> StablyBefore(list, i, j)
  OBVIOUS
<1>5. \A i \in 1..n : rank[i] = 1 + Cardinality({j \in 1..n : <<j, i>> \in R})
  <2> SUFFICES ASSUME NEW i \in 1..n
               PROVE  rank[i] = 1 + Cardinality({j \in 1..n : <<j, i>> \in R})
    OBVIOUS
  <2>1. {j \in 1..n : <<j, i>> \in R}
          = {j \in DOMAIN list : ComesBefore(list[j], list[i]) \/ (j < i /\ ~ComesBefore(list[i], list[j]))}
    BY <1>1, <1>4 DEF StablyBefore
  <2>2. QED
    BY <2>1 DEF Place
<1> HIDE DEF R, e, t
<1>6. \A i \in 1..n : <<i, i>> \notin R
  BY <1>2, <1>3, <1>4
<1>7. \A i, j \in 1..n : i = j \/ <<i, j>> \in R \/ <<j, i>> \in R
  <2> SUFFICES ASSUME NEW i \in 1..n, NEW j \in 1..n, i # j
               PROVE  StablyBefore(list, i, j) \/ StablyBefore(list, j, i)
    BY <1>4
  <2>1. e[i] \in Nat /\ t[i] \in Nat /\ e[j] \in Nat /\ t[j] \in Nat /\ i \in Int /\ j \in Int
    BY <1>2
  <2>2. QED
    BY <2>1, <1>3
<1>8. \A i, j, k \in 1..n : <<i, j>> \in R /\ <<j, k>> \in R => <<i, k>> \in R
  <2> SUFFICES ASSUME NEW i \in 1..n, NEW j \in 1..n, NEW k \in 1..n,
                      StablyBefore(list, i, j), StablyBefore(list, j, k)
               PROVE  StablyBefore(list, i, k)
    BY <1>4
  <2>1. /\ e[i] \in Nat /\ t[i] \in Nat /\ e[j] \in Nat /\ t[j] \in Nat /\ e[k] \in Nat /\ t[k] \in Nat
        /\ i \in Int /\ j \in Int /\ k \in Int
    BY <1>2
  <2>2. QED
    BY <2>1, <1>3
<1>9. rank \in [1..n -> Nat]
  <2> SUFFICES ASSUME NEW i \in 1..n
               PROVE  rank[i] \in Nat
    OBVIOUS
  <2>1. IsFiniteSet(1..n)
    BY <1>1, FS_Interval
  <2>2. IsFiniteSet({j \in 1..n : <<j, i>> \in R})
    BY <2>1, FS_Subset
  <2>3. QED
    BY <2>2, <1>5, FS_CardinalityType
<1>10. \A i \in 1..n : rank[i] = Place(list, i)
  OBVIOUS
<1> HIDE DEF rank, n
<1>11. /\ \A i, j \in 1..n : rank[i] \in 1..n /\ (rank[i] = rank[j] => i = j)
       /\ \A k \in 1..n : \E i \in 1..n : rank[i] = k
       /\ \A i, j \in 1..n : rank[i] < rank[j] => <<i, j>> \in R
  BY <1>1, <1>5, <1>6, <1>7, <1>8, <1>9, RanksOfAnOrder
<1>12. /\ \A i, j \in 1..n : Place(list, i) \in 1..n /\ (Place(list, i) = Place(list, j) => i = j)
       /\ \A k \in 1..n : \E i \in 1..n : Place(list, i) = k
  <2>1. ASSUME NEW i \in 1..n, NEW j \in 1..n
        PROVE  Place(list, i) \in 1..n /\ (Place(list, i) = Place(list, j) => i = j)
    <3>1. rank[i] = Place(list, i) /\ rank[j] = Place(list, j)
      BY <1>10
    <3>2. QED
      BY <3>1, <1>11
  <2>2. ASSUME NEW k \in 1..n
        PROVE  \E i \in 1..n : Place(list, i) = k
    <3>1. PICK i \in 1..n : rank[i] = k
      BY <1>11
    <3>2. QED
      BY <3>1, <1>10
  <2>3. QED
    BY <2>1, <2>2
<1>13. \A i, j \in 1..n : Place(list, i) < Place(list, j) => StablyBefore(list, i, j)
  BY <1>4, <1>10, <1>11
<1>14. QED
  BY <1>12, <1>13 DEF n

(* Each row is found again at its place, and numbered by it.               *)
LEMMA NumbersOfTheSort ==
  ASSUME now \in Nat, NEW list \in Seq(Sortable),
         \A i, j \in 1..Len(list) : list[i].id = list[j].id => i = j
  PROVE  \A i \in 1..Len(list) : AssignPositions(SortQueueEntries(list))[list[i].id] = Place(list, i)
<1> DEFINE n == Len(list)
           sorted == SortQueueEntries(list)
           At(k) == CHOOSE i \in DOMAIN list : Place(list, i) = k
<1>1. DOMAIN list = 1..n /\ n \in Nat
  OBVIOUS
<1>2. /\ \A i, j \in 1..n : Place(list, i) \in 1..n /\ (Place(list, i) = Place(list, j) => i = j)
      /\ \A k \in 1..n : \E i \in 1..n : Place(list, i) = k
  BY PlacesOfTheSort
<1>3. DOMAIN sorted = 1..n /\ \A k \in 1..n : sorted[k] = list[At(k)]
  BY <1>1 DEF SortQueueEntries
<1>4. \A k \in 1..n : At(k) \in 1..n /\ Place(list, At(k)) = k
  BY <1>1, <1>2
<1> HIDE DEF sorted, At
<1> SUFFICES ASSUME NEW i \in 1..n
             PROVE  AssignPositions(sorted)[list[i].id] = Place(list, i)
  BY DEF sorted
<1>5. Place(list, i) \in 1..n
  BY <1>2
<1>6. At(Place(list, i)) = i
  BY <1>2, <1>4, <1>5
<1>7. sorted[Place(list, i)].id = list[i].id
  BY <1>3, <1>5, <1>6
<1>8. \A k \in 1..n : sorted[k].id = list[i].id => k = Place(list, i)
  <2> SUFFICES ASSUME NEW k \in 1..n, sorted[k].id = list[i].id
               PROVE  k = Place(list, i)
    OBVIOUS
  <2>1. At(k) \in 1..n /\ Place(list, At(k)) = k /\ sorted[k] = list[At(k)]
    BY <1>3, <1>4
  <2>2. At(k) = i
    BY <2>1
  <2>3. QED
    BY <2>1, <2>2
<1>9. list[i].id \in {sorted[k].id : k \in DOMAIN sorted}
  BY <1>3, <1>5, <1>7
<1>10. AssignPositions(sorted)[list[i].id] = CHOOSE k \in DOMAIN sorted : sorted[k].id = list[i].id
  BY <1>9 DEF AssignPositions, Position
<1>11. QED
  BY <1>3, <1>5, <1>7, <1>8, <1>10

-----------------------------------------------------------------------------
(* The rows that findMany returns.                                         *)

LEMMA RowInserted ==
  ASSUME NEW list \in Seq(Sortable), NEW e \in Sortable, NEW i \in 1..(Len(list) + 1)
  PROVE  /\ InsertAt(list, i, e) \in Seq(Sortable)
         /\ Len(InsertAt(list, i, e)) = Len(list) + 1
         /\ \A k \in 1..(Len(list) + 1) :
              InsertAt(list, i, e)[k] = IF k < i THEN list[k] ELSE IF k = i THEN e ELSE list[k - 1]
<1> DEFINE n == Len(list)
           front == SubSeq(list, 1, i - 1)
           back == SubSeq(list, i, n)
<1>1. n \in Nat /\ i \in Int /\ 1 <= i /\ i <= n + 1
  OBVIOUS
<1>2. /\ front \in Seq(Sortable) /\ Len(front) = i - 1 /\ \A k \in 1..(i - 1) : front[k] = list[k]
  BY <1>1
<1>3. /\ back \in Seq(Sortable) /\ Len(back) = n - i + 1 /\ \A k \in 1..(n - i + 1) : back[k] = list[k + i - 1]
  BY <1>1
<1>4. <<e>> \in Seq(Sortable) /\ Len(<<e>>) = 1 /\ <<e>>[1] = e
  OBVIOUS
<1>5. InsertAt(list, i, e) = (front \o <<e>>) \o back
  BY DEF InsertAt
<1> HIDE DEF front, back, n
<1> DEFINE mid == front \o <<e>>
<1>6. mid \in Seq(Sortable) /\ Len(mid) = i /\ \A k \in 1..i : mid[k] = IF k < i THEN list[k] ELSE e
  BY <1>1, <1>2, <1>4, ConcatProperties
<1> HIDE DEF mid
<1>7. /\ mid \o back \in Seq(Sortable) /\ Len(mid \o back) = n + 1
      /\ \A k \in 1..(n + 1) : (mid \o back)[k] = IF k <= i THEN mid[k] ELSE back[k - i]
  BY <1>1, <1>3, <1>6, ConcatProperties
<1>8. \A k \in 1..(n + 1) : (mid \o back)[k] = IF k < i THEN list[k] ELSE IF k = i THEN e ELSE list[k - 1]
  BY <1>1, <1>3, <1>6, <1>7
<1>9. QED
  BY <1>5, <1>7, <1>8 DEF mid, n

LEMMA RowRemoved ==
  ASSUME NEW list \in Seq(Sortable), NEW i \in 1..Len(list)
  PROVE  /\ RemoveAt(list, i) \in Seq(Sortable)
         /\ Len(RemoveAt(list, i)) = Len(list) - 1
         /\ \A k \in 1..(Len(list) - 1) : RemoveAt(list, i)[k] = IF k < i THEN list[k] ELSE list[k + 1]
<1> DEFINE n == Len(list)
           front == SubSeq(list, 1, i - 1)
           back == SubSeq(list, i + 1, n)
<1>1. n \in Nat /\ i \in Int /\ 1 <= i /\ i <= n
  OBVIOUS
<1>2. /\ front \in Seq(Sortable) /\ Len(front) = i - 1 /\ \A k \in 1..(i - 1) : front[k] = list[k]
  BY <1>1
<1>3. /\ back \in Seq(Sortable) /\ Len(back) = n - i /\ \A k \in 1..(n - i) : back[k] = list[k + i]
  BY <1>1
<1>4. RemoveAt(list, i) = front \o back
  BY DEF RemoveAt
<1> HIDE DEF front, back, n
<1>5. /\ front \o back \in Seq(Sortable) /\ Len(front \o back) = Len(front) + Len(back)
      /\ \A k \in 1..(Len(front) + Len(back)) :
           (front \o back)[k] = IF k <= Len(front) THEN front[k] ELSE back[k - Len(front)]
  BY <1>2, <1>3, ConcatProperties
<1>l. Len(front) + Len(back) = n - 1
  BY <1>1, <1>2, <1>3
<1>6. \A k \in 1..(n - 1) : (front \o back)[k] = IF k < i THEN list[k] ELSE list[k + 1]
  <2> SUFFICES ASSUME NEW k \in 1..(n - 1)
               PROVE  (front \o back)[k] = IF k < i THEN list[k] ELSE list[k + 1]
    OBVIOUS
  <2>1. (front \o back)[k] = IF k <= i - 1 THEN front[k] ELSE back[k - (i - 1)]
    BY <1>2, <1>5, <1>l
  <2>2. k < i => k \in 1..(i - 1) /\ k <= i - 1
    BY <1>1
  <2>3. ~(k < i) => k - (i - 1) \in 1..(n - i) /\ ~(k <= i - 1) /\ (k - (i - 1)) + i = k + 1
    BY <1>1
  <2>4. QED
    BY <2>1, <2>2, <2>3, <1>2, <1>3
<1>7. QED
  BY <1>4, <1>5, <1>l, <1>6 DEF n

LEMMA SorterInvInit == Init => SorterInv
<1> SUFFICES ASSUME Init
             PROVE  SorterInv
  OBVIOUS
<1>1. queue = <<>> /\ now = 0
  BY DEF Init
<1>2. queue \in Seq(Sortable) /\ DOMAIN queue = {} /\ now \in Nat
  BY <1>1
<1>3. QED
  BY <1>2 DEF SorterInv

LEMMA SorterInvNext == SorterInv /\ [Next]_vars => SorterInv'
<1> SUFFICES ASSUME SorterInv, [Next]_vars
             PROVE  SorterInv'
  OBVIOUS
<1>t. /\ queue \in Seq(Sortable) /\ now \in Nat /\ DOMAIN queue = 1..Len(queue) /\ Len(queue) \in Nat
      /\ \A i, j \in 1..Len(queue) : queue[i].id = queue[j].id => i = j
  BY DEF SorterInv
<1>1. ASSUME NEW e \in Sortable, NEW i \in 1..(Len(queue) + 1), Join(e, i)
      PROVE  SorterInv'
  <2>1. queue' = InsertAt(queue, i, e) /\ now' = now /\ \A k \in 1..Len(queue) : queue[k].id # e.id
    BY <1>1, <1>t DEF Join, IdsIn
  <2>i. /\ InsertAt(queue, i, e) \in Seq(Sortable) /\ Len(InsertAt(queue, i, e)) = Len(queue) + 1
        /\ \A k \in 1..(Len(queue) + 1) :
             InsertAt(queue, i, e)[k] = IF k < i THEN queue[k] ELSE IF k = i THEN e ELSE queue[k - 1]
    BY <1>t, RowInserted
  <2>q. /\ queue' \in Seq(Sortable) /\ Len(queue') = Len(queue) + 1
        /\ \A k \in 1..(Len(queue) + 1) :
             queue'[k] = IF k < i THEN queue[k] ELSE IF k = i THEN e ELSE queue[k - 1]
    BY <2>1, <2>i
  <2>2. /\ queue' \in Seq(Sortable) /\ DOMAIN queue' = 1..(Len(queue) + 1)
        /\ \A k \in 1..(Len(queue) + 1) :
             queue'[k] = IF k < i THEN queue[k] ELSE IF k = i THEN e ELSE queue[k - 1]
    BY <2>q
  <2>3. \A k, l \in DOMAIN queue' : queue'[k].id = queue'[l].id => k = l
    <3> SUFFICES ASSUME NEW k \in 1..(Len(queue) + 1), NEW l \in 1..(Len(queue) + 1),
                        queue'[k].id = queue'[l].id
                 PROVE  k = l
      BY <2>2
    <3>1. /\ k < i => k \in 1..Len(queue)
          /\ k > i => k - 1 \in 1..Len(queue)
          /\ l < i => l \in 1..Len(queue)
          /\ l > i => l - 1 \in 1..Len(queue)
      BY <1>t
    <3>2. QED
      BY <2>1, <2>2, <3>1, <1>t
  <2>4. QED
    BY <2>1, <2>2, <2>3, <1>t DEF SorterInv
<1>2. ASSUME NEW i \in DOMAIN queue, Leave(i)
      PROVE  SorterInv'
  <2>1. queue' = RemoveAt(queue, i) /\ now' = now /\ i \in 1..Len(queue)
    BY <1>2, <1>t DEF Leave
  <2>2. /\ queue' \in Seq(Sortable) /\ DOMAIN queue' = 1..(Len(queue) - 1)
        /\ \A k \in 1..(Len(queue) - 1) : queue'[k] = IF k < i THEN queue[k] ELSE queue[k + 1]
    BY <2>1, <1>t, RowRemoved
  <2>3. \A k, l \in DOMAIN queue' : queue'[k].id = queue'[l].id => k = l
    <3> SUFFICES ASSUME NEW k \in 1..(Len(queue) - 1), NEW l \in 1..(Len(queue) - 1),
                        queue'[k].id = queue'[l].id
                 PROVE  k = l
      BY <2>2
    <3>1. k \in 1..Len(queue) /\ k + 1 \in 1..Len(queue) /\ l \in 1..Len(queue) /\ l + 1 \in 1..Len(queue)
      BY <1>t
    <3>2. QED
      BY <2>1, <2>2, <3>1, <1>t
  <2>4. QED
    BY <2>1, <2>2, <2>3, <1>t DEF SorterInv
<1>3. CASE TimePasses
  BY <1>3, <1>t DEF TimePasses, SorterInv
<1>4. CASE UNCHANGED vars
  BY <1>4 DEF vars, SorterInv
<1>5. QED
  BY <1>1, <1>2, <1>3, <1>4 DEF Next
LEMMA SorterInvariant == Spec => []SorterInv
BY SorterInvInit, SorterInvNext, PTL DEF Spec

(* priority.sorter.ts:21-47, sortQueueEntries and assignPositions: however *)
(* the rows stand in the table, each has one position, 1..n, by its        *)
(* priority and then by the time it joined.                                *)
THEOREM PositionsAreAnOrder == Spec => []SortedAndNumbered
<1>1. SorterInv => SortedAndNumbered
  <2> SUFFICES ASSUME SorterInv
               PROVE  SortedAndNumbered
    OBVIOUS
  <2> DEFINE n == Len(queue)
             positions == AssignPositions(SortQueueEntries(queue))
  <2>1. /\ queue \in Seq(Sortable) /\ now \in Nat /\ DOMAIN queue = 1..n
        /\ \A i, j \in 1..n : queue[i].id = queue[j].id => i = j
    BY DEF SorterInv
  <2>2. \A i \in 1..n : positions[queue[i].id] = Place(queue, i)
    BY <2>1, NumbersOfTheSort
  <2>3. /\ \A i \in 1..n : Place(queue, i) \in 1..n
        /\ \A k \in 1..n : \E i \in 1..n : Place(queue, i) = k
        /\ \A i, j \in 1..n : Place(queue, i) < Place(queue, j) => StablyBefore(queue, i, j)
    BY <2>1, PlacesOfTheSort
  <2> HIDE DEF positions
  <2>4. {positions[id] : id \in IdsIn(queue)} = 1..n
    <3>1. ASSUME NEW id \in IdsIn(queue)
          PROVE  positions[id] \in 1..n
      <4>1. PICK i \in 1..n : id = queue[i].id
        BY <2>1 DEF IdsIn
      <4>2. QED
        BY <4>1, <2>2, <2>3
    <3>2. ASSUME NEW k \in 1..n
          PROVE  \E id \in IdsIn(queue) : positions[id] = k
      <4>1. PICK i \in 1..n : Place(queue, i) = k
        BY <2>3
      <4>2. queue[i].id \in IdsIn(queue)
        BY <2>1 DEF IdsIn
      <4>3. QED
        BY <4>1, <4>2, <2>2
    <3>3. QED
      BY <3>1, <3>2
  <2>5. ASSUME NEW i \in 1..n, NEW j \in 1..n, positions[queue[i].id] < positions[queue[j].id]
        PROVE  /\ EffectivePriority(queue[i]) >= EffectivePriority(queue[j])
               /\ EffectivePriority(queue[i]) = EffectivePriority(queue[j])
                    => queue[i].joinedAt <= queue[j].joinedAt
    <3>1. Place(queue, i) < Place(queue, j)
      BY <2>2, <2>5
    <3>2. StablyBefore(queue, i, j)
      BY <3>1, <2>3
    <3>3. /\ EffectivePriority(queue[i]) \in Nat /\ queue[i].joinedAt \in Nat
          /\ EffectivePriority(queue[j]) \in Nat /\ queue[j].joinedAt \in Nat
      <4>1. queue[i] \in Sortable /\ queue[j] \in Sortable
        BY <2>1
      <4>2. QED
        BY <4>1, <2>1, PriorityIsNat
    <3>4. QED
      BY <3>2, <3>3 DEF StablyBefore, ComesBefore, GoesBefore
  <2>6. QED
    BY <2>1, <2>4, <2>5 DEF SortedAndNumbered, positions
<1>2. QED
  BY <1>1, SorterInvariant, PTL

(* priority.sorter.ts on the rows of recalculateQueue (queue.service.ts),  *)
(* which carry no appointment: where join times differ, the stored         *)
(* position is one more than the entries that go before, whatever the      *)
(* order of the rows.  QueueService numbers its entries so.                *)
THEOREM PositionsOfTheService == Spec => []RanksOfTheService
<1>1. SorterInv => RanksOfTheService
  <2> SUFFICES ASSUME SorterInv,
                      \A i, j \in DOMAIN queue : i # j => queue[i].joinedAt # queue[j].joinedAt,
                      NEW i \in DOMAIN queue
               PROVE  ServicePositions[queue[i].id] =
                        1 + Cardinality({j \in DOMAIN queue :
                              GoesBefore(queue[j].priority, queue[j].joinedAt,
                                         queue[i].priority, queue[i].joinedAt)})
    BY DEF RanksOfTheService
  <2> DEFINE n == Len(queue)
             list == ServiceSortable(queue)
             Ahead(j) == GoesBefore(queue[j].priority, queue[j].joinedAt,
                                    queue[i].priority, queue[i].joinedAt)
  <2>1. /\ queue \in Seq(Sortable) /\ now \in Nat /\ DOMAIN queue = 1..n /\ n \in Nat
        /\ \A k, l \in 1..n : queue[k].id = queue[l].id => k = l
        /\ \A k \in 1..n : queue[k] \in Sortable
    BY DEF SorterInv
  <2>2. \A k \in 1..n : /\ [queue[k] EXCEPT !.appointmentTime = NoTime] \in Sortable
                        /\ list[k] = [queue[k] EXCEPT !.appointmentTime = NoTime]
    BY <2>1 DEF ServiceSortable, Sortable
  <2>3. /\ list \in [1..n -> Sortable]
        /\ list \in Seq(Sortable) /\ Len(list) = n /\ DOMAIN list = 1..n
    <3>1. list \in [1..n -> Sortable]
      BY <2>1, <2>2 DEF ServiceSortable
    <3> HIDE DEF list
    <3>2. QED
      BY <2>1, <3>1
  <2>4. \A k \in 1..n : /\ list[k].id = queue[k].id /\ list[k].priority = queue[k].priority
                        /\ list[k].joinedAt = queue[k].joinedAt /\ list[k].appointmentTime = NoTime
    BY <2>1, <2>2 DEF Sortable
  <2>p. ServicePositions = AssignPositions(SortQueueEntries(list))
    BY DEF ServicePositions
  <2> HIDE DEF list, n
  <2>5. \A k \in 1..n : EffectivePriority(list[k]) = queue[k].priority
    <3> SUFFICES ASSUME NEW k \in 1..n
                 PROVE  EffectivePriority(list[k]) = queue[k].priority
      OBVIOUS
    <3>1. queue[k].priority \in Nat /\ list[k].priority = queue[k].priority
      BY <2>1, <2>4, PriorityIsNat
    <3>2. Boost(list[k]) = 0
      BY <2>4 DEF Boost
    <3>3. QED
      BY <3>1, <3>2 DEF EffectivePriority
  <2>6. \A k, l \in 1..n : ComesBefore(list[k], list[l]) <=>
          GoesBefore(queue[k].priority, queue[k].joinedAt, queue[l].priority, queue[l].joinedAt)
    BY <2>4, <2>5 DEF ComesBefore
  <2>7. ServicePositions[queue[i].id] = Place(list, i)
    <3>1. \A k, l \in 1..Len(list) : list[k].id = list[l].id => k = l
      BY <2>1, <2>3, <2>4
    <3>2. i \in 1..Len(list)
      BY <2>1, <2>3
    <3>3. AssignPositions(SortQueueEntries(list))[list[i].id] = Place(list, i)
      BY <3>1, <3>2, <2>1, <2>3, NumbersOfTheSort
    <3>4. QED
      BY <3>2, <3>3, <2>1, <2>3, <2>4, <2>p
  <2>8. \A j \in 1..n : (\/ ComesBefore(list[j], list[i])
                         \/ j < i /\ ~ComesBefore(list[i], list[j])) <=> Ahead(j)
    <3> SUFFICES ASSUME NEW j \in 1..n
                 PROVE  (\/ ComesBefore(list[j], list[i])
                         \/ j < i /\ ~ComesBefore(list[i], list[j])) <=> Ahead(j)
      OBVIOUS
    <3>1. i \in 1..n
      BY <2>1
    <3>2. /\ queue[i].priority \in Nat /\ queue[i].joinedAt \in Nat
          /\ queue[j].priority \in Nat /\ queue[j].joinedAt \in Nat
      BY <3>1, <2>1, PriorityIsNat
    <3>3. i # j => queue[i].joinedAt # queue[j].joinedAt
      BY <3>1, <2>1
    <3>4. i = j => ~(j < i)
      BY <3>1, <2>1
    <3>5. (ComesBefore(list[j], list[i]) <=> Ahead(j))
          /\ (ComesBefore(list[i], list[j]) <=>
                GoesBefore(queue[i].priority, queue[i].joinedAt, queue[j].priority, queue[j].joinedAt))
      BY <3>1, <2>6
    <3>6. i # j => (Ahead(j) <=>
            ~GoesBefore(queue[i].priority, queue[i].joinedAt, queue[j].priority, queue[j].joinedAt))
      BY <3>2, <3>3 DEF GoesBefore
    <3>7. QED
      BY <3>4, <3>5, <3>6
  <2>9. {j \in DOMAIN list : ComesBefore(list[j], list[i]) \/ (j < i /\ ~ComesBefore(list[i], list[j]))}
          = {j \in DOMAIN queue : Ahead(j)}
    BY <2>1, <2>3, <2>8
  <2>10. QED
    BY <2>7, <2>9 DEF Place
<1>2. QED
  BY <1>1, SorterInvariant, PTL
=============================================================================
