-------------------------- MODULE LiveScreensProofs --------------------------
(***************************************************************************)
(* Theorems about LiveScreens, for any number of entries, any losses and   *)
(* any number of messages on their way.                                    *)
(***************************************************************************)
EXTENDS LiveScreens, FiniteSetTheorems, WellFoundedInduction, SequenceTheorems, TLAPS

-----------------------------------------------------------------------------
(* The first of a set, and the first of a list.                            *)

LEMMA LeastNumber ==
  ASSUME NEW T, T \subseteq Nat, T # {}
  PROVE  \E x \in T : \A y \in T : x <= y
<1>1. IsWellFoundedOn({p \in Nat \X Nat : p[1] < p[2]}, Nat)
  BY NatLessThanWellFounded DEF OpToRel
<1>2. PICK R : IsWellFoundedOn(R, Nat) /\ R = {p \in Nat \X Nat : p[1] < p[2]}
  BY <1>1
<1>3. PICK x \in T : \A y \in T : ~(<<y, x>> \in R)
  BY <1>2, WFMin
<1>4. ASSUME NEW y \in T
      PROVE  x <= y
  <2>1. ~(<<y, x>> \in R) /\ x \in Nat /\ y \in Nat
    BY <1>3
  <2>2. ~(y < x)
    BY <1>2, <2>1
  <2>3. QED
    BY <2>1, <2>2
<1>5. QED
  BY <1>4

LEMMA EntriesAreNat == LastEntry \in Nat /\ Me \in Entries /\ \A e \in Entries : e \in Nat /\ 1 <= e /\ e <= LastEntry
  BY GatewayAssumption DEF Entries

\* The order of a list.
LEMMA AheadOrder ==
  /\ \A d, e, f \in Entries : Ahead(d, e) /\ Ahead(e, f) => Ahead(d, f)
  /\ \A d, e \in Entries : Ahead(d, e) => ~Ahead(e, d) /\ d # e
<1>1. \A e \in Entries : e \in Nat /\ Priority[e] \in Nat
  BY EntriesAreNat, GatewayAssumption
<1>2. QED
  BY <1>1 DEF Ahead, GoesBefore

LEMMA ForemostOne ==
  ASSUME NEW S, S \subseteq Entries, S # {}
  PROVE  Foremost(S) \in S /\ \A d \in S : d # Foremost(S) => Ahead(Foremost(S), d)
<1>1. \A e \in S : e \in Nat /\ Priority[e] \in 1..10 /\ 10 - Priority[e] \in Nat
  BY EntriesAreNat, GatewayAssumption
<1>2. PICK p \in {10 - Priority[e] : e \in S} : \A q \in {10 - Priority[e] : e \in S} : p <= q
  BY <1>1, LeastNumber
<1> DEFINE T == {e \in S : 10 - Priority[e] = p}
<1>3. PICK x \in T : \A y \in T : x <= y
  BY <1>1, <1>2, LeastNumber
<1>4. ASSUME NEW d \in S \ {x}
      PROVE  Ahead(x, d)
  <2>1. /\ x \in Nat /\ d \in Nat /\ Priority[x] \in 1..10 /\ Priority[d] \in 1..10
        /\ 10 - Priority[x] = p /\ p <= 10 - Priority[d]
    BY <1>1, <1>2, <1>3
  <2>2. 10 - Priority[d] = p => x <= d
    BY <1>3
  <2>3. QED
    BY <2>1, <2>2 DEF Ahead, GoesBefore
<1>5. QED
  BY <1>3, <1>4 DEF Foremost

LEMMA ListRows ==
  ASSUME NEW list \in Lists
  PROVE  /\ DOMAIN list \subseteq Entries
         /\ \A e \in DOMAIN list : list[e] \in Rows /\ list[e].status \in Statuses /\ list[e].position \in Nat
<1>1. PICK S \in SUBSET Entries : list \in [S -> Rows]
  BY DEF Lists
<1>2. \A e \in S : list[e] \in Rows
  BY <1>1
<1>3. QED
  BY <1>1, <1>2, EntriesAreNat DEF Rows

LEMMA IsList ==
  ASSUME NEW S \in SUBSET Entries, NEW list \in [S -> Rows]
  PROVE  list \in Lists
BY DEF Lists

LEMMA FirstOfList ==
  ASSUME NEW list \in Lists, NEW S, S \subseteq DOMAIN list, S # {}
  PROVE  /\ First(list, S) \in S
         /\ \A d \in S : d # First(list, S) =>
              \/ list[First(list, S)].position < list[d].position
              \/ list[First(list, S)].position = list[d].position /\ Ahead(First(list, S), d)
<1>1. \A e \in S : e \in Entries /\ e \in Nat /\ list[e].position \in Nat
  BY ListRows, EntriesAreNat
<1>2. PICK p \in {list[e].position : e \in S} : \A q \in {list[e].position : e \in S} : p <= q
  BY <1>1, LeastNumber
<1> DEFINE T == {e \in S : list[e].position = p}
<1>3. T # {} /\ T \subseteq Entries
  BY <1>1
<1>4. Foremost(T) \in T /\ \A e \in T : e # Foremost(T) => Ahead(Foremost(T), e)
  BY <1>3, ForemostOne
<1>5. \A d \in S \ {Foremost(T)} :
        \/ list[Foremost(T)].position < list[d].position
        \/ list[Foremost(T)].position = list[d].position /\ Ahead(Foremost(T), d)
  <2> SUFFICES ASSUME NEW d \in S \ {Foremost(T)}
               PROVE  \/ list[Foremost(T)].position < list[d].position
                      \/ list[Foremost(T)].position = list[d].position /\ Ahead(Foremost(T), d)
    OBVIOUS
  <2>1. list[Foremost(T)].position = p /\ p <= list[d].position /\ Foremost(T) \in S
    BY <1>2, <1>4
  <2>2. list[d].position = p => Ahead(Foremost(T), d)
    BY <1>4
  <2>3. QED
    BY <2>1, <2>2, <1>1
<1>6. QED
  BY <1>4, <1>5 DEF First

-----------------------------------------------------------------------------
(* The numbers.                                                            *)

RankIn(S, e) == Cardinality({d \in S : d = e \/ Ahead(d, e)})

LEMMA RankTyped ==
  ASSUME NEW S, S \subseteq Entries, NEW e \in S
  PROVE  RankIn(S, e) \in 1..LastEntry
<1> DEFINE F == {d \in S : d = e \/ Ahead(d, e)}
<1>1. IsFiniteSet(1..LastEntry) /\ Cardinality(1..LastEntry) = LastEntry
  BY EntriesAreNat, FS_Interval
<1>2. F \in SUBSET (1..LastEntry) /\ e \in F
  <2>1. S \subseteq 1..LastEntry /\ e \in Nat
    BY EntriesAreNat DEF Entries
  <2>2. \A d \in F : d \in 1..LastEntry
    BY <2>1
  <2>3. e \in F
    BY <2>1
  <2>4. QED
    BY <2>2, <2>3
<1> HIDE DEF F
<1>3. IsFiniteSet(F) /\ Cardinality(F) <= LastEntry
  BY <1>1, <1>2, FS_Subset
<1>4. Cardinality(F) \in Nat /\ Cardinality(F) # 0
  BY <1>2, <1>3, FS_CardinalityType, FS_EmptySet
<1>5. QED
  BY <1>3, <1>4, EntriesAreNat DEF RankIn, F

LEMMA RankGrows ==
  ASSUME NEW S, S \subseteq Entries, NEW d \in S, NEW e \in S, Ahead(d, e)
  PROVE  RankIn(S, d) < RankIn(S, e)
<1> DEFINE F == {x \in S : x = d \/ Ahead(x, d)}
           G == {x \in S : x = e \/ Ahead(x, e)}
<1>1. IsFiniteSet(Entries)
  BY EntriesAreNat, FS_Interval DEF Entries
<1>2. F \in SUBSET G /\ G \in SUBSET Entries /\ e \in G /\ e \notin F
  BY AheadOrder
<1> HIDE DEF F, G
<1>3. IsFiniteSet(F) /\ IsFiniteSet(G) /\ Cardinality(F) <= Cardinality(G) /\ Cardinality(F) # Cardinality(G)
  BY <1>1, <1>2, FS_Subset
<1>4. Cardinality(F) \in Nat /\ Cardinality(G) \in Nat
  BY <1>3, FS_CardinalityType
<1>5. QED
  BY <1>3, <1>4 DEF RankIn, F, G

\* Nobody comes in between later.
LEMMA RankShrinks ==
  ASSUME NEW S, NEW T, S \subseteq Entries, NEW e \in Entries,
         \A d \in T : d = e \/ Ahead(d, e) => d \in S
  PROVE  RankIn(T, e) <= RankIn(S, e)
<1> DEFINE F == {x \in T : x = e \/ Ahead(x, e)}
           G == {x \in S : x = e \/ Ahead(x, e)}
<1>1. IsFiniteSet(Entries)
  BY EntriesAreNat, FS_Interval DEF Entries
<1>2. F \in SUBSET G /\ G \in SUBSET Entries
  OBVIOUS
<1> HIDE DEF F, G
<1>3. IsFiniteSet(G)
  BY <1>1, <1>2, FS_Subset
<1>4. Cardinality(F) <= Cardinality(G)
  BY <1>2, <1>3, FS_Subset
<1>5. QED
  BY <1>4 DEF RankIn, F, G

-----------------------------------------------------------------------------
(* Messages.                                                               *)

LEMMA QueueIsList ==
  ASSUME GatewayTypeOK
  PROVE  /\ ActiveQueue \in Lists /\ <<>> \in Lists /\ Published \in Lists
         /\ DOMAIN ActiveQueue = With(ActiveStatuses)
         /\ \A e \in With(ActiveStatuses) : ActiveQueue[e] = Row(e)
         /\ \A e \in Entries : status[e] # "ABSENT" => Row(e) \in Rows
<1>1. \A e \in Entries : status[e] # "ABSENT" => Row(e) \in Rows
  BY DEF GatewayTypeOK, Row, Rows
<1>2. With(ActiveStatuses) \in SUBSET Entries /\ \A e \in With(ActiveStatuses) : status[e] # "ABSENT"
  BY DEF With, ActiveStatuses
<1>3. ActiveQueue \in [With(ActiveStatuses) -> Rows]
  BY <1>1, <1>2 DEF ActiveQueue
<1> DEFINE S == With(ActiveStatuses) \cap RowsOf(scope)
<1>4. <<>> \in [{} -> Rows] /\ {} \in SUBSET Entries /\ S \in SUBSET Entries /\ [e \in S |-> Row(e)] \in [S -> Rows]
  BY <1>1, <1>2
<1> HIDE DEF S
<1>5. ActiveQueue \in Lists /\ <<>> \in Lists /\ [e \in S |-> Row(e)] \in Lists
  BY <1>2, <1>3, <1>4, IsList
<1>6. Published \in Lists
  BY <1>5 DEF Published, S
<1>7. QED
  BY <1>1, <1>5, <1>6 DEF ActiveQueue

\* A published list holds the rows as they are, and those numbered among them.
LEMMA PublishedRows ==
  /\ \A e \in DOMAIN Published : Published[e] = Row(e) /\ status[e] \in ActiveStatuses
  /\ Me \in Line => Me \in DOMAIN Published
<1> DEFINE S == With(ActiveStatuses) \cap RowsOf(scope)
<1>1. DOMAIN [e \in S |-> Row(e)] = S /\ \A e \in S : [d \in S |-> Row(d)][e] = Row(e)
  OBVIOUS
<1>2. DOMAIN <<>> = {}
  OBVIOUS
<1>3. Line \subseteq S /\ \A e \in S : status[e] \in ActiveStatuses
  BY DEF Line, Queued, With, ActiveStatuses
<1> HIDE DEF S
<1>4. Published = IF Line = {} THEN <<>> ELSE [e \in S |-> Row(e)]
  BY DEF Published, S
<1>5. QED
  BY <1>1, <1>2, <1>3, <1>4

LEMMA BroadcastMessages ==
  ASSUME NEW list \in Lists
  PROVE  /\ Broadcast(list) \in Seq(Messages)
         /\ \A k \in DOMAIN Broadcast(list) :
              \/ Broadcast(list)[k] = QueueUpdated(list)
              \/ /\ Foremost(Serving(list)) \in DOMAIN list /\ list[Foremost(Serving(list))].status = "SERVING"
                 /\ Broadcast(list)[k] = NowServingChanged(Foremost(Serving(list)), list[Foremost(Serving(list))])
<1> DEFINE m == Foremost(Serving(list))
           second == NowServingChanged(m, list[m])
<1>1. QueueUpdated(list) \in Messages
  BY DEF QueueUpdated, Messages
<1>2. CASE Serving(list) = {}
  <2>1. Broadcast(list) = <<QueueUpdated(list)>> \o <<>>
    BY <1>2 DEF Broadcast
  <2>2. Broadcast(list) = <<QueueUpdated(list)>>
    BY <2>1, <1>1
  <2> HIDE DEF m
  <2>3. QED
    BY <2>2, <1>1
<1>3. CASE Serving(list) # {}
  <2>1. m \in Serving(list)
    BY <1>3, ForemostOne, ListRows DEF Serving
  <2>2. m \in DOMAIN list /\ list[m].status = "SERVING" /\ m \in Entries /\ list[m] \in Rows
    BY <2>1, ListRows DEF Serving
  <2>3. second \in Messages
    BY <2>2 DEF NowServingChanged, Messages
  <2>4. Broadcast(list) = <<QueueUpdated(list)>> \o <<second>>
    BY <1>3 DEF Broadcast
  <2> HIDE DEF second, m
  <2> DEFINE f == <<QueueUpdated(list)>>
             g == <<second>>
  <2>5. /\ f \in Seq(Messages) /\ Len(f) = 1 /\ f[1] = QueueUpdated(list)
        /\ g \in Seq(Messages) /\ Len(g) = 1 /\ g[1] = second
    BY <1>1, <2>3
  <2> HIDE DEF f, g
  <2>6. /\ f \o g \in Seq(Messages) /\ Len(f \o g) = Len(f) + Len(g)
        /\ \A k \in 1..(Len(f) + Len(g)) : (f \o g)[k] = IF k <= Len(f) THEN f[k] ELSE g[k - Len(f)]
    BY <2>5, ConcatProperties
  <2>7. DOMAIN (f \o g) = 1..2 /\ \A k \in 1..2 : (f \o g)[k] = QueueUpdated(list) \/ (f \o g)[k] = second
    BY <2>5, <2>6
  <2>8. Broadcast(list) = f \o g
    BY <2>4 DEF f, g
  <2>9. QED
    BY <2>2, <2>6, <2>7, <2>8 DEF second, m
<1>4. QED
  BY <1>2, <1>3

\* What is sent comes after what is on its way.
LEMMA Sent ==
  ASSUME inbox \in Seq(Messages), NEW a \in Seq(Messages), NEW b \in Seq(Messages), Deliver(a, b)
  PROVE  /\ inbox' \in Seq(Messages) /\ Len(inbox) <= Len(inbox')
         /\ \A i \in DOMAIN inbox : i \in DOMAIN inbox' /\ inbox'[i] = inbox[i]
         /\ \A i \in DOMAIN inbox' : i \notin DOMAIN inbox =>
              /\ socket = "up" /\ i > Len(inbox)
              /\ (\E k \in DOMAIN a : inbox'[i] = a[k]) \/ (\E k \in DOMAIN b : inbox'[i] = b[k])
<1>1. CASE socket # "up"
  <2>1. inbox' = inbox \o <<>>
    BY <1>1 DEF Deliver
  <2>2. inbox' = inbox
    BY <2>1
  <2>3. QED
    BY <2>2
<1>2. CASE socket = "up"
  <2> DEFINE c == IF inRoom THEN b ELSE <<>>
             t == a \o c
  <2>1. c \in Seq(Messages) /\ \A k \in 1..Len(c) : k \in DOMAIN b /\ c[k] = b[k]
    OBVIOUS
  <2>2. inbox' = inbox \o t
    BY <1>2 DEF Deliver, Delivery
  <2> HIDE DEF c
  <2>3. /\ t \in Seq(Messages) /\ Len(t) = Len(a) + Len(c)
        /\ \A k \in 1..(Len(a) + Len(c)) : t[k] = IF k <= Len(a) THEN a[k] ELSE c[k - Len(a)]
    BY <2>1, ConcatProperties
  <2> HIDE DEF t
  <2>4. /\ inbox' \in Seq(Messages) /\ Len(inbox') = Len(inbox) + Len(t)
        /\ \A i \in 1..(Len(inbox) + Len(t)) :
             inbox'[i] = IF i <= Len(inbox) THEN inbox[i] ELSE t[i - Len(inbox)]
    <3>1. /\ inbox \o t \in Seq(Messages) /\ Len(inbox \o t) = Len(inbox) + Len(t)
          /\ \A i \in 1..(Len(inbox) + Len(t)) :
               (inbox \o t)[i] = IF i <= Len(inbox) THEN inbox[i] ELSE t[i - Len(inbox)]
      <4>1. t \in Seq(Messages)
        BY <2>3
      <4>2. QED
        BY <4>1, ConcatProperties
    <3>2. inbox' = inbox \o t
      BY <2>2
    <3>3. QED
      BY <3>1, <3>2, Zenon
  <2>5. \A k \in 1..Len(t) : (\E l \in DOMAIN a : t[k] = a[l]) \/ (\E l \in DOMAIN b : t[k] = b[l])
    <3> SUFFICES ASSUME NEW k \in 1..Len(t)
                 PROVE  (\E l \in DOMAIN a : t[k] = a[l]) \/ (\E l \in DOMAIN b : t[k] = b[l])
      OBVIOUS
    <3>1. CASE k <= Len(a)
      BY <2>3, <3>1
    <3>2. CASE ~(k <= Len(a))
      <4>1. k - Len(a) \in 1..Len(c) /\ t[k] = c[k - Len(a)]
        BY <2>1, <2>3, <3>2
      <4>2. QED
        BY <2>1, <4>1
    <3>3. QED
      BY <3>1, <3>2
  <2>6. \A i \in DOMAIN inbox' : i \notin DOMAIN inbox => i > Len(inbox) /\ i - Len(inbox) \in 1..Len(t)
                                                        /\ inbox'[i] = t[i - Len(inbox)]
    BY <2>3, <2>4
  <2>7. Len(inbox) <= Len(inbox') /\ \A i \in DOMAIN inbox : i \in DOMAIN inbox' /\ inbox'[i] = inbox[i]
    BY <2>3, <2>4
  <2>8. QED
    BY <1>2, <2>4, <2>5, <2>6, <2>7
<1>3. QED
  BY <1>1, <1>2

-----------------------------------------------------------------------------
(* Rows as the service goes on.                                            *)

\* What every step does to the statuses.
Onwards(old, new) ==
  \A e \in Entries : /\ old[e] # "ABSENT" => new[e] # "ABSENT"
                     /\ old[e] \notin {"ABSENT", "WAITING"} => new[e] \notin {"ABSENT", "WAITING"}

MyRowMoves ==
  \A exact \in BOOLEAN : (exact => ~Overtaken') /\ Joined(Me) => Follows(exact, Row(Me), Row(Me)')

\* The numbers that count for an entry.
LineOf(e) == Queued \cap RowsOf(Barber[e])

LEMMA PassedLasts ==
  ASSUME Onwards(status, status'), NEW e \in Entries
  PROVE  Passed(e) => Passed(e)'
BY DEF Onwards, Passed, Joined

LEMMA OvertakenLasts ==
  ASSUME Onwards(status, status')
  PROVE  Overtaken => Overtaken'
BY PassedLasts, GatewayAssumption DEF Onwards, Overtaken, Joined

LEMMA ValidMoves ==
  ASSUME NEW r, NEW s, IsValidTransition(r, s)
  PROVE  /\ r \in {"WAITING", "CALLED", "SERVING"} /\ s \in Statuses \ {"WAITING"}
         /\ Stage(s) >= Stage(r)
         /\ s = "CALLED" => r = "WAITING"
BY DEF IsValidTransition, ValidNextStatuses, Statuses, Stage

LEMMA RowStays ==
  ASSUME GatewayTypeOK, status'[Me] = status[Me], position'[Me] = position[Me]
  PROVE  MyRowMoves
<1>1. position[Me] \in Nat
  BY EntriesAreNat DEF GatewayTypeOK
<1>2. Stage(status[Me]) \in Nat
  BY DEF Stage
<1>3. QED
  BY <1>1, <1>2 DEF MyRowMoves, Follows, Row

(* joinQueue's insert and updateStatus, each on one row.                   *)
LEMMA StatusMoves ==
  ASSUME GatewayTypeOK, NumbersInOrder, NEW e \in Entries, NEW s,
         status' = [status EXCEPT ![e] = s], position' = position,
         \/ /\ status[e] = "ABSENT" /\ s = "WAITING"
            /\ \A d \in 1..(e - 1) : status[d] # "ABSENT"
         \/ IsValidTransition(status[e], s)
  PROVE  /\ s \in Statuses /\ status' \in [Entries -> Statuses \cup {"ABSENT"}]
         /\ NumbersInOrder' /\ Onwards(status, status') /\ MyRowMoves
<1>1. /\ status \in [Entries -> Statuses \cup {"ABSENT"}]
      /\ \A d \in Entries : status'[d] = IF d = e THEN s ELSE status[d]
  BY DEF GatewayTypeOK
<1>2. /\ s \in Statuses
      /\ status[e] # "ABSENT" => IsValidTransition(status[e], s) /\ s # "WAITING"
      /\ status[e] = "ABSENT" => s = "WAITING" /\ \A d \in Entries : d < e => status[d] # "ABSENT"
  <2>1. CASE status[e] = "ABSENT" /\ s = "WAITING" /\ \A d \in 1..(e - 1) : status[d] # "ABSENT"
    <3>1. \A d \in Entries : d < e => d \in 1..(e - 1)
      BY EntriesAreNat
    <3>2. QED
      BY <2>1, <3>1 DEF Statuses
  <2>2. CASE IsValidTransition(status[e], s)
    BY <2>2, ValidMoves
  <2>3. QED
    BY <2>1, <2>2
<1>3. Onwards(status, status')
  BY <1>1, <1>2 DEF Onwards, Statuses
<1>4. status' \in [Entries -> Statuses \cup {"ABSENT"}]
  BY <1>1, <1>2
<1>5. MyRowMoves
  <2>1. CASE Me # e
    BY <1>1, <2>1, RowStays, EntriesAreNat
  <2>2. CASE Me = e
    <3> SUFFICES ASSUME status[e] # "ABSENT", NEW exact \in BOOLEAN
                 PROVE  Follows(exact, Row(Me), Row(Me)')
      BY <2>2 DEF MyRowMoves, Joined
    <3>1. Stage(s) >= Stage(status[e])
      BY <1>2, ValidMoves
    <3>2. position[e] \in Nat
      BY EntriesAreNat DEF GatewayTypeOK
    <3>3. QED
      BY <1>1, <2>2, <3>1, <3>2 DEF Follows, Row
  <2>3. QED
    BY <2>1, <2>2
<1>6. ASSUME NEW x \in Queued', status[x] # "ABSENT"
      PROVE  x \in Queued
  <2>1. x \in Entries /\ status'[x] \in {"WAITING", "CALLED"}
    BY <1>6 DEF Queued, With
  <2>2. CASE x # e
    BY <1>1, <2>1, <2>2 DEF Queued, With
  <2>3. CASE x = e
    <3>1. IsValidTransition(status[e], s)
      BY <1>2, <1>6, <2>3
    <3>2. s = "CALLED"
      BY <1>1, <2>1, <2>3, <3>1, ValidMoves
    <3>3. status[e] = "WAITING"
      BY <3>1, <3>2, ValidMoves
    <3>4. QED
      BY <2>1, <2>3, <3>3 DEF Queued, With
  <2>4. QED
    BY <2>2, <2>3
<1>7. NumbersInOrder'
  <2>1. \A d \in Entries : status'[d] = "ABSENT" => position'[d] = 0
    BY <1>1, <1>2 DEF NumbersInOrder, Joined, Statuses
  <2>2. ASSUME NEW d \in Entries, NEW f \in Entries, d < f, status'[f] # "ABSENT"
        PROVE  status'[d] # "ABSENT"
    <3>1. CASE f # e \/ status[e] # "ABSENT"
      <4>1. status[f] # "ABSENT"
        BY <1>1, <2>2, <3>1
      <4>2. status[d] # "ABSENT"
        BY <2>2, <4>1 DEF NumbersInOrder, Joined
      <4>3. QED
        BY <1>3, <4>2 DEF Onwards
    <3>2. CASE f = e /\ status[e] = "ABSENT"
      <4>1. status[d] # "ABSENT"
        BY <1>2, <2>2, <3>2
      <4>2. QED
        BY <1>3, <4>1 DEF Onwards
    <3>3. QED
      BY <3>1, <3>2
  <2>3. ASSUME NEW d \in Queued', NEW f \in Queued', Precedes(d, f), position'[f] # 0
        PROVE  position'[d] \in 1..(position'[f] - 1)
    <3>1. d \in Entries /\ f \in Entries /\ d < f
      BY <2>3 DEF Queued, With, Precedes
    <3>2. status[f] # "ABSENT"
      BY <2>3, <3>1 DEF NumbersInOrder, Joined
    <3>3. status[d] # "ABSENT"
      BY <3>1, <3>2 DEF NumbersInOrder, Joined
    <3>4. d \in Queued /\ f \in Queued
      BY <1>6, <3>2, <3>3
    <3>5. QED
      BY <2>3, <3>4 DEF NumbersInOrder
  <2>4. ASSUME NEW m \in Queued', ~Passed(m)', position'[m] # 0
        PROVE  RankIn(LineOf(m)', m) <= position'[m]
    <3>1. m \in Entries /\ LineOf(m) \subseteq Entries /\ LineOf(m)' \subseteq Entries
      BY DEF LineOf, Queued, With
    <3>2. status[m] # "ABSENT"
      BY <2>4, <3>1 DEF NumbersInOrder, Joined
    <3>3. m \in Queued
      BY <1>6, <2>4, <3>2
    <3>4. m \in LineOf(m) /\ m \in LineOf(m)'
      BY <2>4, <3>1, <3>3 DEF LineOf, RowsOf
    <3>5. ASSUME NEW d \in LineOf(m)', d = m \/ Ahead(d, m)
          PROVE  d \in LineOf(m)
      <4>1. d \in Entries /\ d \in Queued' /\ d \in RowsOf(Barber[m]) /\ d \in Nat /\ m \in Nat
        BY <3>1, EntriesAreNat DEF LineOf
      <4>2. status[d] # "ABSENT"
        <5> SUFFICES ASSUME status[d] = "ABSENT"
                     PROVE  FALSE
          OBVIOUS
        <5>1. ~(d < m) /\ d # m
          BY <3>1, <3>2, <4>1 DEF NumbersInOrder, Joined
        <5>2. d > m /\ Priority[d] > Priority[m]
          BY <3>1, <3>5, <4>1, <5>1, GatewayAssumption DEF Ahead, GoesBefore
        <5>3. status'[d] # "ABSENT"
          BY <4>1 DEF Queued, With
        <5>4. QED
          BY <2>4, <4>1, <5>2, <5>3 DEF Passed, Joined
      <4>3. QED
        BY <1>6, <4>1, <4>2 DEF LineOf
    <3>6. RankIn(LineOf(m)', m) <= RankIn(LineOf(m), m)
      BY <3>1, <3>5, RankShrinks
    <3>7. ~Passed(m)
      BY <1>3, <2>4, <3>1, PassedLasts
    <3>8. RankIn(LineOf(m), m) <= position[m]
      BY <2>4, <3>3, <3>7 DEF NumbersInOrder, RankIn, LineOf
    <3>9. RankIn(LineOf(m), m) \in 1..LastEntry /\ RankIn(LineOf(m)', m) \in 1..LastEntry
      BY <3>1, <3>4, RankTyped
    <3>10. position[m] \in 0..LastEntry
      BY <3>1 DEF GatewayTypeOK
    <3>11. QED
      BY <3>6, <3>8, <3>9, <3>10, EntriesAreNat
  <2>5. QED
    BY <2>1, <2>2, <2>3, <2>4 DEF NumbersInOrder, Joined, RankIn, LineOf
<1>8. QED
  BY <1>2, <1>3, <1>4, <1>5, <1>7

(* recalculateQueue writes the numbers.                                    *)
LEMMA NumbersWritten ==
  ASSUME GatewayTypeOK, NumbersInOrder, status' = status, work.at # "idle",
         position' = [e \in Entries |-> IF e \in Line THEN Rank(e) ELSE position[e]]
  PROVE  /\ position' \in [Entries -> 0..LastEntry]
         /\ NumbersInOrder' /\ Onwards(status, status') /\ MyRowMoves
<1>0. \A e \in Entries : position[e] \in 0..LastEntry /\ position[e] \in Nat
  BY EntriesAreNat DEF GatewayTypeOK
<1>1. /\ Queued \subseteq Entries /\ Queued' = Queued /\ \A e \in Queued : Joined(e)
      /\ Line \subseteq Queued /\ Line \subseteq Entries /\ Overtaken' = Overtaken
      /\ \A m \in Entries : LineOf(m)' = LineOf(m) /\ LineOf(m) \subseteq Entries /\ Passed(m)' = Passed(m)
  BY DEF Queued, With, Joined, Line, LineOf, Overtaken, Passed
<1>2. \A e \in Line : position'[e] = RankIn(Line, e) /\ RankIn(Line, e) \in 1..LastEntry
  BY <1>1, RankTyped DEF Rank, RankIn
<1>3. \A e \in Entries : e \notin Line => position'[e] = position[e]
  OBVIOUS
<1>4. \A e \in Entries : position'[e] \in 0..LastEntry
  <2> SUFFICES ASSUME NEW e \in Entries
               PROVE  position'[e] \in 0..LastEntry
    OBVIOUS
  <2>1. CASE e \in Line
    <3>1. position'[e] = RankIn(Line, e) /\ RankIn(Line, e) \in 1..LastEntry
      BY <1>2, <2>1
    <3>2. QED
      BY <3>1, EntriesAreNat
  <2>2. CASE e \notin Line
    BY <1>0, <1>3, <2>2
  <2>3. QED
    BY <2>1, <2>2
<1>5. ASSUME NEW m \in Line
      PROVE  /\ LineOf(m) \subseteq Line
             /\ scope = Barber[m] \/ scope = NoBarber
             /\ scope = Barber[m] => Line = LineOf(m)
             /\ scope = NoBarber => Line = Queued
  <2>1. m \in Entries /\ (scope = Barber[m] \/ scope = NoBarber)
    BY <1>5 DEF Line, RowsOf
  <2>2. scope = Barber[m] => Line = LineOf(m)
    BY DEF Line, LineOf
  <2>3. scope = NoBarber => Line = Queued
    BY <1>1 DEF Line, RowsOf
  <2>4. QED
    BY <2>1, <2>2, <2>3 DEF LineOf
<1>9. Me \in Line /\ ~Overtaken => Line = LineOf(Me)
  <2>1. work.entry \in Entries /\ Joined(work.entry) /\ scope = Barber[work.entry]
    BY DEF GatewayTypeOK, Joined
  <2>2. scope = NoBarber /\ ~Overtaken => Barber[Me] = NoBarber
    BY <2>1 DEF Overtaken
  <2>3. QED
    BY <1>5, <2>2
<1>6. NumbersInOrder'
  <2>1. \A d \in Entries : status'[d] = "ABSENT" => position'[d] = 0
    BY <1>1, <1>3 DEF NumbersInOrder, Joined
  <2>2. \A d, f \in Entries : d < f /\ status'[f] # "ABSENT" => status'[d] # "ABSENT"
    BY DEF NumbersInOrder, Joined
  <2>3. ASSUME NEW d \in Queued', NEW f \in Queued', Precedes(d, f), position'[f] # 0
        PROVE  position'[d] \in 1..(position'[f] - 1)
    <3>1. /\ d \in Queued /\ f \in Queued /\ d \in Entries /\ f \in Entries
          /\ d < f /\ Priority[d] >= Priority[f]
          /\ Barber[d] = Barber[f] \/ (Barber[f] = NoBarber /\ Unpassed(d))
      BY <1>1, <2>3 DEF Precedes
    <3>2. CASE f \in Line
      <4>1. d \in Line
        BY <3>1, <3>2 DEF Line, RowsOf
      <4>2. Ahead(d, f)
        BY <3>1, GatewayAssumption DEF Ahead, GoesBefore
      <4>3. RankIn(Line, d) < RankIn(Line, f)
        BY <1>1, <3>2, <4>1, <4>2, RankGrows
      <4>4. /\ position'[d] = RankIn(Line, d) /\ position'[f] = RankIn(Line, f)
            /\ RankIn(Line, d) \in 1..LastEntry /\ RankIn(Line, f) \in 1..LastEntry
        BY <1>2, <3>2, <4>1
      <4>5. QED
        BY <4>3, <4>4, EntriesAreNat
    <3>3. CASE f \notin Line
      <4>1. position'[f] = position[f] /\ position[d] \in 1..(position[f] - 1)
        BY <1>3, <2>3, <3>1, <3>3 DEF NumbersInOrder
      <4>2. CASE d \notin Line
        BY <1>3, <3>1, <4>1, <4>2
      <4>3. CASE d \in Line
        <5>1. scope = Barber[d] /\ Unpassed(d)
          BY <1>5, <3>1, <3>3, <4>3 DEF LineOf, RowsOf
        <5>2. ~Passed(d)
          BY <3>1, <5>1, EntriesAreNat, GatewayAssumption DEF Unpassed, Passed
        <5>3. RankIn(LineOf(d), d) <= position[d]
          BY <3>1, <4>1, <5>2, EntriesAreNat DEF NumbersInOrder, RankIn, LineOf
        <5>4. position'[d] = RankIn(LineOf(d), d) /\ position'[d] \in 1..LastEntry
          BY <1>2, <1>5, <4>3, <5>1
        <5>5. QED
          BY <1>0, <3>1, <4>1, <5>3, <5>4, EntriesAreNat
      <4>4. QED
        BY <4>2, <4>3
    <3>4. QED
      BY <3>2, <3>3
  <2>4. ASSUME NEW m \in Queued', ~Passed(m)', position'[m] # 0
        PROVE  RankIn(LineOf(m)', m) <= position'[m]
    <3>0. m \in Queued /\ m \in Entries
      BY <1>1
    <3>1. CASE m \in Line
      <4>1. RankIn(LineOf(m), m) <= RankIn(Line, m)
        BY <1>1, <1>5, <3>0, <3>1, RankShrinks
      <4>2. QED
        BY <1>1, <1>2, <3>0, <3>1, <4>1
    <3>2. CASE m \notin Line
      <4>1. position'[m] = position[m] /\ ~Passed(m)
        BY <1>1, <1>3, <2>4, <3>0, <3>2
      <4>2. QED
        BY <1>1, <2>4, <3>0, <4>1 DEF NumbersInOrder, RankIn, LineOf
    <3>3. QED
      BY <3>1, <3>2
  <2>5. QED
    BY <2>1, <2>2, <2>3, <2>4 DEF NumbersInOrder, Joined, RankIn, LineOf
<1>7. MyRowMoves
  <2>1. CASE Me \notin Line
    BY <2>1, <1>3, RowStays, EntriesAreNat
  <2>2. CASE Me \in Line
    <3> SUFFICES ASSUME NEW exact \in BOOLEAN, exact => ~Overtaken
                 PROVE  Follows(exact, Row(Me), Row(Me)')
      BY <1>1 DEF MyRowMoves
    <3>1. position'[Me] = RankIn(Line, Me) /\ RankIn(Line, Me) \in 1..LastEntry /\ position[Me] \in Nat
      BY <1>0, <1>2, <2>2, EntriesAreNat
    <3>2. exact /\ position[Me] # 0 => RankIn(Line, Me) <= position[Me]
      BY <1>1, <1>9, <2>2 DEF NumbersInOrder, RankIn, LineOf, Overtaken
    <3>3. Stage(status[Me]) \in Nat
      BY DEF Stage
    <3>4. QED
      BY <3>1, <3>2, <3>3, EntriesAreNat DEF Follows, Row
  <2>3. QED
    BY <2>1, <2>2
<1>8. QED
  BY <1>4, <1>6, <1>7 DEF Onwards

LEMMA NothingWritten ==
  ASSUME GatewayTypeOK, NumbersInOrder, status' = status, position' = position
  PROVE  /\ status' \in [Entries -> Statuses \cup {"ABSENT"}] /\ position' \in [Entries -> 0..LastEntry]
         /\ NumbersInOrder' /\ Onwards(status, status') /\ MyRowMoves
<1>1. MyRowMoves
  BY RowStays
<1>2. Queued' = Queued /\ Overtaken' = Overtaken /\ \A e \in Entries : Passed(e)' = Passed(e)
  BY DEF Queued, With, Overtaken, Passed, Joined
<1>3. NumbersInOrder'
  <2>1. \A e \in Entries : ~Joined(e)' => position'[e] = 0
    BY DEF NumbersInOrder, Joined
  <2>2. \A d, e \in Entries : d < e /\ Joined(e)' => Joined(d)'
    BY DEF NumbersInOrder, Joined
  <2>3. \A d, e \in Queued' : Precedes(d, e) /\ position'[e] # 0 => position'[d] \in 1..(position'[e] - 1)
    BY <1>2 DEF NumbersInOrder
  <2>4. ASSUME NEW e \in Queued', ~Passed(e)', position'[e] # 0
        PROVE  Cardinality({d \in Queued' \cap RowsOf(Barber[e]) : d = e \/ Ahead(d, e)}) <= position'[e]
    <3>1. e \in Queued /\ e \in Entries /\ ~Passed(e)
      BY <1>2, <2>4 DEF Queued, With
    <3>2. QED
      BY <1>2, <2>4, <3>1 DEF NumbersInOrder
  <2>5. QED
    BY <2>1, <2>2, <2>3, <2>4 DEF NumbersInOrder
<1>4. QED
  BY <1>1, <1>3 DEF Onwards, GatewayTypeOK

\* Whatever happens, every row goes on.
LEMMA RowsGoOn ==
  ASSUME ScreensTypeOK, NumbersInOrder, [Next]_vars
  PROVE  /\ status' \in [Entries -> Statuses \cup {"ABSENT"}] /\ position' \in [Entries -> 0..LastEntry]
         /\ NumbersInOrder' /\ Onwards(status, status') /\ MyRowMoves
<1>0. GatewayTypeOK
  BY DEF ScreensTypeOK
<1> DEFINE Kept == /\ status' \in [Entries -> Statuses \cup {"ABSENT"}]
                   /\ position' \in [Entries -> 0..LastEntry]
                   /\ NumbersInOrder' /\ Onwards(status, status') /\ MyRowMoves
<1> SUFFICES Kept
  OBVIOUS
<1>1. ASSUME UNCHANGED <<status, position>>
      PROVE  Kept
  BY <1>0, <1>1, NothingWritten
<1>2. position' = position => position' \in [Entries -> 0..LastEntry]
  BY <1>0 DEF GatewayTypeOK
<1>3. ASSUME NEW e \in Entries, Join(e)
      PROVE  Kept
  <2>1. /\ status' = [status EXCEPT ![e] = "WAITING"] /\ position' = position
        /\ status[e] = "ABSENT" /\ \A d \in 1..(e - 1) : status[d] # "ABSENT"
    BY <1>3 DEF Join, Begin
  <2>2. QED
    BY <2>1, <1>0, <1>2, StatusMoves
<1>4. ASSUME NEW e \in Entries, NEW s, Update(e, s)
      PROVE  Kept
  <2>1. /\ status' = [status EXCEPT ![e] = s] /\ position' = position
        /\ IsValidTransition(status[e], s)
    BY <1>4 DEF Update, Begin
  <2>2. QED
    BY <2>1, <1>0, <1>2, StatusMoves
<1>5. ASSUME UpdateForPage
      PROVE  Kept
  <2>1. position' = position /\ click.entry \in Entries
    BY <1>0, <1>5 DEF UpdateForPage, GatewayTypeOK
  <2>2. CASE IsValidTransition(status[click.entry], click.target)
    <3>1. status' = [status EXCEPT ![click.entry] = click.target]
      BY <1>5, <2>2 DEF UpdateForPage, Begin
    <3>2. QED
      BY <2>1, <2>2, <3>1, <1>0, <1>2, StatusMoves
  <2>3. CASE ~IsValidTransition(status[click.entry], click.target)
    BY <1>1, <1>5, <2>1, <2>3 DEF UpdateForPage
  <2>4. QED
    BY <2>2, <2>3
<1>6. ASSUME Renumber
      PROVE  Kept
  <2>1. /\ status' = status /\ work.at # "idle"
        /\ position' = [e \in Entries |-> IF e \in Line THEN Rank(e) ELSE position[e]]
    BY <1>6 DEF Renumber
  <2>2. QED
    BY <2>1, <1>0, NumbersWritten DEF GatewayTypeOK
<1>7. CASE RejectEstimates \/ Claim \/ ClearKey \/ Broadcasting
  BY <1>1, <1>7 DEF RejectEstimates, Claim, ClearKey, Broadcasting, Publish
<1>8. CASE Query
  BY <1>1, <1>8 DEF Query, OpenPage, QueryRuns, Read, QueryAnswered, QueryFails, AskAgain, server
<1>9. CASE Connection
  BY <1>1, <1>9 DEF Connection, Connect, JoinEntry, JoinEntryRoom, Disconnect, Receive, server
<1>10. CASE Staff
  BY <1>1, <1>10 DEF Staff, CallNext, StartServing, SkipToken, CompleteCurrent, Click, ClickSucceeds,
                     ClickFails, ClickLost, server
<1>11. CASE UNCHANGED vars
  BY <1>1, <1>11 DEF vars, server
<1> HIDE DEF Kept
<1>12. CASE Serve(Targets[page])
  BY <1>3, <1>4, <1>5, <1>12 DEF Serve
<1>13. CASE Service
  BY <1>6, <1>7, <1>12, <1>13 DEF Service
<1>14. QED
  BY <1>8, <1>9, <1>10, <1>11, <1>13 DEF Next

-----------------------------------------------------------------------------
(* What is on its way to the page.                                         *)

LEMMA MessageParts ==
  ASSUME NEW m \in Messages
  PROVE  /\ m.type \in {"QUEUE_UPDATED", "NOW_SERVING_CHANGED", "NOTIFICATION"}
         /\ m.type = "QUEUE_UPDATED" => m.list \in Lists
         /\ m.type = "NOW_SERVING_CHANGED" => m.entry \in Entries /\ m.row \in Rows
<1>1. CASE m \in [type : {"QUEUE_UPDATED"}, list : Lists]
  BY <1>1
<1>2. CASE m \in [type : {"NOW_SERVING_CHANGED"}, entry : Entries, row : Rows]
  BY <1>2
<1>3. CASE m \in [type : {"NOTIFICATION"}, about : {"POSITION_UPDATE", "NEXT_IN_LINE", "NOW_SERVING"},
                  position : 0..LastEntry]
  BY <1>3
<1>4. QED
  BY <1>1, <1>2, <1>3 DEF Messages

LEMMA NoticeSent ==
  ASSUME GatewayTypeOK, NEW about \in {"POSITION_UPDATE", "NEXT_IN_LINE", "NOW_SERVING"}
  PROVE  /\ <<Notification(about)>> \in Seq(Messages)
         /\ \A k \in DOMAIN <<Notification(about)>> : <<Notification(about)>>[k].type = "NOTIFICATION"
<1>1. position[Me] \in 0..LastEntry
  BY EntriesAreNat DEF GatewayTypeOK
<1>2. Notification(about) \in Messages /\ Notification(about).type = "NOTIFICATION"
  BY <1>1 DEF Notification, Messages
<1>3. QED
  BY <1>2

\* A message that is sent in this step.
Fresh(m) ==
  \/ m.type = "NOTIFICATION"
  \/ Publish /\ \E k \in DOMAIN Broadcast(Published) : m = Broadcast(Published)[k]

Extended ==
  /\ inbox' \in Seq(Messages) /\ Len(inbox) <= Len(inbox')
  /\ \A i \in DOMAIN inbox : i \in DOMAIN inbox' /\ inbox'[i] = inbox[i]
  /\ \A i \in DOMAIN inbox' : i \notin DOMAIN inbox => socket = "up" /\ i > Len(inbox) /\ Fresh(inbox'[i])

LEMMA NoticeExtends ==
  ASSUME GatewayTypeOK, NEW b \in Seq(Messages), \A k \in DOMAIN b : b[k].type = "NOTIFICATION",
         Deliver(NoMessage, b)
  PROVE  Extended
<1>1. NoMessage \in Seq(Messages) /\ DOMAIN NoMessage = {} /\ inbox \in Seq(Messages)
  BY DEF NoMessage, GatewayTypeOK
<1>2. /\ inbox' \in Seq(Messages) /\ Len(inbox) <= Len(inbox')
      /\ \A i \in DOMAIN inbox : i \in DOMAIN inbox' /\ inbox'[i] = inbox[i]
      /\ \A i \in DOMAIN inbox' : i \notin DOMAIN inbox =>
           /\ socket = "up" /\ i > Len(inbox)
           /\ (\E k \in DOMAIN NoMessage : inbox'[i] = NoMessage[k]) \/ (\E k \in DOMAIN b : inbox'[i] = b[k])
  BY <1>1, Sent
<1>3. QED
  BY <1>1, <1>2 DEF Extended, Fresh

LEMMA PublishExtends ==
  ASSUME GatewayTypeOK, Publish
  PROVE  Extended
<1>1. PICK early : Deliver(Broadcast(Published),
                           IF Me \in early THEN <<Notification("POSITION_UPDATE")>> ELSE NoMessage)
  BY DEF Publish
<1> DEFINE b == IF Me \in early THEN <<Notification("POSITION_UPDATE")>> ELSE NoMessage
           a == Broadcast(Published)
<1>2. b \in Seq(Messages) /\ \A k \in DOMAIN b : b[k].type = "NOTIFICATION"
  BY NoticeSent DEF NoMessage
<1>3. a \in Seq(Messages)
  BY QueueIsList, BroadcastMessages
<1>4. inbox \in Seq(Messages) /\ Deliver(a, b)
  BY <1>1 DEF GatewayTypeOK
<1>5. \A k \in DOMAIN a : Fresh(a[k])
  BY DEF Fresh
<1> HIDE DEF a, b
<1>6. /\ inbox' \in Seq(Messages) /\ Len(inbox) <= Len(inbox')
      /\ \A i \in DOMAIN inbox : i \in DOMAIN inbox' /\ inbox'[i] = inbox[i]
      /\ \A i \in DOMAIN inbox' : i \notin DOMAIN inbox =>
           /\ socket = "up" /\ i > Len(inbox)
           /\ (\E k \in DOMAIN a : inbox'[i] = a[k]) \/ (\E k \in DOMAIN b : inbox'[i] = b[k])
  BY <1>2, <1>3, <1>4, Sent
<1>7. \A k \in DOMAIN b : Fresh(b[k])
  BY <1>2 DEF Fresh
<1>8. QED
  BY <1>5, <1>6, <1>7 DEF Extended

LEMMA Received ==
  ASSUME GatewayTypeOK, inbox # <<>>, inbox' = Tail(inbox)
  PROVE  /\ inbox' \in Seq(Messages) /\ Head(inbox) \in Messages /\ Head(inbox) = inbox[1]
         /\ 1 \in DOMAIN inbox
         /\ \A i \in DOMAIN inbox' : i + 1 \in DOMAIN inbox /\ inbox'[i] = inbox[i + 1] /\ i \in Nat /\ i # 0
<1>1. inbox \in Seq(Messages)
  BY DEF GatewayTypeOK
<1>2. /\ Head(inbox) \in Messages /\ Tail(inbox) \in Seq(Messages) /\ Len(Tail(inbox)) = Len(inbox) - 1
      /\ \A i \in 1..Len(Tail(inbox)) : Tail(inbox)[i] = inbox[i + 1]
  BY <1>1, HeadTailProperties
<1>3. Len(inbox) \in Nat /\ Len(inbox) # 0 /\ Head(inbox) = inbox[1] /\ DOMAIN inbox = 1..Len(inbox)
  BY <1>1, EmptySeq
<1>4. DOMAIN Tail(inbox) = 1..(Len(inbox) - 1)
  BY <1>2, <1>3
<1>5. QED
  BY <1>2, <1>3, <1>4

\* The three ways the inbox goes.
LEMMA InboxMoves ==
  ASSUME ScreensTypeOK, [Next]_vars
  PROVE  Extended \/ Disconnect \/ Receive
<1>0. GatewayTypeOK /\ inbox \in Seq(Messages)
  BY DEF ScreensTypeOK, GatewayTypeOK
<1>1. ASSUME UNCHANGED inbox
      PROVE  Extended
  BY <1>0, <1>1 DEF Extended
<1>2. CASE Broadcasting
  BY <1>0, <1>2, PublishExtends DEF Broadcasting
<1>3. CASE Claim
  <2> DEFINE b == CASE Me \in Heads \ notified     -> <<Notification("NEXT_IN_LINE")>>
                    [] Me \in work.moved \ Heads   -> <<Notification("POSITION_UPDATE")>>
                    [] OTHER                       -> NoMessage
  <2>1. Deliver(NoMessage, b)
    BY <1>3 DEF Claim
  <2>2. b = <<Notification("NEXT_IN_LINE")>> \/ b = <<Notification("POSITION_UPDATE")>> \/ b = <<>>
    BY DEF NoMessage
  <2> HIDE DEF b
  <2>3. b \in Seq(Messages) /\ \A k \in DOMAIN b : b[k].type = "NOTIFICATION"
    <3>1. CASE b = <<Notification("NEXT_IN_LINE")>>
      BY <1>0, <3>1, NoticeSent
    <3>2. CASE b = <<Notification("POSITION_UPDATE")>>
      BY <1>0, <3>2, NoticeSent
    <3>3. CASE b = <<>>
      BY <3>3
    <3>4. QED
      BY <2>2, <3>1, <3>2, <3>3
  <2>4. QED
    BY <1>0, <2>1, <2>3, NoticeExtends
<1>4. CASE ClearKey
  <2> DEFINE b == IF work.target = "CALLED" /\ work.entry = Me THEN <<Notification("NOW_SERVING")>>
                  ELSE NoMessage
  <2>1. Deliver(NoMessage, b)
    BY <1>4 DEF ClearKey
  <2>2. b \in Seq(Messages) /\ \A k \in DOMAIN b : b[k].type = "NOTIFICATION"
    BY <1>0, NoticeSent DEF NoMessage
  <2> HIDE DEF b
  <2>3. QED
    BY <1>0, <2>1, <2>2, NoticeExtends
<1>5. CASE Service
  BY <1>1, <1>2, <1>3, <1>4, <1>5 DEF Service, Serve, Join, Update, UpdateForPage, Renumber, RejectEstimates
<1>6. CASE Query
  BY <1>1, <1>6 DEF Query, OpenPage, QueryRuns, Read, QueryAnswered, QueryFails, AskAgain
<1>7. CASE Connect \/ JoinEntry
  BY <1>1, <1>7 DEF Connect, JoinEntry, JoinEntryRoom
<1>8. CASE Staff
  BY <1>1, <1>8 DEF Staff, CallNext, StartServing, SkipToken, CompleteCurrent, Click, ClickSucceeds,
                    ClickFails, ClickLost
<1>9. CASE UNCHANGED vars
  BY <1>1, <1>9 DEF vars, network
<1>10. QED
  BY <1>5, <1>6, <1>7, <1>8, <1>9 DEF Next, Connection

-----------------------------------------------------------------------------
(* Types.                                                                  *)

LEMMA AnswerTyped ==
  ASSUME GatewayTypeOK, NEW next \in {"idle", "clear"}, Answer(next)
  PROVE  /\ work' \in [at : {"idle", "recalculate", "publish", "claim", "clear"}, entry : 0..LastEntry,
                       target : Statuses, moved : SUBSET Entries]
         /\ click' \in [at : {"none", "sent", "served", "done", "failed"}, entry : 0..LastEntry,
                        target : Statuses, position : 0..LastEntry]
         /\ click'.at # "none" => click'.entry \in Entries
         /\ click' = click \/ (click.at = "served" /\ click' = [click EXCEPT !.at = "done"])
<1>1. Idle \in [at : {"idle", "recalculate", "publish", "claim", "clear"}, entry : 0..LastEntry,
                target : Statuses, moved : SUBSET Entries]
  BY EntriesAreNat DEF Idle, Statuses
<1>2. work' = Idle \/ work' = [work EXCEPT !.at = next, !.moved = {}]
  BY DEF Answer
<1>3. click' = click \/ (click.at = "served" /\ click' = [click EXCEPT !.at = "done"])
  BY DEF Answer
<1>4. /\ click \in [at : {"none", "sent", "served", "done", "failed"}, entry : 0..LastEntry,
                    target : Statuses, position : 0..LastEntry]
      /\ click.at # "none" => click.entry \in Entries
      /\ work \in [at : {"idle", "recalculate", "publish", "claim", "clear"}, entry : 0..LastEntry,
                   target : Statuses, moved : SUBSET Entries]
  BY DEF GatewayTypeOK
<1>5. /\ click' \in [at : {"none", "sent", "served", "done", "failed"}, entry : 0..LastEntry,
                     target : Statuses, position : 0..LastEntry]
      /\ click'.at # "none" => click'.entry \in Entries
  BY <1>3, <1>4
<1>6. work' \in [at : {"idle", "recalculate", "publish", "claim", "clear"}, entry : 0..LastEntry,
                 target : Statuses, moved : SUBSET Entries]
  BY <1>1, <1>2, <1>4
<1>7. QED
  BY <1>3, <1>5, <1>6

LEMMA BeginTyped ==
  ASSUME NEW e \in Entries, NEW s \in Statuses, Begin(e, s), GatewayTypeOK
  PROVE  /\ work' \in [at : {"idle", "recalculate", "publish", "claim", "clear"}, entry : 0..LastEntry,
                       target : Statuses, moved : SUBSET Entries]
         /\ announced' \in BOOLEAN /\ since' \in {"read", "written", "broadcast"}
         /\ status' = [status EXCEPT ![e] = s]
<1>1. e \in 0..LastEntry
  BY EntriesAreNat
<1>2. work' = [at |-> "recalculate", entry |-> e, target |-> s, moved |-> {}]
  BY DEF Begin, Idle
<1>3. since \in {"read", "written", "broadcast"}
  BY DEF GatewayTypeOK
<1>4. announced' \in BOOLEAN /\ since' \in {"read", "written", "broadcast"}
  BY <1>3 DEF Begin, Touched
<1>5. QED
  BY <1>1, <1>2, <1>4 DEF Begin

LEMMA HeroTyped ==
  ASSUME NEW list \in Lists
  PROVE  /\ DisplayHero(list) \in 0..LastEntry /\ ServingHero(list) \in 0..LastEntry
         /\ HeroOf(list) \in 0..LastEntry
         /\ ServingHero(list) # 0 => ServingHero(list) \in Entries
<1>1. DOMAIN list \subseteq Entries /\ Serving(list) \subseteq DOMAIN list
  BY ListRows DEF Serving
<1>2. Entries \subseteq 0..LastEntry /\ 0 \in 0..LastEntry
  BY EntriesAreNat
<1>3. Serving(list) # {} => First(list, Serving(list)) \in Entries /\ Foremost(Serving(list)) \in Entries
  BY <1>1, FirstOfList, ForemostOne
<1>4. DOMAIN list # {} => First(list, DOMAIN list) \in Entries
  BY <1>1, FirstOfList
<1>5. DisplayHero(list) \in 0..LastEntry
  BY <1>2, <1>3, <1>4 DEF DisplayHero
<1>6. ServingHero(list) \in 0..LastEntry /\ (ServingHero(list) # 0 => ServingHero(list) \in Entries)
  BY <1>2, <1>3 DEF ServingHero
<1>7. QED
  BY <1>5, <1>6 DEF HeroOf

\* One row of a list is replaced.
LEMMA RowReplaced ==
  ASSUME NEW list \in Lists, NEW e, NEW row \in Rows
  PROVE  /\ [list EXCEPT ![e] = row] \in Lists
         /\ DOMAIN [list EXCEPT ![e] = row] = DOMAIN list
         /\ \A d \in DOMAIN list : [list EXCEPT ![e] = row][d] = IF d = e THEN row ELSE list[d]
<1>1. PICK S \in SUBSET Entries : list \in [S -> Rows]
  BY DEF Lists
<1>2. [list EXCEPT ![e] = row] \in [S -> Rows]
  BY <1>1
<1>3. QED
  BY <1>1, <1>2, IsList

LEMMA OwnRow ==
  ASSUME NEW row \in Rows
  PROVE  /\ [e \in {Me} |-> row] \in Lists /\ Me \in DOMAIN [e \in {Me} |-> row]
         /\ [e \in {Me} |-> row][Me] = row
<1>1. {Me} \in SUBSET Entries /\ [e \in {Me} |-> row] \in [{Me} -> Rows]
  BY EntriesAreNat
<1>2. QED
  BY <1>1, IsList

\* What a message makes of the screen.
LEMMA MessageShown ==
  ASSUME ScreensTypeOK, Receive
  PROVE  shown' \in Lists /\ hero' \in 0..LastEntry
<1>1. Head(inbox) \in Messages /\ shown \in Lists /\ hero \in 0..LastEntry
  BY Received DEF ScreensTypeOK, Receive
<1> DEFINE m == Head(inbox)
<1>2. Entries \subseteq 0..LastEntry
  BY EntriesAreNat
<1>3. CASE m.type = "QUEUE_UPDATED"
  <2>1. m.list \in Lists /\ ApplyList(m)
    BY <1>1, <1>3, MessageParts DEF Receive
  <2> HIDE DEF m
  <2>2. CASE page = "tracker"
    <3>1. /\ hero' = ServingHero(m.list)
          /\ shown' = IF Me \in DOMAIN m.list THEN [e \in {Me} |-> m.list[Me]] ELSE shown
      BY <2>1, <2>2 DEF ApplyList
    <3>2. Me \in DOMAIN m.list => m.list[Me] \in Rows
      BY <2>1, ListRows
    <3>3. hero' \in 0..LastEntry
      BY <2>1, <3>1, HeroTyped
    <3>4. shown' \in Lists
      BY <1>1, <3>1, <3>2, OwnRow
    <3>5. QED
      BY <3>3, <3>4
  <2>3. CASE page # "tracker"
    BY <2>1, <2>3, HeroTyped DEF ApplyList, ShowRows
  <2>4. QED
    BY <2>2, <2>3
<1>4. CASE m.type = "NOW_SERVING_CHANGED"
  <2>1. m.entry \in Entries /\ m.row \in Rows /\ ApplyNowServing(m)
    BY <1>1, <1>4, MessageParts DEF Receive
  <2> HIDE DEF m
  <2>2. [shown EXCEPT ![m.entry] = m.row] \in Lists
    BY <1>1, <2>1, RowReplaced
  <2>3. QED
    BY <1>1, <1>2, <2>1, <2>2 DEF ApplyNowServing
<1>5. CASE m.type \notin {"QUEUE_UPDATED", "NOW_SERVING_CHANGED"}
  BY <1>1, <1>5 DEF Receive, ApplyNotification
<1>6. QED
  BY <1>3, <1>4, <1>5

LEMMA PatchedTyped ==
  ASSUME ScreensTypeOK, NEW list \in Lists
  PROVE  Patched(list) \in Lists
<1>1. [status |-> click.target, position |-> click.position] \in Rows
  BY DEF ScreensTypeOK, GatewayTypeOK, Rows
<1>2. QED
  BY <1>1, RowReplaced DEF Patched

\* The requests and the mutation of the page.
RequestsTyped ==
  /\ work \in [at : {"idle", "recalculate", "publish", "claim", "clear"}, entry : 0..LastEntry,
               target : Statuses, moved : SUBSET Entries]
  /\ click \in [at : {"none", "sent", "served", "done", "failed"}, entry : 0..LastEntry,
                target : Statuses, position : 0..LastEntry]
  /\ click.at # "none" => click.entry \in Entries

LEMMA ClickTyped ==
  ASSUME ScreensTypeOK, NEW e \in 0..LastEntry, NEW s \in Statuses, Click(e, s)
  PROVE  RequestsTyped'
<1>1. e \in Entries
  BY EntriesAreNat DEF Click, Entries
<1> DEFINE p == IF e \in DOMAIN shown THEN shown[e].position ELSE 0
<1>2. p \in 0..LastEntry
  <2>1. shown \in Lists
    BY DEF ScreensTypeOK
  <2>2. e \in DOMAIN shown => shown[e] \in Rows
    BY <2>1, ListRows
  <2>3. 0 \in 0..LastEntry
    BY EntriesAreNat
  <2>4. QED
    BY <2>2, <2>3 DEF Rows
<1>3. click' = [at |-> "sent", entry |-> e, target |-> s, position |-> p]
  BY DEF Click
<1> HIDE DEF p
<1>4. work' = work
  BY DEF Click, server
<1>5. work' \in [at : {"idle", "recalculate", "publish", "claim", "clear"}, entry : 0..LastEntry,
                 target : Statuses, moved : SUBSET Entries]
  BY <1>4 DEF ScreensTypeOK, GatewayTypeOK
<1>6. QED
  BY <1>1, <1>2, <1>3, <1>5 DEF RequestsTyped

LEMMA NextWaitingTyped ==
  ASSUME shown \in Lists
  PROVE  /\ NextWaiting \in 0..LastEntry
         /\ NextWaiting # 0 =>
              /\ NextWaiting \in DOMAIN shown /\ NextWaiting \in Entries /\ shown[NextWaiting].status = "WAITING"
              /\ \A d \in DOMAIN shown : shown[d].status = "WAITING" =>
                   shown[NextWaiting].position <= shown[d].position
<1> DEFINE W == {e \in DOMAIN shown : shown[e].status = "WAITING"}
<1>1. CASE W = {}
  BY <1>1, EntriesAreNat DEF NextWaiting
<1>2. CASE W # {}
  <2>1. NextWaiting = First(shown, W)
    BY <1>2 DEF NextWaiting
  <2>2. /\ First(shown, W) \in W
        /\ \A d \in W : d # First(shown, W) =>
             \/ shown[First(shown, W)].position < shown[d].position
             \/ shown[First(shown, W)].position = shown[d].position /\ Ahead(First(shown, W), d)
    BY <1>2, FirstOfList
  <2>3. \A d \in DOMAIN shown : d \in Entries /\ shown[d].position \in Nat
    BY ListRows
  <2>4. NextWaiting \in W
    BY <2>1, <2>2
  <2>5. ASSUME NEW d \in W
        PROVE  shown[NextWaiting].position <= shown[d].position
    <3>1. shown[NextWaiting].position \in Nat /\ shown[d].position \in Nat
      BY <2>3, <2>4
    <3>2. d # NextWaiting =>
            \/ shown[NextWaiting].position < shown[d].position
            \/ shown[NextWaiting].position = shown[d].position
      BY <2>1, <2>2
    <3>3. QED
      BY <3>1, <3>2
  <2>6. NextWaiting \in DOMAIN shown /\ NextWaiting \in Entries /\ shown[NextWaiting].status = "WAITING"
    BY <2>3, <2>4
  <2>7. NextWaiting \in 0..LastEntry
    BY <2>6, EntriesAreNat
  <2>8. QED
    BY <2>5, <2>6, <2>7
<1>3. QED
  BY <1>1, <1>2

LEMMA RequestsStayTyped ==
  ASSUME ScreensTypeOK, [Next]_vars
  PROVE  RequestsTyped'
<1>0. GatewayTypeOK /\ RequestsTyped
  BY DEF ScreensTypeOK, GatewayTypeOK, RequestsTyped
<1>1. ASSUME UNCHANGED <<work, click>>
      PROVE  RequestsTyped'
  BY <1>0, <1>1 DEF RequestsTyped
<1>2. ASSUME NEW e \in Entries, Join(e)
      PROVE  RequestsTyped'
  <2>1. Begin(e, "WAITING") /\ click' = click /\ "WAITING" \in Statuses
    BY <1>2 DEF Join, Statuses
  <2>2. QED
    BY <1>0, <2>1, BeginTyped DEF RequestsTyped
<1>3. ASSUME NEW e \in Entries, NEW s, Update(e, s)
      PROVE  RequestsTyped'
  <2>1. Begin(e, s) /\ click' = click /\ s \in Statuses
    BY <1>3, ValidMoves DEF Update
  <2>2. QED
    BY <1>0, <2>1, BeginTyped DEF RequestsTyped
<1>4. CASE UpdateForPage
  <2>1. click.entry \in Entries /\ click.at = "sent" /\ click.target \in Statuses
    BY <1>0, <1>4 DEF UpdateForPage, RequestsTyped
  <2>2. CASE IsValidTransition(status[click.entry], click.target)
    <3>1. /\ Begin(click.entry, click.target)
          /\ click' = [click EXCEPT !.at = "served", !.position = position[click.entry]]
      BY <1>4, <2>2 DEF UpdateForPage
    <3>2. position[click.entry] \in 0..LastEntry
      BY <1>0, <2>1 DEF GatewayTypeOK
    <3>3. /\ click' \in [at : {"none", "sent", "served", "done", "failed"}, entry : 0..LastEntry,
                         target : Statuses, position : 0..LastEntry]
          /\ click'.entry = click.entry
      BY <1>0, <3>1, <3>2 DEF RequestsTyped
    <3>4. work' \in [at : {"idle", "recalculate", "publish", "claim", "clear"}, entry : 0..LastEntry,
                     target : Statuses, moved : SUBSET Entries]
      BY <1>0, <2>1, <3>1, BeginTyped
    <3>5. QED
      BY <2>1, <3>3, <3>4 DEF RequestsTyped
  <2>3. CASE ~IsValidTransition(status[click.entry], click.target)
    BY <1>0, <1>4, <2>1, <2>3 DEF UpdateForPage, RequestsTyped
  <2>4. QED
    BY <2>2, <2>3
<1>5. CASE Renumber
  <2>1. /\ work' = [work EXCEPT !.at = "publish", !.moved = {e \in Line : position[e] \notin {0, Rank(e)}}]
        /\ click' = click
    BY <1>5 DEF Renumber
  <2> DEFINE S == {e \in Line : position[e] \notin {0, Rank(e)}}
  <2>2. S \subseteq Entries
    BY DEF Line, Queued, With
  <2> HIDE DEF S
  <2>3. work' = [work EXCEPT !.at = "publish", !.moved = S]
    BY <2>1 DEF S
  <2>4. QED
    BY <1>0, <2>1, <2>2, <2>3 DEF RequestsTyped
<1>6. CASE RejectEstimates
  <2>1. work' = Idle /\ Idle = [at |-> "idle", entry |-> 0, target |-> "WAITING", moved |-> {}]
    BY <1>6 DEF RejectEstimates, Idle
  <2>2. 0 \in 0..LastEntry /\ "WAITING" \in Statuses
    BY EntriesAreNat DEF Statuses
  <2>3. click' = click \/ (click.at = "served" /\ click' = [click EXCEPT !.at = "failed"])
    BY <1>6 DEF RejectEstimates
  <2>4. QED
    BY <1>0, <2>1, <2>2, <2>3 DEF RequestsTyped
<1>7. AfterNotices \in {"idle", "clear"}
  BY DEF AfterNotices
<1>8. CASE Publish
  <2>1. PICK early : IF Heads = {} THEN Answer(AfterNotices)
                     ELSE /\ work' = [work EXCEPT !.at = "claim", !.moved = Heads \cup (work.moved \ early)]
                          /\ UNCHANGED click
    BY <1>8 DEF Publish
  <2>2. CASE Heads = {}
    BY <1>0, <1>7, <2>1, <2>2, AnswerTyped DEF RequestsTyped
  <2>3. CASE Heads # {}
    <3> DEFINE S == Heads \cup (work.moved \ early)
    <3>1. S \subseteq Entries
      BY <1>0 DEF Heads, RequestsTyped
    <3>2. work' = [work EXCEPT !.at = "claim", !.moved = S] /\ click' = click
      BY <2>1, <2>3
    <3> HIDE DEF S
    <3>3. QED
      BY <1>0, <3>1, <3>2 DEF RequestsTyped
  <2>4. QED
    BY <2>2, <2>3
<1>9. CASE Claim
  BY <1>0, <1>7, <1>9, AnswerTyped DEF Claim, RequestsTyped
<1>10. CASE ClearKey
  BY <1>0, <1>10, AnswerTyped DEF ClearKey, RequestsTyped
<1>11. CASE Serve(Targets[page])
  BY <1>2, <1>3, <1>4, <1>11 DEF Serve
<1>12. CASE Service
  BY <1>5, <1>6, <1>8, <1>9, <1>10, <1>11, <1>12 DEF Service, Broadcasting
<1>13. CASE Query
  BY <1>1, <1>13 DEF Query, OpenPage, QueryRuns, Read, QueryAnswered, QueryFails, AskAgain, server
<1>14. CASE Connection
  BY <1>1, <1>14 DEF Connection, Connect, JoinEntry, JoinEntryRoom, Disconnect, Receive, server
<1>15. CASE CallNext \/ (\E e \in Entries : StartServing(e) \/ SkipToken(e)) \/ CompleteCurrent
  <2>1. {"CALLED", "SERVING", "SERVED", "NO_SHOW"} \subseteq Statuses
    BY DEF Statuses
  <2>2. CASE CallNext
    BY <2>1, <2>2, NextWaitingTyped, ClickTyped DEF CallNext, ScreensTypeOK
  <2>3. CASE \E e \in Entries : StartServing(e) \/ SkipToken(e)
    <3>1. Entries \subseteq 0..LastEntry
      BY EntriesAreNat
    <3>2. QED
      BY <2>1, <2>3, <3>1, ClickTyped DEF StartServing, SkipToken
  <2>4. CASE CompleteCurrent
    BY <2>1, <2>4, ClickTyped DEF CompleteCurrent, ScreensTypeOK
  <2>5. QED
    BY <1>15, <2>2, <2>3, <2>4
<1>16. CASE ClickSucceeds \/ ClickFails \/ ClickLost
  <2>1. click' = NoClick /\ work' = work
    BY <1>16 DEF ClickSucceeds, ClickFails, ClickLost, server
  <2>2. 0 \in 0..LastEntry /\ "WAITING" \in Statuses
    BY EntriesAreNat DEF Statuses
  <2>3. QED
    BY <1>0, <2>1, <2>2 DEF RequestsTyped, NoClick
<1>17. CASE UNCHANGED vars
  BY <1>1, <1>17 DEF vars, server, network
<1>18. QED
  BY <1>12, <1>13, <1>14, <1>15, <1>16, <1>17 DEF Next, Staff

LEMMA ServerStaysTyped ==
  ASSUME ScreensTypeOK, [Next]_vars
  PROVE  /\ notified' \subseteq Entries
         /\ announced' \in BOOLEAN
         /\ since' \in {"read", "written", "broadcast"}
<1>0. notified \subseteq Entries /\ announced \in BOOLEAN /\ since \in {"read", "written", "broadcast"}
  BY DEF ScreensTypeOK, GatewayTypeOK
<1> DEFINE Kept == notified' \subseteq Entries /\ announced' \in BOOLEAN
                   /\ since' \in {"read", "written", "broadcast"}
<1> SUFFICES Kept
  OBVIOUS
<1>1. CASE Serve(Targets[page])
  <2>1. \A e, s : Begin(e, s) => announced' = FALSE /\ Touched
    BY DEF Begin
  <2>2. notified' = notified /\ ((announced' = FALSE /\ Touched) \/ UNCHANGED <<announced, since>>)
    BY <1>1, <2>1 DEF Serve, Join, Update, UpdateForPage
  <2>3. QED
    BY <1>0, <2>2 DEF Touched
<1>2. CASE Renumber \/ RejectEstimates
  BY <1>0, <1>2 DEF Renumber, RejectEstimates, Touched
<1>3. CASE Claim \/ ClearKey \/ Broadcasting
  <2>1. Heads \subseteq Entries
    BY DEF Heads, ScreensTypeOK, GatewayTypeOK
  <2>2. QED
    BY <1>0, <1>3, <2>1 DEF Claim, ClearKey, Broadcasting, Publish
<1>4. CASE Query
  BY <1>0, <1>4 DEF Query, OpenPage, QueryRuns, Read, QueryAnswered, QueryFails, AskAgain, server
<1>5. CASE Connection
  BY <1>0, <1>5 DEF Connection, Connect, JoinEntry, JoinEntryRoom, Disconnect, Receive, server
<1>6. CASE Staff
  BY <1>0, <1>6 DEF Staff, CallNext, StartServing, SkipToken, CompleteCurrent, Click, ClickSucceeds,
                    ClickFails, ClickLost, server
<1>7. CASE UNCHANGED vars
  BY <1>0, <1>7 DEF vars, server, network
<1>8. QED
  BY <1>1, <1>2, <1>3, <1>4, <1>5, <1>6, <1>7 DEF Next, Service

LEMMA PageStaysTyped ==
  ASSUME ScreensTypeOK, [Next]_vars
  PROVE  /\ socket' \in {"none", "connecting", "up"} /\ inRoom' \in BOOLEAN
         /\ page' = page /\ opened' \in BOOLEAN /\ loaded' \in BOOLEAN
<1>0. /\ socket \in {"none", "connecting", "up"} /\ inRoom \in BOOLEAN
      /\ opened \in BOOLEAN /\ loaded \in BOOLEAN
  BY DEF ScreensTypeOK, GatewayTypeOK
<1>1. CASE Service
  BY <1>0, <1>1 DEF Service, Serve, Join, Update, UpdateForPage, Renumber, RejectEstimates, Claim, ClearKey,
                    Broadcasting, Publish, screen
<1>2. CASE Query
  BY <1>0, <1>2 DEF Query, OpenPage, QueryRuns, Read, QueryAnswered, QueryFails, AskAgain, server, screen
<1>3. CASE Connection
  BY <1>0, <1>3 DEF Connection, Connect, JoinEntry, JoinEntryRoom, Disconnect, Receive, server, screen
<1>4. CASE Staff
  BY <1>0, <1>4 DEF Staff, CallNext, StartServing, SkipToken, CompleteCurrent, Click, ClickSucceeds,
                    ClickFails, ClickLost, server, screen
<1>5. CASE UNCHANGED vars
  BY <1>0, <1>5 DEF vars, network, screen
<1>6. QED
  BY <1>1, <1>2, <1>3, <1>4, <1>5 DEF Next

\* The lists the page has.
LEMMA ListsStayTyped ==
  ASSUME ScreensTypeOK, [Next]_vars
  PROVE  /\ fetch' \in [at : {"none", "asked", "read"}, list : Lists]
         /\ shown' \in Lists /\ cache' \in Lists /\ hero' \in 0..LastEntry
<1>0. /\ GatewayTypeOK
      /\ fetch \in [at : {"none", "asked", "read"}, list : Lists]
      /\ shown \in Lists /\ cache \in Lists /\ hero \in 0..LastEntry
  BY DEF ScreensTypeOK, GatewayTypeOK
<1> DEFINE Kept == /\ fetch' \in [at : {"none", "asked", "read"}, list : Lists]
                   /\ shown' \in Lists /\ cache' \in Lists /\ hero' \in 0..LastEntry
<1> SUFFICES Kept
  OBVIOUS
<1>1. ASSUME UNCHANGED <<fetch, shown, cache, hero>>
      PROVE  Kept
  BY <1>0, <1>1
<1>2. NoFetch \in [at : {"none", "asked", "read"}, list : Lists]
  BY <1>0, QueueIsList DEF NoFetch
<1>3. CASE Service
  BY <1>1, <1>3 DEF Service, Serve, Join, Update, UpdateForPage, Renumber, RejectEstimates, Claim, ClearKey,
                    Broadcasting, Publish, screen
<1>4. CASE OpenPage \/ AskAgain
  BY <1>0, <1>4 DEF OpenPage, AskAgain, Ask, screen
<1>5. CASE QueryRuns /\ UNCHANGED <<page, screen>>
  <2> DEFINE l == IF page = "tracker" THEN [e \in {Me} |-> Row(e)] ELSE ActiveQueue
  <2>1. fetch' = [at |-> "read", list |-> l] /\ UNCHANGED <<shown, cache, hero>>
    BY <1>5 DEF QueryRuns, Read, screen
  <2>2. l \in Lists
    <3>1. CASE page = "tracker"
      <4>1. Row(Me) \in Rows
        BY <1>0, <1>5, <3>1, EntriesAreNat, QueueIsList DEF QueryRuns, Read, ScreensTypeOK, Joined
      <4>2. QED
        BY <3>1, <4>1, OwnRow
    <3>2. QED
      BY <1>0, <3>1, QueueIsList
  <2> HIDE DEF l
  <2>3. QED
    BY <1>0, <2>1, <2>2
<1>6. CASE QueryAnswered
  <2>1. fetch.list \in Lists /\ fetch' = NoFetch
    BY <1>0, <1>6 DEF QueryAnswered
  <2>2. shown' \in Lists /\ cache' \in Lists /\ hero' \in 0..LastEntry
    BY <1>0, <1>6, <2>1, HeroTyped DEF QueryAnswered, ShowRows
  <2>3. QED
    BY <1>2, <2>1, <2>2
<1>7. CASE QueryFails
  BY <1>0, <1>2, <1>7 DEF QueryFails
<1>8. CASE Connect \/ JoinEntry \/ Disconnect
  BY <1>1, <1>8 DEF Connect, JoinEntry, JoinEntryRoom, Disconnect, screen
<1>9. CASE Receive
  BY <1>0, <1>9, MessageShown DEF Receive
<1>10. CASE ClickSucceeds
  <2>1. cache' = Patched(cache) /\ Patched(cache) \in Lists /\ fetch' = fetch
    BY <1>0, <1>10, PatchedTyped DEF ClickSucceeds
  <2>2. UNCHANGED <<shown, hero>> \/ (shown' = cache' /\ hero' = HeroOf(cache'))
    BY <1>10 DEF ClickSucceeds, ShowRows
  <2>3. shown' \in Lists /\ hero' \in 0..LastEntry
    BY <1>0, <2>1, <2>2, HeroTyped
  <2>4. QED
    BY <1>0, <2>1, <2>3
<1>11. CASE CallNext \/ (\E e \in Entries : StartServing(e) \/ SkipToken(e)) \/ CompleteCurrent
            \/ ClickFails \/ ClickLost
  BY <1>1, <1>11 DEF CallNext, StartServing, SkipToken, CompleteCurrent, Click, ClickFails, ClickLost, screen
<1>12. CASE UNCHANGED vars
  BY <1>1, <1>12 DEF vars, network, screen
<1> HIDE DEF Kept
<1>13. QED
  BY <1>3, <1>4, <1>5, <1>6, <1>7, <1>8, <1>9, <1>10, <1>11, <1>12 DEF Next, Query, Connection, Staff

\* The request that is worked on is about a customer who joined, and numbers
\* those of the same barber.
RequestKnown ==
  work.at # "idle" => work.entry \in Entries /\ status[work.entry] # "ABSENT" /\ scope = Barber[work.entry]

LEMMA RequestStaysKnown ==
  ASSUME ScreensTypeOK, NumbersInOrder, [Next]_vars
  PROVE  RequestKnown'
<1>0. /\ RequestKnown /\ Onwards(status, status')
      /\ status \in [Entries -> Statuses \cup {"ABSENT"}]
      /\ work \in [at : {"idle", "recalculate", "publish", "claim", "clear"}, entry : 0..LastEntry,
                   target : Statuses, moved : SUBSET Entries]
  BY RowsGoOn DEF ScreensTypeOK, GatewayTypeOK, RequestKnown
<1>1. ASSUME work'.at # "idle" => work.at # "idle" /\ work'.entry = work.entry, scope' = scope
      PROVE  RequestKnown'
  BY <1>0, <1>1 DEF RequestKnown, Onwards
<1>2. ASSUME NEW e \in Entries, NEW s \in Statuses, Begin(e, s)
      PROVE  RequestKnown'
  <2>1. work'.entry = e /\ status'[e] = s /\ s # "ABSENT" /\ scope' = Barber[e]
    BY <1>0, <1>2 DEF Begin, Idle, Statuses
  <2>2. QED
    BY <2>1 DEF RequestKnown
<1>3. CASE Serve(Targets[page])
  <2>1. CASE \E e \in Entries : Join(e)
    BY <1>2, <2>1 DEF Join, Statuses
  <2>2. CASE \E e \in Entries, s \in Targets[page] : Update(e, s)
    <3>1. PICK e \in Entries, s \in Targets[page] : Update(e, s)
      BY <2>2
    <3>2. s \in Statuses /\ Begin(e, s)
      BY <3>1, ValidMoves DEF Update
    <3>3. QED
      BY <1>2, <3>2
  <2>3. CASE UpdateForPage
    <3>1. click.entry \in Entries /\ click.target \in Statuses
      BY <2>3 DEF UpdateForPage, ScreensTypeOK, GatewayTypeOK
    <3>2. Begin(click.entry, click.target) \/ UNCHANGED <<work, scope>>
      BY <2>3 DEF UpdateForPage
    <3>3. QED
      BY <1>1, <1>2, <3>1, <3>2
  <2>4. QED
    BY <1>3, <2>1, <2>2, <2>3 DEF Serve
<1>4. ASSUME NEW next, Answer(next), work.at # "idle", scope' = scope
      PROVE  RequestKnown'
  <2>1. work'.at # "idle" => work'.entry = work.entry
    BY <1>0, <1>4 DEF Answer, Idle
  <2>2. QED
    BY <1>1, <1>4, <2>1
<1>5. CASE Renumber \/ RejectEstimates
  <2>1. /\ work.at # "idle" /\ scope' = scope
        /\ work' = Idle \/ \E M : work' = [work EXCEPT !.at = "publish", !.moved = M]
    <3>1. CASE Renumber
      <4>1. PICK M : M = {e \in Line : position[e] \notin {0, Rank(e)}}
        OBVIOUS
      <4>2. work' = [work EXCEPT !.at = "publish", !.moved = M]
        BY <3>1, <4>1 DEF Renumber
      <4>3. QED
        BY <3>1, <4>2 DEF Renumber
    <3>2. CASE RejectEstimates
      BY <3>2 DEF RejectEstimates
    <3>3. QED
      BY <1>5, <3>1, <3>2
  <2>2. work' = Idle => work'.at = "idle"
    BY DEF Idle
  <2>3. ASSUME NEW M, work' = [work EXCEPT !.at = "publish", !.moved = M]
        PROVE  work'.entry = work.entry
    BY <1>0, <2>3
  <2>4. QED
    BY <1>1, <2>1, <2>2, <2>3
<1>6. CASE Publish
  <2>1. /\ work.at = "publish" /\ scope' = scope
        /\ \/ Answer(AfterNotices)
           \/ \E M : work' = [work EXCEPT !.at = "claim", !.moved = M]
    <3>1. PICK early : IF Heads = {} THEN Answer(AfterNotices)
                       ELSE work' = [work EXCEPT !.at = "claim", !.moved = Heads \cup (work.moved \ early)]
      BY <1>6 DEF Publish
    <3>2. work.at = "publish" /\ scope' = scope
      BY <1>6 DEF Publish
    <3>3. QED
      BY <3>1, <3>2
  <2>2. CASE Answer(AfterNotices)
    BY <1>4, <2>1, <2>2
  <2>3. CASE ~Answer(AfterNotices)
    <3>1. work'.entry = work.entry
      BY <1>0, <2>1, <2>3
    <3>2. QED
      BY <1>1, <2>1, <3>1
  <2>4. QED
    BY <2>2, <2>3
<1>7. CASE Claim \/ ClearKey
  BY <1>4, <1>7 DEF Claim, ClearKey
<1>8. CASE Service
  BY <1>3, <1>5, <1>6, <1>7, <1>8 DEF Service, Broadcasting
<1>9. CASE Query
  BY <1>1, <1>9 DEF Query, OpenPage, QueryRuns, Read, QueryAnswered, QueryFails, AskAgain, server
<1>10. CASE Connection
  BY <1>1, <1>10 DEF Connection, Connect, JoinEntry, JoinEntryRoom, Disconnect, Receive, server
<1>11. CASE Staff
  BY <1>1, <1>11 DEF Staff, CallNext, StartServing, SkipToken, CompleteCurrent, Click, ClickSucceeds,
                     ClickFails, ClickLost, server
<1>12. CASE UNCHANGED vars
  BY <1>1, <1>12 DEF vars, server
<1>13. QED
  BY <1>8, <1>9, <1>10, <1>11, <1>12 DEF Next

LEMMA TypesStay ==
  ASSUME ScreensTypeOK, NumbersInOrder, [Next]_vars
  PROVE  ScreensTypeOK'
<1>1. /\ status' \in [Entries -> Statuses \cup {"ABSENT"}] /\ position' \in [Entries -> 0..LastEntry]
      /\ Onwards(status, status')
  BY RowsGoOn
<1>2. inbox' \in Seq(Messages)
  <2>1. CASE Extended
    BY <2>1 DEF Extended
  <2>2. CASE Disconnect
    BY <2>2 DEF Disconnect
  <2>3. CASE Receive
    BY <2>3, Received DEF ScreensTypeOK, Receive
  <2>4. QED
    BY <2>1, <2>2, <2>3, InboxMoves
<1>3. RequestsTyped' /\ RequestKnown'
  BY RequestsStayTyped, RequestStaysKnown
<1>4. GatewayTypeOK'
  BY <1>1, <1>2, <1>3, ServerStaysTyped, PageStaysTyped, ListsStayTyped
     DEF GatewayTypeOK, RequestsTyped, RequestKnown
<1>5. page = "tracker" /\ fetch'.at # "none" => Joined(Me)'
  <2> SUFFICES ASSUME page = "tracker", fetch'.at # "none"
               PROVE  Joined(Me)'
    OBVIOUS
  <2>1. Joined(Me)
    <3>1. CASE fetch.at # "none"
      BY <3>1 DEF ScreensTypeOK
    <3>2. CASE OpenPage
      BY <3>2 DEF OpenPage, Joined
    <3>3. CASE fetch.at = "none" /\ ~OpenPage
      <4>1. fetch' = fetch \/ fetch' = NoFetch
        <5>1. CASE Service
          BY <5>1 DEF Service, Serve, Join, Update, UpdateForPage, Renumber, RejectEstimates, Claim, ClearKey,
                      Broadcasting, Publish
        <5>2. CASE Query
          BY <3>3, <5>2 DEF Query, QueryRuns, Read, QueryAnswered, QueryFails, AskAgain
        <5>3. CASE Connection
          BY <5>3 DEF Connection, Connect, JoinEntry, JoinEntryRoom, Disconnect, Receive
        <5>4. CASE Staff
          BY <5>4 DEF Staff, CallNext, StartServing, SkipToken, CompleteCurrent, Click, ClickSucceeds,
                      ClickFails, ClickLost
        <5>5. CASE UNCHANGED vars
          BY <5>5 DEF vars, network
        <5>6. QED
          BY <5>1, <5>2, <5>3, <5>4, <5>5 DEF Next
      <4>2. QED
        BY <3>3, <4>1 DEF NoFetch
    <3>4. QED
      BY <3>1, <3>2, <3>3
  <2>2. QED
    BY <1>1, <2>1, EntriesAreNat DEF Onwards, Joined
<1>6. page' = page /\ page \in Pages
  BY PageStaysTyped DEF ScreensTypeOK
<1>7. page' = "tracker" /\ fetch'.at # "none" => Joined(Me)'
  BY <1>5, <1>6
<1>8. QED
  BY <1>4, <1>6, <1>7, PageStaysTyped, ListsStayTyped DEF ScreensTypeOK

-----------------------------------------------------------------------------
(* The staff's table.                                                      *)

\* Time does not disturb a list in turn.
LEMMA InTurnLater ==
  ASSUME NumbersInOrder, Onwards(status, status'),
         NEW list, DOMAIN list \subseteq Entries, InTurn(list, status)
  PROVE  InTurn(list, status')
<1> SUFFICES ASSUME NEW e \in DOMAIN list
             PROVE  /\ status'[e] # "ABSENT"
                    /\ list[e].status = "WAITING" /\ list[e].position # 0 =>
                         \A d \in Entries : Precedes(d, e) /\ status'[d] = "WAITING" =>
                           /\ d \in DOMAIN list /\ list[d].status = "WAITING"
                           /\ list[d].position \in 1..(list[e].position - 1)
  BY DEF InTurn
<1>1. e \in Entries /\ status[e] # "ABSENT"
  BY DEF InTurn
<1>2. status'[e] # "ABSENT"
  BY <1>1 DEF Onwards
<1>3. ASSUME list[e].status = "WAITING", list[e].position # 0,
             NEW d \in Entries, Precedes(d, e), status'[d] = "WAITING"
      PROVE  /\ d \in DOMAIN list /\ list[d].status = "WAITING"
             /\ list[d].position \in 1..(list[e].position - 1)
  <2>1. status[d] # "ABSENT"
    BY <1>1, <1>3 DEF NumbersInOrder, Joined, Precedes
  <2>2. status[d] = "WAITING"
    BY <2>1, <1>3 DEF Onwards
  <2>3. QED
    BY <1>3, <2>2 DEF InTurn
<1>4. QED
  BY <1>2, <1>3

\* The rows of one barber, or of the shop, as they are.
LEMMA RowsReadInTurn ==
  ASSUME GatewayTypeOK, NumbersInOrder, NEW b
  PROVE  InTurn([e \in With(ActiveStatuses) \cap RowsOf(b) |-> Row(e)], status)
<1> DEFINE l == [e \in With(ActiveStatuses) \cap RowsOf(b) |-> Row(e)]
<1>1. DOMAIN l = With(ActiveStatuses) \cap RowsOf(b) /\ \A e \in DOMAIN l : l[e] = Row(e)
  OBVIOUS
<1> HIDE DEF l
<1>2. ASSUME NEW e \in DOMAIN l
      PROVE  status[e] # "ABSENT" /\ e \in Entries /\ e \in RowsOf(b)
  BY <1>1, <1>2 DEF With, ActiveStatuses
<1>3. ASSUME NEW e \in DOMAIN l, l[e].status = "WAITING", l[e].position # 0,
             NEW d \in Entries, Precedes(d, e), status[d] = "WAITING"
      PROVE  d \in DOMAIN l /\ l[d].status = "WAITING" /\ l[d].position \in 1..(l[e].position - 1)
  <2>1. status[e] = "WAITING" /\ position[e] # 0 /\ l[e].position = position[e]
    BY <1>1, <1>3 DEF Row
  <2>2. d \in Queued /\ e \in Queued /\ d \in With(ActiveStatuses)
    BY <1>2, <1>3, <2>1 DEF Queued, With, ActiveStatuses
  <2>3. position[d] \in 1..(position[e] - 1)
    BY <1>3, <2>1, <2>2 DEF NumbersInOrder
  <2>4. d \in RowsOf(b)
    BY <1>2, <1>3 DEF RowsOf, Precedes
  <2>5. d \in DOMAIN l /\ l[d] = Row(d)
    BY <1>1, <2>2, <2>4
  <2>6. QED
    BY <1>3, <2>1, <2>3, <2>5 DEF Row
<1>4. InTurn(l, status)
  BY <1>2, <1>3 DEF InTurn
<1>5. QED
  BY <1>4 DEF l

LEMMA ListsRead ==
  ASSUME GatewayTypeOK, NumbersInOrder
  PROVE  InTurn(ActiveQueue, status) /\ InTurn(<<>>, status) /\ InTurn(Published, status)
<1>1. InTurn(<<>>, status)
  BY DEF InTurn
<1>2. With(ActiveStatuses) \cap RowsOf(NoBarber) = With(ActiveStatuses)
  BY DEF With, RowsOf
<1>3. ActiveQueue = [e \in With(ActiveStatuses) \cap RowsOf(NoBarber) |-> Row(e)]
  BY <1>2 DEF ActiveQueue
<1>4. InTurn(ActiveQueue, status)
  BY <1>3, RowsReadInTurn
<1>5. InTurn([e \in With(ActiveStatuses) \cap RowsOf(scope) |-> Row(e)], status)
  BY RowsReadInTurn
<1>6. QED
  BY <1>1, <1>4, <1>5 DEF Published

\* A row that does not wait, of a customer who does not, disturbs nothing.
LEMMA PutInTurn ==
  ASSUME NEW list \in Lists, InTurn(list, status), NEW x, Begun(x), NEW row \in Rows, row.status # "WAITING"
  PROVE  InTurn([list EXCEPT ![x] = row], status)
<1> DEFINE l == [list EXCEPT ![x] = row]
<1>1. DOMAIN l = DOMAIN list /\ \A d \in DOMAIN list : l[d] = IF d = x THEN row ELSE list[d]
  BY RowReplaced
<1> HIDE DEF l
<1>2. ASSUME NEW e \in DOMAIN l
      PROVE  status[e] # "ABSENT"
  BY <1>1, <1>2 DEF InTurn
<1>3. ASSUME NEW e \in DOMAIN l, l[e].status = "WAITING", l[e].position # 0,
             NEW d \in Entries, Precedes(d, e), status[d] = "WAITING"
      PROVE  d \in DOMAIN l /\ l[d].status = "WAITING" /\ l[d].position \in 1..(l[e].position - 1)
  <2>1. e # x /\ l[e] = list[e] /\ d # x
    BY <1>1, <1>3 DEF Begun
  <2>2. d \in DOMAIN list /\ list[d].status = "WAITING" /\ list[d].position \in 1..(list[e].position - 1)
    BY <1>1, <1>3, <2>1 DEF InTurn
  <2>3. QED
    BY <1>1, <2>1, <2>2
<1>4. InTurn(l, status)
  BY <1>2, <1>3 DEF InTurn
<1>5. QED
  BY <1>4 DEF l

\* The row that Call next picks.
LEMMA NextIsFirst ==
  ASSUME GatewayTypeOK, shown \in Lists, NumbersInOrder, InTurn(shown, status), NextWaiting # 0,
         shown[NextWaiting].position # 0
  PROVE  \A d \in Entries : Precedes(d, NextWaiting) => Begun(d)
<1> SUFFICES ASSUME NEW d \in Entries, Precedes(d, NextWaiting)
             PROVE  Begun(d)
  OBVIOUS
<1> DEFINE e == NextWaiting
<1>1. /\ e \in DOMAIN shown /\ e \in Entries /\ shown[e].status = "WAITING"
      /\ \A f \in DOMAIN shown : shown[f].status = "WAITING" => shown[e].position <= shown[f].position
  BY NextWaitingTyped
<1> HIDE DEF e
<1>2. status[e] # "ABSENT" /\ Precedes(d, e)
  BY <1>1 DEF InTurn, e
<1>3. status[d] # "ABSENT"
  BY <1>1, <1>2 DEF NumbersInOrder, Joined, Precedes
<1>4. ASSUME status[d] = "WAITING"
      PROVE  FALSE
  <2>1. /\ d \in DOMAIN shown /\ shown[d].status = "WAITING"
        /\ shown[d].position \in 1..(shown[e].position - 1)
    BY <1>1, <1>2, <1>4 DEF InTurn, e
  <2>2. shown[e].position <= shown[d].position /\ shown[e].position \in Nat
    BY <1>1, <2>1, ListRows
  <2>3. QED
    BY <2>1, <2>2
<1>5. QED
  BY <1>3, <1>4 DEF Begun

GoodMessage(m, truth) ==
  /\ m.type = "QUEUE_UPDATED" => InTurn(m.list, truth)
  /\ m.type = "NOW_SERVING_CHANGED" =>
       m.row.status = "SERVING" /\ m.entry \in Entries /\ truth[m.entry] \notin {"ABSENT", "WAITING"}

LEMMA FreshIsGood ==
  ASSUME GatewayTypeOK, NumbersInOrder, NEW m, Fresh(m)
  PROVE  GoodMessage(m, status)
<1>1. CASE m.type = "NOTIFICATION"
  BY <1>1 DEF GoodMessage
<1>2. CASE \E k \in DOMAIN Broadcast(Published) : m = Broadcast(Published)[k]
  <2> DEFINE x == Foremost(Serving(Published))
  <2>1. Published \in Lists /\ InTurn(Published, status)
    BY QueueIsList, ListsRead
  <2>2. \/ m = QueueUpdated(Published)
        \/ /\ x \in DOMAIN Published /\ Published[x].status = "SERVING"
           /\ m = NowServingChanged(x, Published[x])
    BY <1>2, <2>1, BroadcastMessages
  <2> HIDE DEF x
  <2>3. CASE m = QueueUpdated(Published)
    BY <2>1, <2>3 DEF QueueUpdated, GoodMessage
  <2>4. CASE x \in DOMAIN Published /\ Published[x].status = "SERVING" /\ m = NowServingChanged(x, Published[x])
    <3>2. x \in Entries /\ Published[x] = Row(x)
      BY <2>1, <2>4, PublishedRows, ListRows
    <3>3. status[x] = "SERVING"
      BY <2>4, <3>2 DEF Row
    <3>4. m.type = "NOW_SERVING_CHANGED" /\ m.entry = x /\ m.row = Published[x]
      BY <2>4 DEF NowServingChanged
    <3>5. QED
      BY <2>4, <3>2, <3>3, <3>4 DEF GoodMessage
  <2>5. QED
    BY <2>2, <2>3, <2>4
<1>3. QED
  BY <1>1, <1>2 DEF Fresh

LEMMA MessagesStayGood ==
  ASSUME TableInv, [Next]_vars
  PROVE  \A i \in DOMAIN inbox' : GoodMessage(inbox'[i], status')
<1>0. /\ ScreensTypeOK /\ GatewayTypeOK /\ NumbersInOrder /\ inbox \in Seq(Messages)
      /\ Onwards(status, status')
  BY RowsGoOn DEF TableInv, ScreensTypeOK, GatewayTypeOK
<1>1. ASSUME NEW i \in DOMAIN inbox
      PROVE  inbox[i] \in Messages /\ GoodMessage(inbox[i], status)
  <2>1. inbox[i] \in Messages
    BY <1>0
  <2>2. inbox[i].type = "NOW_SERVING_CHANGED" => inbox[i].entry \in Entries
    BY <2>1, MessageParts
  <2>3. QED
    BY <2>1, <2>2 DEF TableInv, TableInTurn, GoodMessage, Begun
<1>2. ASSUME NEW m \in Messages, GoodMessage(m, status)
      PROVE  GoodMessage(m, status')
  <2>1. m.type = "QUEUE_UPDATED" => InTurn(m.list, status')
    <3>1. m.type = "QUEUE_UPDATED" => DOMAIN m.list \subseteq Entries
      BY MessageParts, ListRows
    <3>2. QED
      BY <1>0, <1>2, <3>1, InTurnLater DEF GoodMessage
  <2>2. QED
    BY <1>0, <1>2, <2>1 DEF GoodMessage, Onwards
<1>3. CASE Extended
  <2>1. ASSUME NEW i \in DOMAIN inbox'
        PROVE  inbox'[i] \in Messages /\ GoodMessage(inbox'[i], status)
    <3>1. inbox'[i] \in Messages
      BY <1>3 DEF Extended
    <3>2. CASE i \in DOMAIN inbox
      BY <1>1, <1>3, <3>1, <3>2 DEF Extended
    <3>3. CASE i \notin DOMAIN inbox
      BY <1>0, <1>3, <3>1, <3>3, FreshIsGood DEF Extended
    <3>4. QED
      BY <3>2, <3>3
  <2>2. QED
    BY <1>2, <2>1
<1>4. CASE Disconnect
  BY <1>4 DEF Disconnect
<1>5. CASE Receive
  <2>1. \A i \in DOMAIN inbox' : i + 1 \in DOMAIN inbox /\ inbox'[i] = inbox[i + 1]
    BY <1>0, <1>5, Received DEF Receive
  <2>2. QED
    BY <1>1, <1>2, <2>1
<1>6. QED
  BY <1>0, <1>3, <1>4, <1>5, InboxMoves

\* The lists of the staff's page.
LEMMA TableStaysInTurn ==
  ASSUME TableInv, [Next]_vars, page = "liveQueue"
  PROVE  InTurn(shown', status') /\ InTurn(cache', status') /\ InTurn(fetch'.list, status')
<1>0. /\ ScreensTypeOK /\ GatewayTypeOK /\ NumbersInOrder /\ Onwards(status, status')
      /\ shown \in Lists /\ cache \in Lists /\ fetch.list \in Lists
      /\ InTurn(shown, status) /\ InTurn(cache, status) /\ InTurn(fetch.list, status)
  BY RowsGoOn DEF TableInv, TableInTurn, ScreensTypeOK, GatewayTypeOK
<1>1. shown' \in Lists /\ cache' \in Lists /\ fetch'.list \in Lists
  BY <1>0, ListsStayTyped
<1> DEFINE Kept == InTurn(shown', status) /\ InTurn(cache', status) /\ InTurn(fetch'.list, status)
<1>2. SUFFICES Kept
  BY <1>0, <1>1, InTurnLater, ListRows
<1>3. ASSUME UNCHANGED <<shown, cache, fetch>>
      PROVE  Kept
  BY <1>0, <1>3
<1>4. CASE Service
  BY <1>3, <1>4 DEF Service, Serve, Join, Update, UpdateForPage, Renumber, RejectEstimates, Claim, ClearKey,
                    Broadcasting, Publish, screen
<1>5. CASE OpenPage \/ AskAgain
  <2>1. fetch' = [fetch EXCEPT !.at = "asked"] /\ UNCHANGED <<shown, cache>>
    BY <1>5 DEF OpenPage, AskAgain, Ask, screen
  <2>2. fetch'.list = fetch.list
    BY <2>1 DEF ScreensTypeOK, GatewayTypeOK
  <2>3. QED
    BY <1>0, <2>1, <2>2
<1>6. CASE QueryRuns /\ UNCHANGED <<page, screen>>
  <2>1. fetch' = [at |-> "read", list |-> ActiveQueue] /\ UNCHANGED <<shown, cache>>
    BY <1>6 DEF QueryRuns, Read, screen
  <2>2. QED
    BY <1>0, <2>1, ListsRead
<1>7. NoFetch.list = <<>> /\ InTurn(<<>>, status)
  BY <1>0, ListsRead DEF NoFetch
<1>8. CASE QueryAnswered
  BY <1>0, <1>7, <1>8 DEF QueryAnswered, ShowRows
<1>9. CASE QueryFails
  BY <1>0, <1>7, <1>9 DEF QueryFails
<1>10. CASE Connect \/ JoinEntry \/ Disconnect
  BY <1>3, <1>10 DEF Connect, JoinEntry, JoinEntryRoom, Disconnect, screen
<1>11. CASE Receive
  <2> DEFINE m == Head(inbox)
  <2>1. m \in Messages /\ m = inbox[1] /\ 1 \in DOMAIN inbox
    BY <1>0, <1>11, Received DEF Receive
  <2>2. UNCHANGED <<cache, fetch>>
    BY <1>11 DEF Receive
  <2>3. /\ m.type = "QUEUE_UPDATED" => InTurn(m.list, status) /\ ApplyList(m)
        /\ m.type = "NOW_SERVING_CHANGED" => m.row.status = "SERVING" /\ Begun(m.entry) /\ ApplyNowServing(m)
        /\ m.type \notin {"QUEUE_UPDATED", "NOW_SERVING_CHANGED"} => shown' = shown
    BY <1>11, <2>1 DEF Receive, ApplyNotification, TableInv, TableInTurn
  <2> HIDE DEF m
  <2>4. CASE m.type = "QUEUE_UPDATED"
    BY <1>0, <2>2, <2>3, <2>4 DEF ApplyList, ShowRows
  <2>5. CASE m.type = "NOW_SERVING_CHANGED"
    <3>1. m.row \in Rows
      BY <2>1, <2>5, MessageParts
    <3>2. InTurn([shown EXCEPT ![m.entry] = m.row], status)
      BY <1>0, <2>3, <2>5, <3>1, PutInTurn
    <3>3. QED
      BY <1>0, <2>2, <2>3, <2>5, <3>2 DEF ApplyNowServing
  <2>6. QED
    BY <1>0, <2>2, <2>3, <2>4, <2>5
<1>12. CASE ClickSucceeds
  <2>1. cache' = Patched(cache) /\ fetch' = fetch /\ (shown' = shown \/ shown' = cache')
    BY <1>12 DEF ClickSucceeds, ShowRows
  <2>2. Begun(click.entry) /\ click.target # "WAITING"
    BY <1>12 DEF ClickSucceeds, TableInv, ClickInTurn
  <2>3. [status |-> click.target, position |-> click.position] \in Rows
    BY <1>0 DEF GatewayTypeOK, Rows
  <2> DEFINE r == [status |-> click.target, position |-> click.position]
  <2>4. r.status # "WAITING"
    BY <2>2
  <2>5. InTurn([cache EXCEPT ![click.entry] = r], status)
    BY <1>0, <2>2, <2>3, <2>4, PutInTurn
  <2>6. InTurn(Patched(cache), status)
    BY <1>0, <2>5 DEF Patched
  <2>7. QED
    BY <1>0, <2>1, <2>6
<1>13. CASE CallNext \/ (\E e \in Entries : StartServing(e) \/ SkipToken(e)) \/ CompleteCurrent
            \/ ClickFails \/ ClickLost
  BY <1>3, <1>13 DEF CallNext, StartServing, SkipToken, CompleteCurrent, Click, ClickFails, ClickLost, screen
<1>14. CASE UNCHANGED vars
  BY <1>3, <1>14 DEF vars, network, screen
<1> HIDE DEF Kept
<1>15. QED
  BY <1>4, <1>5, <1>6, <1>8, <1>9, <1>10, <1>11, <1>12, <1>13, <1>14 DEF Next, Query, Connection, Staff

\* The staff's mutation.
LEMMA ClickStaysInTurn ==
  ASSUME TableInv, [Next]_vars
  PROVE  ClickInTurn'
<1>0. /\ ScreensTypeOK /\ GatewayTypeOK /\ NumbersInOrder /\ ClickInTurn /\ Onwards(status, status')
      /\ shown \in Lists /\ page' = page
  BY RowsGoOn, PageStaysTyped DEF TableInv, ScreensTypeOK
<1>1. \A e \in Entries : Begun(e) => Begun(e)'
  BY <1>0 DEF Onwards, Begun
<1>2. /\ click.at # "none" => click.entry \in Entries
      /\ click \in [at : {"none", "sent", "served", "done", "failed"}, entry : 0..LastEntry,
                    target : Statuses, position : 0..LastEntry]
  BY <1>0 DEF GatewayTypeOK
<1>3. ASSUME \/ click' = click
             \/ click.at = "served" /\ click' = [click EXCEPT !.at = "done"]
             \/ click.at = "served" /\ click' = [click EXCEPT !.at = "failed"]
             \/ click.at = "sent" /\ click' = [click EXCEPT !.at = "failed"]
      PROVE  ClickInTurn'
  <2>1. /\ click'.entry = click.entry /\ click'.target = click.target /\ click'.position = click.position
        /\ click'.at # "none" => click.at # "none"
        /\ click'.at \in {"served", "done"} => click.at \in {"served", "done"}
        /\ click'.at = "sent" => click.at = "sent"
    BY <1>2, <1>3
  <2>2. \A d \in Entries : Precedes(d, click.entry) /\ Begun(d) => Begun(d)'
    BY <1>1
  <2>3. QED
    BY <1>0, <1>1, <1>2, <2>1, <2>2 DEF ClickInTurn, Begun
<1>4. ASSUME click' = NoClick
      PROVE  ClickInTurn'
  BY <1>4 DEF ClickInTurn, NoClick
<1>5. ASSUME NEW e, NEW s \in {"CALLED", "SERVING", "SERVED", "NO_SHOW"}, Click(e, s),
             s = "CALLED" => e = NextWaiting
      PROVE  ClickInTurn'
  <2>1. /\ click' = [at |-> "sent", entry |-> e, target |-> s,
                     position |-> IF e \in DOMAIN shown THEN shown[e].position ELSE 0]
        /\ page = "liveQueue" /\ status' = status /\ e # 0
    BY <1>5 DEF Click, server
  <2>2. /\ click'.at = "sent" /\ click'.entry = e /\ click'.target = s
        /\ click'.position = IF e \in DOMAIN shown THEN shown[e].position ELSE 0
    BY <2>1
  <2>3. ASSUME s = "CALLED", click'.position # 0, NEW d \in Entries, Precedes(d, e)
        PROVE  Begun(d)
    <3>1. InTurn(shown, status) /\ e = NextWaiting /\ shown[e].position # 0
      BY <1>5, <2>1, <2>2, <2>3 DEF TableInv, TableInTurn
    <3>2. QED
      BY <1>0, <2>1, <2>3, <3>1, NextIsFirst
  <2>4. QED
    BY <1>0, <2>1, <2>2, <2>3 DEF ClickInTurn, Begun
<1>6. CASE UpdateForPage
  <2>1. click.at = "sent" /\ click.entry \in Entries /\ click.target \in {"CALLED", "SERVING", "SERVED", "NO_SHOW"}
    BY <1>0, <1>2, <1>6 DEF UpdateForPage, ClickInTurn
  <2>2. CASE IsValidTransition(status[click.entry], click.target)
    <3>1. /\ status' = [status EXCEPT ![click.entry] = click.target]
          /\ click' = [click EXCEPT !.at = "served", !.position = position[click.entry]]
      BY <1>6, <2>2 DEF UpdateForPage, Begin
    <3>2. click'.at = "served" /\ click'.entry = click.entry /\ click'.target = click.target
      BY <1>2, <3>1
    <3>3. status'[click.entry] = click.target
      BY <1>0, <2>1, <3>1 DEF GatewayTypeOK
    <3>4. QED
      BY <1>0, <2>1, <3>2, <3>3 DEF ClickInTurn, Begun
  <2>3. CASE ~IsValidTransition(status[click.entry], click.target)
    BY <1>3, <1>6, <2>1, <2>3 DEF UpdateForPage
  <2>4. QED
    BY <2>2, <2>3
<1>7. CASE Serve(Targets[page])
  BY <1>3, <1>6, <1>7 DEF Serve, Join, Update
<1>8. CASE Publish
  <2>1. PICK early : IF Heads = {} THEN Answer(AfterNotices) ELSE click' = click
    BY <1>8 DEF Publish
  <2>2. QED
    BY <1>3, <2>1 DEF Answer
<1>9. CASE Renumber \/ RejectEstimates \/ Claim \/ ClearKey
  BY <1>3, <1>9 DEF Renumber, RejectEstimates, Claim, ClearKey, Answer
<1>10. CASE Service
  BY <1>7, <1>8, <1>9, <1>10 DEF Service, Broadcasting
<1>11. CASE Query
  BY <1>3, <1>11 DEF Query, OpenPage, QueryRuns, Read, QueryAnswered, QueryFails, AskAgain
<1>12. CASE Connection
  BY <1>3, <1>12 DEF Connection, Connect, JoinEntry, JoinEntryRoom, Disconnect, Receive
<1>13. CASE CallNext
  BY <1>5, <1>13 DEF CallNext
<1>14. CASE CompleteCurrent \/ \E e \in Entries : StartServing(e) \/ SkipToken(e)
  BY <1>5, <1>14 DEF CompleteCurrent, StartServing, SkipToken
<1>15. CASE ClickSucceeds \/ ClickFails \/ ClickLost
  BY <1>4, <1>15 DEF ClickSucceeds, ClickFails, ClickLost
<1>16. CASE UNCHANGED vars
  BY <1>3, <1>16 DEF vars, network
<1>17. QED
  BY <1>10, <1>11, <1>12, <1>13, <1>14, <1>15, <1>16 DEF Next, Staff

LEMMA Started ==
  ASSUME Init
  PROVE  TableInv /\ TrackerInv
<1>1. {} \in SUBSET Entries /\ <<>> \in Lists /\ 0 \in 0..LastEntry /\ {"WAITING"} \subseteq Statuses
  <2>1. <<>> \in [{} -> Rows]
    OBVIOUS
  <2>2. <<>> \in Lists
    BY <2>1, IsList
  <2>3. QED
    BY <2>2, EntriesAreNat DEF Statuses
<1>2. /\ status = [e \in Entries |-> "ABSENT"] /\ position = [e \in Entries |-> 0]
      /\ work = [at |-> "idle", entry |-> 0, target |-> "WAITING", moved |-> {}]
      /\ click = [at |-> "none", entry |-> 0, target |-> "WAITING", position |-> 0]
      /\ fetch = [at |-> "none", list |-> <<>>] /\ inbox = <<>>
  BY DEF Init, GatewayInit, Idle, NoFetch
<1>3. /\ status \in [Entries -> Statuses \cup {"ABSENT"}] /\ position \in [Entries -> 0..LastEntry]
  BY <1>1, <1>2
<1>4. /\ work \in [at : {"idle", "recalculate", "publish", "claim", "clear"}, entry : 0..LastEntry,
                   target : Statuses, moved : SUBSET Entries]
      /\ click \in [at : {"none", "sent", "served", "done", "failed"}, entry : 0..LastEntry,
                    target : Statuses, position : 0..LastEntry]
      /\ fetch \in [at : {"none", "asked", "read"}, list : Lists] /\ inbox \in Seq(Messages)
  BY <1>1, <1>2
<1>5. GatewayTypeOK
  <2>1. click.at = "none" /\ work.at = "idle"
    BY <1>2
  <2>2. /\ notified \subseteq Entries /\ announced \in BOOLEAN /\ socket \in {"none", "connecting", "up"}
        /\ inRoom \in BOOLEAN /\ since \in {"read", "written", "broadcast"}
    BY DEF Init, GatewayInit
  <2>3. QED
    BY <1>3, <1>4, <2>1, <2>2 DEF GatewayTypeOK
<1>6. ScreensTypeOK
  BY <1>1, <1>2, <1>5 DEF Init, ScreensTypeOK
<1>7. \A e \in Entries : status[e] = "ABSENT" /\ position[e] = 0
  BY <1>2
<1>8. NumbersInOrder
  BY <1>7 DEF NumbersInOrder, Joined, Queued, With
<1>9. TableInTurn
  BY <1>2 DEF Init, TableInTurn, InTurn
<1>10. ClickInTurn
  BY <1>2 DEF ClickInTurn
<1>11. TrackerInOrder
  BY <1>2 DEF Init, GatewayInit, TrackerInOrder, RowsInOrder
<1>12. QED
  BY <1>6, <1>8, <1>9, <1>10, <1>11 DEF TableInv, TrackerInv

\* In every step Call next passes over nobody who precedes, of the same barber or
\* of one where the one called has none: where the table came from, and what
\* became of it since, cannot be told from the table.
THEOREM CalledFromTheTable == Spec => CallsInTurn
<1>1. Init => TableInv
  BY Started
<1>2. TableInv /\ [Next]_vars => TableInv'
  <2> SUFFICES ASSUME TableInv, [Next]_vars
               PROVE  TableInv'
    OBVIOUS
  <2>1. ScreensTypeOK /\ NumbersInOrder
    BY DEF TableInv
  <2>2. ScreensTypeOK' /\ NumbersInOrder'
    BY <2>1, TypesStay, RowsGoOn
  <2>3. page' = page
    BY <2>1, PageStaysTyped
  <2>4. \A i \in DOMAIN inbox' : GoodMessage(inbox'[i], status')
    BY MessagesStayGood
  <2>5. TableInTurn'
    BY <2>3, <2>4, TableStaysInTurn DEF TableInTurn, GoodMessage, Begun
  <2>6. QED
    BY <2>2, <2>5, ClickStaysInTurn DEF TableInv
<1>3. TableInv => (UpdateForPage /\ click.target = "CALLED" /\ click'.at = "served" /\ click.position # 0 =>
                     \A d \in Entries : Precedes(d, click.entry) => status[d] # "WAITING")
  BY DEF UpdateForPage, TableInv, ClickInTurn, Begun
<1>4. TableInv => [UpdateForPage /\ click.target = "CALLED" /\ click'.at = "served" /\ click.position # 0 =>
                     \A d \in Entries : Precedes(d, click.entry) => status[d] # "WAITING"]_vars
  BY <1>3
<1>5. QED
  BY <1>1, <1>2, <1>4, PTL DEF Spec, CallsInTurn

-----------------------------------------------------------------------------
(* The customer's tracker.                                                 *)

LEMMA FollowsOrder ==
  ASSUME NEW exact \in BOOLEAN
  PROVE  /\ \A a \in Rows : Follows(exact, a, a)
         /\ \A a, b, c \in Rows : Follows(exact, a, b) /\ Follows(exact, b, c) => Follows(exact, a, c)
<1>1. \A a \in Rows : a.position \in Nat
  BY EntriesAreNat DEF Rows
<1>2. \A s : Stage(s) \in Nat
  BY DEF Stage
<1>3. \A a \in Rows : Follows(exact, a, a)
  BY <1>1, <1>2 DEF Follows
<1>4. ASSUME NEW a \in Rows, NEW b \in Rows, NEW c \in Rows, Follows(exact, a, b), Follows(exact, b, c)
      PROVE  Follows(exact, a, c)
  <2>1. Stage(c.status) >= Stage(a.status)
    <3>1. Stage(c.status) >= Stage(b.status) /\ Stage(b.status) >= Stage(a.status)
      BY <1>4 DEF Follows
    <3>2. QED
      BY <1>2, <3>1
  <2>2. ASSUME exact, a.position # 0
        PROVE  c.position \in 1..a.position
    <3>1. b.position \in 1..a.position
      BY <1>4, <2>2 DEF Follows
    <3>2. b.position # 0
      BY <1>1, <3>1
    <3>3. c.position \in 1..b.position
      BY <1>4, <2>2, <3>2 DEF Follows
    <3>4. QED
      BY <1>1, <3>1, <3>3
  <2>3. QED
    BY <2>1, <2>2 DEF Follows
<1>5. QED
  BY <1>3, <1>4

\* What a step can be while the tracker is open.
Unseen == UNCHANGED <<opened, loaded, shown, fetch>> /\ (socket' = socket \/ socket # "none")

LEMMA TrackerSteps ==
  ASSUME page = "tracker", click.at = "none", [Next]_vars
  PROVE  /\ click' = click
         /\ \/ OpenPage \/ (QueryRuns /\ UNCHANGED <<page, screen>>) \/ QueryAnswered \/ QueryFails
            \/ Receive \/ Unseen
<1>1. CASE Service
  <2>1. Unseen
    BY <1>1 DEF Unseen, Service, Serve, Join, Update, UpdateForPage, Renumber, RejectEstimates, Claim, ClearKey,
                Broadcasting, Publish, screen
  <2>2. \A next : Answer(next) => click' = click
    BY DEF Answer
  <2>3. CASE Publish
    <3>1. PICK early : IF Heads = {} THEN Answer(AfterNotices) ELSE click' = click
      BY <2>3 DEF Publish
    <3>2. QED
      BY <2>1, <2>2, <3>1
  <2>4. CASE Serve(Targets[page]) \/ Renumber \/ RejectEstimates \/ Claim \/ ClearKey
    <3>1. click' = click
      BY <2>2, <2>4 DEF Serve, Join, Update, UpdateForPage, Renumber, RejectEstimates, Claim, ClearKey
    <3>2. QED
      BY <2>1, <3>1
  <2>5. QED
    BY <1>1, <2>3, <2>4 DEF Service, Broadcasting
<1>2. CASE Query
  <2>1. ~AskAgain
    BY DEF AskAgain
  <2>2. click' = click
    BY <1>2 DEF Query, OpenPage, QueryRuns, Read, QueryAnswered, QueryFails, AskAgain
  <2>3. QED
    BY <1>2, <2>1, <2>2 DEF Query
<1>3. CASE Connection
  BY <1>3 DEF Connection, Connect, JoinEntry, JoinEntryRoom, Disconnect, Receive, screen, Unseen
<1>4. CASE Staff
  BY <1>4 DEF Staff, CallNext, StartServing, SkipToken, CompleteCurrent, Click, ClickSucceeds,
              ClickFails, ClickLost
<1>5. CASE UNCHANGED vars
  BY <1>5 DEF vars, network, screen, Unseen
<1>6. QED
  BY <1>1, <1>2, <1>3, <1>4, <1>5 DEF Next

\* A list or a call is taken over as it comes, or leaves the ticket alone.
LEMMA TicketShown ==
  ASSUME ScreensTypeOK, page = "tracker", Me \in DOMAIN shown, Receive
  PROVE  /\ Me \in DOMAIN shown'
         /\ shown'[Me] = shown[Me] \/ Tells(Head(inbox), shown'[Me])
<1> DEFINE m == Head(inbox)
<1>1. m \in Messages /\ shown \in Lists
  BY Received DEF ScreensTypeOK, Receive
<1>2. CASE m.type = "QUEUE_UPDATED"
  <2>1. /\ m.list \in Lists
        /\ shown' = IF Me \in DOMAIN m.list THEN [e \in {Me} |-> m.list[Me]] ELSE shown
    BY <1>1, <1>2, MessageParts DEF Receive, ApplyList
  <2> HIDE DEF m
  <2>2. CASE Me \in DOMAIN m.list
    <3>1. m.list[Me] \in Rows /\ shown' = [e \in {Me} |-> m.list[Me]]
      BY <2>1, <2>2, ListRows
    <3>2. Me \in DOMAIN shown' /\ shown'[Me] = m.list[Me]
      BY <3>1, OwnRow
    <3>3. QED
      BY <1>2, <2>2, <3>2 DEF Tells, m
  <2>3. CASE Me \notin DOMAIN m.list
    BY <2>1, <2>3
  <2>4. QED
    BY <2>2, <2>3
<1>3. CASE m.type = "NOW_SERVING_CHANGED"
  <2>1. /\ m.row \in Rows
        /\ shown' = IF m.entry \in DOMAIN shown THEN [shown EXCEPT ![m.entry] = m.row] ELSE shown
    BY <1>1, <1>3, MessageParts DEF Receive, ApplyNowServing
  <2> HIDE DEF m
  <2>2. /\ DOMAIN [shown EXCEPT ![m.entry] = m.row] = DOMAIN shown
        /\ [shown EXCEPT ![m.entry] = m.row][Me] = IF Me = m.entry THEN m.row ELSE shown[Me]
    BY <1>1, <2>1, RowReplaced
  <2>3. QED
    BY <1>3, <2>1, <2>2 DEF Tells, m
<1>4. CASE m.type \notin {"QUEUE_UPDATED", "NOW_SERVING_CHANGED"}
  BY <1>4 DEF Receive, ApplyNotification
<1>5. QED
  BY <1>2, <1>3, <1>4

\* What is sent to the tracker is the row as it is.
LEMMA FreshTellsTruth ==
  ASSUME GatewayTypeOK, NEW m, Fresh(m), NEW row, Tells(m, row)
  PROVE  Publish /\ row = Row(Me)
<1>1. PICK k \in DOMAIN Broadcast(Published) : m = Broadcast(Published)[k]
  BY DEF Fresh, Tells
<1>2. Publish
  BY DEF Fresh, Tells
<1> DEFINE x == Foremost(Serving(Published))
<1>3. \/ m = QueueUpdated(Published)
      \/ x \in DOMAIN Published /\ m = NowServingChanged(x, Published[x])
  BY <1>1, QueueIsList, BroadcastMessages
<1> HIDE DEF x
<1>4. \A e \in DOMAIN Published : Published[e] = Row(e)
  BY PublishedRows
<1>5. CASE m = QueueUpdated(Published)
  <2>1. m.type = "QUEUE_UPDATED" /\ m.list = Published
    BY <1>5 DEF QueueUpdated
  <2>2. QED
    BY <1>2, <1>4, <2>1 DEF Tells
<1>6. CASE x \in DOMAIN Published /\ m = NowServingChanged(x, Published[x])
  <2>1. m.type = "NOW_SERVING_CHANGED" /\ m.entry = x /\ m.row = Published[x]
    BY <1>6 DEF NowServingChanged
  <2>2. QED
    BY <1>2, <1>4, <1>6, <2>1 DEF Tells
<1>7. QED
  BY <1>3, <1>5, <1>6

\* The tracker, apart from what is on its way to it.
TicketInOrder(exact) ==
  /\ opened => Joined(Me)
  /\ ~opened => fetch.at = "none" /\ ~loaded
  /\ loaded => fetch.at = "none" /\ Me \in DOMAIN shown /\ Follows(exact, shown[Me], Row(Me))
  /\ fetch.at = "read" => Me \in DOMAIN fetch.list /\ Follows(exact, fetch.list[Me], Row(Me))

LEMMA TicketStaysInOrder ==
  ASSUME TrackerInv, page = "tracker", [Next]_vars, NEW exact \in BOOLEAN, exact => ~Overtaken'
  PROVE  /\ TicketInOrder(exact)'
         /\ ~loaded' => ~loaded /\ socket' = "none" /\ ~Receive
         /\ loaded /\ loaded' => shown' = shown \/ Receive
<1>0. /\ ScreensTypeOK /\ GatewayTypeOK /\ NumbersInOrder /\ TicketInOrder(exact)
      /\ ~loaded => socket = "none" /\ inbox = <<>>
      /\ click.at = "none" /\ opened \in BOOLEAN /\ loaded \in BOOLEAN
      /\ shown \in Lists /\ fetch.list \in Lists /\ RowsInOrder(exact)
  <2>1. ScreensTypeOK /\ NumbersInOrder
    BY DEF TrackerInv
  <2>2. exact => ~Overtaken
    BY <2>1, RowsGoOn, OvertakenLasts
  <2>3. RowsInOrder(exact)
    BY <2>2 DEF TrackerInv, TrackerInOrder
  <2>4. QED
    BY <2>1, <2>3 DEF TrackerInv, TrackerInOrder, RowsInOrder, TicketInOrder, ScreensTypeOK, GatewayTypeOK
<1>1. /\ Joined(Me) => Joined(Me)' /\ Follows(exact, Row(Me), Row(Me)')
      /\ Joined(Me) => Row(Me) \in Rows /\ Row(Me)' \in Rows
  <2>1. ScreensTypeOK' /\ Onwards(status, status') /\ MyRowMoves
    BY <1>0, TypesStay, RowsGoOn
  <2>2. Joined(Me) => Joined(Me)'
    BY <2>1, EntriesAreNat DEF Onwards, Joined
  <2>3. Joined(Me) => Row(Me) \in Rows
    BY <1>0, QueueIsList, EntriesAreNat DEF Joined
  <2>4. Joined(Me)' => Row(Me)' \in Rows
    BY <2>1, EntriesAreNat DEF ScreensTypeOK, GatewayTypeOK, Joined, Row, Rows
  <2>5. QED
    BY <2>1, <2>2, <2>3, <2>4 DEF MyRowMoves
<1>2. ASSUME NEW row \in Rows, Joined(Me), Follows(exact, row, Row(Me))
      PROVE  Follows(exact, row, Row(Me)')
  BY <1>1, <1>2, FollowsOrder
<1>3. /\ Me \in DOMAIN shown => shown[Me] \in Rows
      /\ Me \in DOMAIN fetch.list => fetch.list[Me] \in Rows
  BY <1>0, ListRows
<1> DEFINE Kept == /\ TicketInOrder(exact)'
                   /\ ~loaded' => ~loaded /\ socket' = "none" /\ ~Receive
                   /\ loaded /\ loaded' => shown' = shown \/ Receive
<1> SUFFICES Kept
  OBVIOUS
<1>4. ASSUME Unseen
      PROVE  Kept
  <2>1. TicketInOrder(exact)'
    BY <1>0, <1>1, <1>2, <1>3, <1>4 DEF TicketInOrder, Unseen
  <2>2. ~loaded' => socket' = "none"
    BY <1>0, <1>4 DEF Unseen
  <2>3. ~loaded' => ~Receive
    BY <1>0, <1>4 DEF Unseen, Receive
  <2>4. QED
    BY <2>1, <2>2, <2>3, <1>4 DEF Unseen
<1>5. CASE OpenPage
  <2>1. /\ ~opened /\ status[Me] # "ABSENT" /\ opened' = TRUE /\ fetch' = [fetch EXCEPT !.at = "asked"]
        /\ socket' = socket /\ loaded' = loaded /\ shown' = shown /\ ~Receive
    BY <1>5 DEF OpenPage, Ask, ConnectsAtOnce, Receive
  <2>2. fetch'.at = "asked"
    BY <1>0, <2>1 DEF GatewayTypeOK
  <2>3. Joined(Me)' /\ ~loaded
    BY <1>0, <1>1, <2>1 DEF Joined, TicketInOrder
  <2>4. QED
    BY <1>0, <2>1, <2>2, <2>3 DEF TicketInOrder
<1>6. CASE QueryRuns /\ UNCHANGED <<page, screen>>
  <2> DEFINE l == [e \in {Me} |-> Row(e)]
  <2>1. /\ fetch.at = "asked" /\ fetch' = [at |-> "read", list |-> l] /\ socket' = socket
        /\ UNCHANGED <<opened, loaded, shown>> /\ status' = status /\ position' = position /\ inbox' = inbox
    BY <1>6 DEF QueryRuns, Read, server, screen
  <2>2. Me \in DOMAIN l /\ l[Me] = Row(Me) /\ opened /\ ~loaded
    BY <1>0, <2>1 DEF TicketInOrder
  <2>3. Row(Me)' = Row(Me) /\ Joined(Me) /\ Joined(Me)'
    BY <1>0, <1>1, <2>1, <2>2 DEF Row, TicketInOrder
  <2> HIDE DEF l
  <2>4. fetch'.at = "read" /\ fetch'.list = l
    BY <2>1
  <2>5. Follows(exact, l[Me], Row(Me)')
    BY <1>1, <2>2, <2>3, FollowsOrder
  <2>6. ~Receive
    BY <1>0, <2>2 DEF Receive
  <2>7. QED
    BY <1>0, <2>1, <2>2, <2>3, <2>4, <2>5, <2>6 DEF TicketInOrder
<1>7. CASE QueryAnswered
  <2>1. /\ fetch.at = "read" /\ fetch' = NoFetch /\ loaded' = TRUE /\ shown' = fetch.list /\ opened' = opened
        /\ status' = status /\ position' = position
    BY <1>7 DEF QueryAnswered, server
  <2>2. ~loaded /\ opened /\ Me \in DOMAIN fetch.list /\ Follows(exact, fetch.list[Me], Row(Me))
    BY <1>0, <2>1 DEF TicketInOrder
  <2>3. Row(Me)' = Row(Me) /\ Joined(Me)'
    BY <1>0, <1>1, <2>1, <2>2 DEF Row, TicketInOrder
  <2>4. QED
    BY <1>0, <2>1, <2>2, <2>3 DEF TicketInOrder, NoFetch
<1>8. CASE QueryFails
  <2>1. /\ fetch.at # "none" /\ fetch' = NoFetch /\ UNCHANGED <<opened, loaded, shown, socket, inbox>>
    BY <1>8 DEF QueryFails
  <2>2. ~loaded /\ opened
    BY <1>0, <2>1 DEF TicketInOrder
  <2>3. ~Receive
    BY <1>0, <2>2 DEF Receive
  <2>4. QED
    BY <1>0, <1>1, <2>1, <2>2, <2>3 DEF TicketInOrder, NoFetch
<1>9. CASE Receive
  <2>1. /\ inbox # <<>> /\ UNCHANGED <<status, position, socket, fetch, opened, loaded>>
    BY <1>9 DEF Receive, server
  <2>2. loaded /\ opened /\ Joined(Me) /\ Joined(Me)' /\ Row(Me)' = Row(Me) /\ Me \in DOMAIN shown
        /\ Follows(exact, shown[Me], Row(Me))
    BY <1>0, <1>1, <2>1 DEF TicketInOrder, Row
  <2>3. Me \in DOMAIN shown' /\ (shown'[Me] = shown[Me] \/ Tells(Head(inbox), shown'[Me]))
    BY <1>0, <1>9, <2>2, TicketShown
  <2>4. Follows(exact, shown'[Me], Row(Me)')
    <3>1. CASE shown'[Me] = shown[Me]
      BY <2>2, <3>1
    <3>2. CASE Tells(Head(inbox), shown'[Me])
      <4>1. shown'[Me] \in Rows
        BY <1>0, <2>3, ListsStayTyped, ListRows
      <4>2. 1 \in DOMAIN inbox /\ Head(inbox) = inbox[1]
        BY <1>0, <1>9, Received DEF Receive
      <4>3. Follows(exact, shown'[Me], Row(Me))
        BY <1>0, <3>2, <4>1, <4>2 DEF RowsInOrder
      <4>4. QED
        BY <2>2, <4>3
    <3>3. QED
      BY <2>3, <3>1, <3>2
  <2>5. QED
    BY <1>0, <1>9, <2>1, <2>2, <2>3, <2>4 DEF TicketInOrder
<1> HIDE DEF Kept
<1>10. QED
  BY <1>0, <1>4, <1>5, <1>6, <1>7, <1>8, <1>9, TrackerSteps

\* What is on its way to the tracker.
MessageInOrder(exact, i) ==
  \A new \in Rows : Tells(inbox[i], new) =>
    /\ Follows(exact, new, Row(Me))
    /\ Follows(exact, shown[Me], new)
    /\ \A j \in 1..(i - 1) : \A old \in Rows : Tells(inbox[j], old) => Follows(exact, old, new)

LEMMA MessagesStayInOrder ==
  ASSUME TrackerInv, page = "tracker", [Next]_vars, NEW exact \in BOOLEAN, exact => ~Overtaken',
         NEW i \in DOMAIN inbox'
  PROVE  MessageInOrder(exact, i)'
<1>0. /\ ScreensTypeOK /\ GatewayTypeOK /\ NumbersInOrder /\ TicketInOrder(exact)
      /\ ~loaded => socket = "none" /\ inbox = <<>>
      /\ inbox \in Seq(Messages) /\ shown \in Lists
      /\ \A k \in DOMAIN inbox : MessageInOrder(exact, k)
      /\ click.at = "none"
  <2>1. ScreensTypeOK /\ NumbersInOrder
    BY DEF TrackerInv
  <2>2. exact => ~Overtaken
    BY <2>1, RowsGoOn, OvertakenLasts
  <2>3. RowsInOrder(exact)
    BY <2>2 DEF TrackerInv, TrackerInOrder
  <2>4. QED
    BY <2>1, <2>3 DEF TrackerInv, TrackerInOrder, RowsInOrder, TicketInOrder, MessageInOrder, ScreensTypeOK,
                      GatewayTypeOK
<1>1. ScreensTypeOK' /\ MyRowMoves
  BY <1>0, TypesStay, RowsGoOn
<1> SUFFICES ASSUME NEW new \in Rows, Tells(inbox'[i], new)
             PROVE  /\ Follows(exact, new, Row(Me)')
                    /\ Follows(exact, shown'[Me], new)
                    /\ \A j \in 1..(i - 1) : \A old \in Rows : Tells(inbox'[j], old) => Follows(exact, old, new)
  <2>1. Rows' = Rows
    BY DEF Rows
  <2>2. QED
    BY <2>1 DEF MessageInOrder, Tells
<1>2. loaded /\ Joined(Me)
  <2>1. CASE inbox # <<>>
    BY <1>0, <2>1 DEF TicketInOrder
  <2>2. CASE inbox = <<>>
    <3>1. ~Receive
      BY <2>2 DEF Receive
    <3>2. ~Disconnect
      BY DEF Disconnect
    <3>3. i \notin DOMAIN inbox
      BY <2>2
    <3>4. socket = "up"
      BY <1>0, <3>1, <3>2, <3>3, InboxMoves DEF Extended
    <3>5. QED
      BY <1>0, <3>4 DEF TicketInOrder
  <2>3. QED
    BY <2>1, <2>2
<1>3. /\ Me \in DOMAIN shown /\ shown[Me] \in Rows /\ Follows(exact, shown[Me], Row(Me))
      /\ Row(Me) \in Rows /\ Follows(exact, Row(Me), Row(Me)')
  <2>1. Me \in DOMAIN shown /\ Follows(exact, shown[Me], Row(Me))
    BY <1>0, <1>2 DEF TicketInOrder
  <2>2. shown[Me] \in Rows
    BY <1>0, <2>1, ListRows
  <2>3. Row(Me) \in Rows
    BY <1>0, <1>2, QueueIsList, EntriesAreNat DEF Joined
  <2>4. QED
    BY <1>1, <1>2, <2>1, <2>2, <2>3 DEF MyRowMoves
<1>4. Row(Me)' \in Rows
  <2>1. Joined(Me)'
    BY <1>0, <1>2, RowsGoOn, EntriesAreNat DEF Onwards, Joined
  <2>2. QED
    BY <1>1, <2>1, EntriesAreNat DEF ScreensTypeOK, GatewayTypeOK, Joined, Row, Rows
<1>5. CASE Extended /\ ~Receive
  <2>1. shown' = shown
    BY <1>2, <1>5, TicketStaysInOrder, <1>0 DEF TicketInOrder
  <2>2. ASSUME NEW j \in DOMAIN inbox', j \notin DOMAIN inbox, NEW row \in Rows, Tells(inbox'[j], row)
        PROVE  row = Row(Me) /\ Row(Me)' = Row(Me)
    <3>1. Fresh(inbox'[j])
      BY <1>5, <2>2 DEF Extended
    <3>2. Publish /\ row = Row(Me)
      BY <1>0, <2>2, <3>1, FreshTellsTruth
    <3>3. QED
      BY <3>2 DEF Publish, Row
  <2>3. CASE i \in DOMAIN inbox
    <3>1. inbox'[i] = inbox[i] /\ i \in Nat /\ \A j \in 1..(i - 1) : j \in DOMAIN inbox /\ inbox'[j] = inbox[j]
      <4>1. DOMAIN inbox = 1..Len(inbox) /\ Len(inbox) \in Nat
        BY <1>0
      <4>2. i \in Nat /\ \A j \in 1..(i - 1) : j \in DOMAIN inbox
        BY <2>3, <4>1
      <4>3. QED
        BY <1>5, <2>3, <4>2 DEF Extended
    <3>2. /\ Follows(exact, new, Row(Me)) /\ Follows(exact, shown[Me], new)
          /\ \A j \in 1..(i - 1) : \A old \in Rows : Tells(inbox[j], old) => Follows(exact, old, new)
      BY <1>0, <2>3, <3>1 DEF MessageInOrder
    <3>3. Follows(exact, new, Row(Me)')
      BY <1>3, <1>4, <3>2, FollowsOrder
    <3>4. QED
      BY <2>1, <3>1, <3>2, <3>3
  <2>4. CASE i \notin DOMAIN inbox
    <3>1. new = Row(Me) /\ Row(Me)' = Row(Me)
      BY <2>2, <2>4
    <3>2. ASSUME NEW j \in 1..(i - 1), NEW old \in Rows, Tells(inbox'[j], old)
          PROVE  Follows(exact, old, new)
      <4>1. j \in DOMAIN inbox'
        BY <1>5, <3>2 DEF Extended
      <4>2. CASE j \in DOMAIN inbox
        <5>1. inbox'[j] = inbox[j]
          BY <1>5, <4>2 DEF Extended
        <5>2. Follows(exact, old, Row(Me))
          BY <1>0, <3>2, <4>2, <5>1 DEF MessageInOrder
        <5>3. QED
          BY <3>1, <5>2
      <4>3. CASE j \notin DOMAIN inbox
        <5>1. old = Row(Me)
          BY <2>2, <3>2, <4>1, <4>3
        <5>2. QED
          BY <1>3, <3>1, <5>1, FollowsOrder
      <4>4. QED
        BY <4>2, <4>3
    <3>3. QED
      BY <1>3, <2>1, <3>1, <3>2, FollowsOrder
  <2>5. QED
    BY <2>3, <2>4
<1>6. CASE Disconnect
  BY <1>6 DEF Disconnect
<1>7. CASE Receive
  <2>1. /\ Row(Me)' = Row(Me)
        /\ Head(inbox) = inbox[1] /\ 1 \in DOMAIN inbox
        /\ \A k \in DOMAIN inbox' : k + 1 \in DOMAIN inbox /\ inbox'[k] = inbox[k + 1] /\ k \in Nat /\ k # 0
    BY <1>0, <1>7, Received DEF Receive, server, Row
  <2>2. /\ Follows(exact, new, Row(Me)) /\ Follows(exact, shown[Me], new)
        /\ \A j \in 1..i : \A old \in Rows : Tells(inbox[j], old) => Follows(exact, old, new)
    <3>1. i + 1 \in DOMAIN inbox /\ inbox'[i] = inbox[i + 1] /\ (i + 1) - 1 = i
      BY <2>1
    <3>2. MessageInOrder(exact, i + 1)
      BY <1>0, <3>1
    <3>3. QED
      BY <3>1, <3>2 DEF MessageInOrder
  <2>3. Follows(exact, shown'[Me], new)
    <3>1. Me \in DOMAIN shown' /\ (shown'[Me] = shown[Me] \/ Tells(Head(inbox), shown'[Me]))
      BY <1>0, <1>3, <1>7, TicketShown
    <3>2. shown'[Me] \in Rows
      BY <1>0, <3>1, ListsStayTyped, ListRows
    <3>3. 1 \in 1..i
      BY <2>1
    <3>4. QED
      BY <2>1, <2>2, <3>1, <3>2, <3>3
  <2>4. ASSUME NEW j \in 1..(i - 1), NEW old \in Rows, Tells(inbox'[j], old)
        PROVE  Follows(exact, old, new)
    <3>1. j + 1 \in 1..i /\ j \in DOMAIN inbox'
      <4>1. inbox' \in Seq(Messages)
        BY <1>1 DEF ScreensTypeOK, GatewayTypeOK
      <4>2. DOMAIN inbox' = 1..Len(inbox') /\ Len(inbox') \in Nat
        BY <4>1
      <4>3. QED
        BY <2>4, <4>2
    <3>2. Tells(inbox[j + 1], old)
      BY <2>1, <2>4, <3>1
    <3>3. QED
      BY <2>2, <3>1, <3>2
  <2>5. QED
    BY <2>1, <2>2, <2>3, <2>4
<1>8. QED
  BY <1>0, <1>5, <1>6, <1>7, InboxMoves

LEMMA TrackerStays ==
  ASSUME TrackerInv, [Next]_vars
  PROVE  TrackerInv'
<1>1. ScreensTypeOK /\ NumbersInOrder
  BY DEF TrackerInv
<1>2. ScreensTypeOK' /\ NumbersInOrder'
  BY <1>1, TypesStay, RowsGoOn
<1>3. page' = page
  BY <1>1, PageStaysTyped
<1>4. ASSUME page = "tracker"
      PROVE  TrackerInOrder'
  <2>1. /\ TicketInOrder(FALSE)'
        /\ ~loaded' => ~loaded /\ socket' = "none" /\ ~Receive
    BY <1>4, TicketStaysInOrder
  <2>2. ASSUME NEW exact \in BOOLEAN, exact => ~Overtaken'
        PROVE  RowsInOrder(exact)'
    <3>1. TicketInOrder(exact)'
      BY <1>4, <2>2, TicketStaysInOrder
    <3>2. \A i \in DOMAIN inbox' : MessageInOrder(exact, i)'
      BY <1>4, <2>2, MessagesStayInOrder
    <3>3. QED
      BY <3>1, <3>2 DEF RowsInOrder, TicketInOrder, MessageInOrder
  <2>3. click' = click /\ click.at = "none"
    BY <1>4, TrackerSteps DEF TrackerInv, TrackerInOrder
  <2>4. ~loaded' => inbox' = <<>>
    <3> SUFFICES ASSUME ~loaded'
                 PROVE  inbox' = <<>>
      OBVIOUS
    <3>1. ~loaded /\ ~Receive /\ socket = "none" /\ inbox = <<>>
      BY <1>4, <2>1 DEF TrackerInv, TrackerInOrder
    <3>2. CASE Extended
      <4>1. inbox' \in Seq(Messages)
        BY <3>2 DEF Extended
      <4>2. \A i \in DOMAIN inbox' : i \in DOMAIN inbox
        BY <3>1, <3>2 DEF Extended
      <4>3. Len(inbox') = 0
        <5>1. DOMAIN inbox' = 1..Len(inbox') /\ Len(inbox') \in Nat
          BY <4>1
        <5>2. DOMAIN inbox = {}
          BY <3>1
        <5>3. 1 \notin 1..Len(inbox')
          BY <4>2, <5>1, <5>2
        <5>4. QED
          BY <5>1, <5>3
      <4>4. QED
        BY <4>1, <4>3, EmptySeq
    <3>3. CASE Disconnect
      BY <3>3 DEF Disconnect
    <3>4. QED
      BY <1>1, <3>1, <3>2, <3>3, InboxMoves
  <2>5. QED
    BY <2>1, <2>2, <2>3, <2>4 DEF TrackerInOrder, TicketInOrder
<1>5. QED
  BY <1>2, <1>3, <1>4 DEF TrackerInv, TrackerInOrder

\* The ticket only goes on, however the query, the lists and the calls follow
\* one another, and whatever is lost: its status in any case, its number until
\* a customer comes who may overtake.
THEOREM TicketMovesOn == Spec => TrackerMovesForward
<1>1. Init => TrackerInv
  BY Started
<1>2. TrackerInv /\ [Next]_vars => TrackerInv'
  BY TrackerStays
<1> DEFINE Forward == page = "tracker" /\ loaded =>
                        /\ Stage(shown'[Me].status) >= Stage(shown[Me].status)
                        /\ ~Overtaken' /\ shown[Me].position # 0 => shown'[Me].position <= shown[Me].position
<1>3. TrackerInv /\ [Next]_vars => Forward
  <2> SUFFICES ASSUME TrackerInv, [Next]_vars, page = "tracker", loaded
               PROVE  /\ Stage(shown'[Me].status) >= Stage(shown[Me].status)
                      /\ ~Overtaken' /\ shown[Me].position # 0 =>
                           shown'[Me].position <= shown[Me].position
    OBVIOUS
  <2>1. /\ ScreensTypeOK /\ GatewayTypeOK /\ NumbersInOrder /\ shown \in Lists /\ Me \in DOMAIN shown
        /\ loaded' = TRUE
    <3>1. ScreensTypeOK /\ NumbersInOrder /\ Me \in DOMAIN shown
      BY DEF TrackerInv, TrackerInOrder
    <3>2. loaded'
      <4>1. ~loaded' => ~loaded
        BY TicketStaysInOrder
      <4>2. loaded' \in BOOLEAN
        BY <3>1, TypesStay DEF ScreensTypeOK
      <4>3. QED
        BY <4>1, <4>2
    <3>3. QED
      BY <3>1, <3>2, PageStaysTyped DEF ScreensTypeOK
  <2>2. shown[Me] \in Rows
    BY <2>1, ListRows
  <2>3. ASSUME NEW exact \in BOOLEAN, exact => ~Overtaken'
        PROVE  Follows(exact, shown[Me], shown'[Me])
    <3>1. CASE Receive
      <4>1. Me \in DOMAIN shown' /\ (shown'[Me] = shown[Me] \/ Tells(Head(inbox), shown'[Me]))
        BY <2>1, <3>1, TicketShown
      <4>2. shown'[Me] \in Rows
        BY <2>1, <4>1, ListsStayTyped, ListRows
      <4>3. 1 \in DOMAIN inbox /\ Head(inbox) = inbox[1]
        BY <2>1, <3>1, Received DEF Receive
      <4>4. exact => ~Overtaken
        BY <2>1, <2>3, RowsGoOn, OvertakenLasts
      <4>5. RowsInOrder(exact)
        BY <4>4 DEF TrackerInv, TrackerInOrder
      <4>6. Tells(Head(inbox), shown'[Me]) => Follows(exact, shown[Me], shown'[Me])
        BY <4>2, <4>3, <4>5 DEF RowsInOrder
      <4>7. QED
        BY <2>2, <4>1, <4>6, FollowsOrder
    <3>2. CASE ~Receive
      BY <2>1, <2>2, <3>2, TicketStaysInOrder, FollowsOrder
    <3>3. QED
      BY <3>1, <3>2
  <2>4. shown[Me].position \in Nat
    BY <2>1, ListRows
  <2>5. Stage(shown'[Me].status) >= Stage(shown[Me].status)
    BY <2>3 DEF Follows
  <2>6. ASSUME ~Overtaken', shown[Me].position # 0
        PROVE  shown'[Me].position <= shown[Me].position
    <3>1. Follows(TRUE, shown[Me], shown'[Me])
      BY <2>3, <2>6
    <3>2. QED
      BY <2>4, <2>6, <3>1 DEF Follows
  <2>7. QED
    BY <2>5, <2>6
<1>4. TrackerInv /\ [Next]_vars => [Forward]_vars
  BY <1>3
<1>5. QED
  BY <1>1, <1>2, <1>4, PTL DEF Spec, TrackerMovesForward

-----------------------------------------------------------------------------
(* What the server sends, in order.                                        *)

LEMMA BroadcastStarts ==
  ASSUME NEW list \in Lists
  PROVE  /\ Len(Broadcast(list)) \in Nat /\ Len(Broadcast(list)) >= 1
         /\ Broadcast(list)[1] = QueueUpdated(list)
         /\ \A k \in 2..Len(Broadcast(list)) :
              \E e \in DOMAIN list : Broadcast(list)[k] = NowServingChanged(e, list[e])
<1> DEFINE m == Foremost(Serving(list))
           first == QueueUpdated(list)
           second == NowServingChanged(m, list[m])
<1>1. CASE Serving(list) = {}
  <2>1. Broadcast(list) = <<first>> \o <<>>
    BY <1>1 DEF Broadcast
  <2> HIDE DEF first, m
  <2>2. Broadcast(list) = <<first>>
    BY <2>1
  <2>3. QED
    BY <2>2 DEF first
<1>2. CASE Serving(list) # {}
  <2>1. Serving(list) \subseteq Entries /\ Serving(list) \subseteq DOMAIN list
    BY ListRows DEF Serving
  <2>2. m \in DOMAIN list
    BY <1>2, <2>1, ForemostOne
  <2>3. Broadcast(list) = <<first>> \o <<second>>
    BY <1>2 DEF Broadcast
  <2> HIDE DEF first, second, m
  <2> DEFINE f == <<first>>
             g == <<second>>
             S == {first, second}
  <2>4. f \in Seq(S) /\ g \in Seq(S) /\ Len(f) = 1 /\ Len(g) = 1 /\ f[1] = first /\ g[1] = second
    OBVIOUS
  <2>5. Len(Broadcast(list)) = 2 /\ Broadcast(list)[1] = first /\ Broadcast(list)[2] = second
    <3>1. Broadcast(list) = f \o g
      BY <2>3
    <3> HIDE DEF f, g
    <3>2. /\ Len(f \o g) = Len(f) + Len(g)
          /\ \A k \in 1..(Len(f) + Len(g)) : (f \o g)[k] = IF k <= Len(f) THEN f[k] ELSE g[k - Len(f)]
      BY <2>4, ConcatProperties
    <3>3. QED
      BY <2>4, <3>1, <3>2
  <2>6. \A k \in 2..2 : k = 2
    OBVIOUS
  <2>7. QED
    BY <2>2, <2>5, <2>6 DEF first, second
<1>3. QED
  BY <1>1, <1>2

\* A broadcast goes out: the list comes first, then at most the call and the
\* notification of Me.
LEMMA PublishSends ==
  ASSUME GatewayTypeOK, Publish
  PROVE  /\ socket # "up" => inbox' = inbox
         /\ socket = "up" =>
              LET n == Len(inbox) + 1 IN
              /\ Extended
              /\ n \in DOMAIN inbox' /\ inbox'[n] = QueueUpdated(Published)
              /\ \A i \in DOMAIN inbox' : n < i =>
                   \/ \E e \in DOMAIN Published : inbox'[i] = NowServingChanged(e, Published[e])
                   \/ inRoom /\ Me \in work.moved /\ inbox'[i] = Notification("POSITION_UPDATE")
<1>1. PICK early \in SUBSET work.moved :
        Deliver(Broadcast(Published),
                IF Me \in early THEN <<Notification("POSITION_UPDATE")>> ELSE NoMessage)
  <2> DEFINE Chosen == IF Heads = {} THEN {work.moved}
                        ELSE {S \in SUBSET work.moved : Heads \subseteq S}
             Sends(early) == Deliver(Broadcast(Published),
                               IF Me \in early THEN <<Notification("POSITION_UPDATE")>> ELSE NoMessage)
  <2>1. \E early \in Chosen : Sends(early)
    BY DEF Publish
  <2> HIDE DEF Sends
  <2>2. Chosen \subseteq SUBSET work.moved
    OBVIOUS
  <2> HIDE DEF Chosen
  <2>3. \E early \in SUBSET work.moved : Sends(early)
    BY <2>1, <2>2
  <2>4. QED
    BY <2>3 DEF Sends
<1>2. inbox \in Seq(Messages)
  BY DEF GatewayTypeOK
<1>3. CASE socket # "up"
  <2>1. inbox' = inbox \o <<>>
    BY <1>1, <1>3 DEF Deliver
  <2>2. QED
    BY <1>2, <1>3, <2>1
<1>4. CASE socket = "up"
  <2> DEFINE a == Broadcast(Published)
             note == Notification("POSITION_UPDATE")
             c == IF inRoom /\ Me \in early THEN <<note>> ELSE <<>>
             n == Len(inbox) + 1
  <2>1. inbox' = inbox \o (a \o c)
    BY <1>1, <1>4 DEF Deliver, Delivery, NoMessage
  <2>2. /\ a \in Seq(Messages) /\ Len(a) \in Nat /\ Len(a) >= 1 /\ a[1] = QueueUpdated(Published)
        /\ \A k \in 2..Len(a) : \E e \in DOMAIN Published : a[k] = NowServingChanged(e, Published[e])
    BY QueueIsList, BroadcastMessages, BroadcastStarts
  <2>3. <<note>> \in Seq(Messages)
    BY NoticeSent
  <2> HIDE DEF a, note
  <2>4. /\ c \in Seq(Messages) /\ Len(c) \in Nat
        /\ \A k \in 1..Len(c) : inRoom /\ Me \in work.moved /\ c[k] = note
    BY <1>1, <2>3
  <2> HIDE DEF c
  <2> DEFINE t == a \o c
  <2>5. /\ t \in Seq(Messages) /\ Len(t) = Len(a) + Len(c)
        /\ \A k \in 1..(Len(a) + Len(c)) : t[k] = IF k <= Len(a) THEN a[k] ELSE c[k - Len(a)]
    BY <2>2, <2>4, ConcatProperties
  <2> HIDE DEF t
  <2>6. /\ Len(inbox') = Len(inbox) + Len(t)
        /\ inbox' \in Seq(Messages)
        /\ \A i \in 1..(Len(inbox) + Len(t)) :
             inbox'[i] = IF i <= Len(inbox) THEN inbox[i] ELSE t[i - Len(inbox)]
    <3>1. inbox' = inbox \o t
      BY <2>1 DEF t
    <3>2. /\ inbox \o t \in Seq(Messages) /\ Len(inbox \o t) = Len(inbox) + Len(t)
          /\ \A i \in 1..(Len(inbox) + Len(t)) :
               (inbox \o t)[i] = IF i <= Len(inbox) THEN inbox[i] ELSE t[i - Len(inbox)]
      BY <1>2, <2>5, ConcatProperties
    <3>3. QED
      BY <3>1, <3>2, Zenon
  <2>7. Len(inbox) \in Nat /\ DOMAIN inbox' = 1..(Len(inbox) + Len(a) + Len(c))
    BY <1>2, <2>2, <2>4, <2>5, <2>6
  <2>8. n \in DOMAIN inbox' /\ inbox'[n] = QueueUpdated(Published)
    <3>1. n \in 1..(Len(inbox) + Len(t)) /\ ~(n <= Len(inbox)) /\ n - Len(inbox) = 1
      BY <2>2, <2>4, <2>5, <2>7
    <3>2. inbox'[n] = t[1] /\ t[1] = a[1]
      BY <2>2, <2>4, <2>5, <2>6, <3>1
    <3>3. QED
      BY <2>2, <2>5, <2>7, <3>1, <3>2
  <2>9. ASSUME NEW i \in DOMAIN inbox', n < i
        PROVE  \/ \E e \in DOMAIN Published : inbox'[i] = NowServingChanged(e, Published[e])
               \/ inRoom /\ Me \in work.moved /\ inbox'[i] = note
    <3> DEFINE k == i - Len(inbox)
    <3>1. k \in 2..(Len(a) + Len(c)) /\ inbox'[i] = t[k]
      BY <2>2, <2>4, <2>5, <2>6, <2>7, <2>9
    <3>2. CASE k <= Len(a)
      <4>1. k \in 2..Len(a) /\ t[k] = a[k]
        BY <2>2, <2>4, <2>5, <3>1, <3>2
      <4>2. QED
        BY <2>2, <3>1, <4>1
    <3>3. CASE ~(k <= Len(a))
      <4>1. k - Len(a) \in 1..Len(c) /\ t[k] = c[k - Len(a)]
        BY <2>2, <2>4, <2>5, <3>1, <3>3
      <4>2. QED
        BY <2>4, <3>1, <4>1
    <3>4. QED
      BY <3>2, <3>3
  <2>10. QED
    BY <1>4, <2>8, <2>9, PublishExtends DEF note
<1>5. QED
  BY <1>3, <1>4

\* One notification, or none.
LEMMA NoticeAppended ==
  ASSUME GatewayTypeOK, NEW note \in Messages, NEW b, b = <<note>> \/ b = <<>>,
         Deliver(NoMessage, b)
  PROVE  \/ inbox' = inbox
         \/ inRoom /\ socket = "up" /\ b = <<note>> /\ inbox' = Append(inbox, note)
<1>1. inbox \in Seq(Messages)
  BY DEF GatewayTypeOK
<1> DEFINE c == IF socket = "up" /\ inRoom THEN b ELSE <<>>
<1>2. inbox' = inbox \o (<<>> \o c) \/ inbox' = inbox \o <<>>
  BY DEF Deliver, Delivery, NoMessage
<1>3. c = <<>> \/ (c = <<note>> /\ inRoom /\ socket = "up" /\ b = <<note>>)
  OBVIOUS
<1> HIDE DEF c
<1>4. inbox \o <<>> = inbox
  BY <1>1
<1>5. inbox \o (<<>> \o <<>>) = inbox
  BY <1>1
<1>6. inbox \o (<<>> \o <<note>>) = Append(inbox, note)
  <2>1. <<>> \o <<note>> = <<note>>
    OBVIOUS
  <2>2. inbox \o <<note>> = Append(inbox, note)
    BY <1>1, AppendIsConcat
  <2>3. QED
    BY <2>1, <2>2
<1>7. QED
  BY <1>2, <1>3, <1>4, <1>5, <1>6

-----------------------------------------------------------------------------
(* The screen when all is quiet, and the notifications.                    *)

\* A request that begins: the last change is not announced any more.
RequestBegins(e, s) ==
  /\ status' = [status EXCEPT ![e] = s] /\ announced' = FALSE
  /\ since' = IF since = "read" THEN "written" ELSE since
  /\ work' = [at |-> "recalculate", entry |-> e, target |-> s, moved |-> {}]
  /\ scope' = Barber[e]

LEMMA ServeSteps ==
  ASSUME ScreensTypeOK, Serve(Targets[page])
  PROVE  /\ UNCHANGED <<position, notified, socket, inRoom, inbox, fetch, losses>>
         /\ \/ \E e \in Entries, s \in Statuses : RequestBegins(e, s)
            \/ UNCHANGED <<status, announced, since, work, scope>>
<1>1. ASSUME NEW e \in Entries, Join(e)
      PROVE  RequestBegins(e, "WAITING") /\ "WAITING" \in Statuses
  BY <1>1 DEF Join, Begin, Touched, Idle, RequestBegins, Statuses
<1>2. ASSUME NEW e \in Entries, NEW s, Update(e, s)
      PROVE  RequestBegins(e, s) /\ s \in Statuses
  BY <1>2, ValidMoves DEF Update, Begin, Touched, Idle, RequestBegins
<1>3. ASSUME UpdateForPage
      PROVE  \/ \E e \in Entries, s \in Statuses : RequestBegins(e, s)
             \/ UNCHANGED <<status, announced, since, work, scope>>
  <2>1. click.entry \in Entries /\ click.target \in Statuses
    BY <1>3 DEF UpdateForPage, ScreensTypeOK, GatewayTypeOK
  <2>2. \/ RequestBegins(click.entry, click.target)
        \/ UNCHANGED <<status, announced, since, work, scope>>
    BY <1>3 DEF UpdateForPage, Begin, Touched, Idle, RequestBegins
  <2>3. QED
    BY <2>1, <2>2
<1>4. UNCHANGED <<position, notified, socket, inRoom, inbox, fetch, losses>>
  BY DEF Serve, Join, Update, UpdateForPage
<1>5. QED
  BY <1>1, <1>2, <1>3, <1>4 DEF Serve

LEMMA ServiceStaysInOrder ==
  ASSUME ScreensTypeOK, ServiceInOrder, [Next]_vars
  PROVE  ServiceInOrder'
<1>0. status \in [Entries -> Statuses \cup {"ABSENT"}] /\ work.moved \subseteq Entries
  BY DEF ScreensTypeOK, GatewayTypeOK
<1>1. ASSUME UNCHANGED <<status, announced, work, scope>>
      PROVE  ServiceInOrder'
  BY <1>1 DEF ServiceInOrder, Line, Queued, With, RowsOf
<1>2. ASSUME NEW e \in Entries, NEW s \in Statuses, RequestBegins(e, s)
      PROVE  ServiceInOrder'
  <2>1. work'.at = "recalculate" /\ work'.entry = e /\ work'.target = s /\ announced' = FALSE /\ status'[e] = s
    BY <1>0, <1>2 DEF RequestBegins
  <2>2. QED
    BY <2>1 DEF ServiceInOrder
<1>3. CASE Serve(Targets[page])
  BY <1>1, <1>2, <1>3, ServeSteps
<1>4. CASE Renumber
  <2> DEFINE S == {e \in Line : position[e] \notin {0, Rank(e)}}
  <2>1. /\ work.at = "recalculate" /\ status' = status /\ announced' = announced /\ scope' = scope
        /\ work' = [work EXCEPT !.at = "publish", !.moved = S]
    BY <1>4 DEF Renumber
  <2>2. S \subseteq Line /\ Line' = Line
    BY <2>1 DEF Line, Queued, With, RowsOf
  <2> HIDE DEF S
  <2>3. work'.at = "publish" /\ work'.moved = S /\ work'.entry = work.entry /\ work'.target = work.target
    BY <2>1 DEF ScreensTypeOK, GatewayTypeOK
  <2>4. QED
    BY <2>1, <2>2, <2>3 DEF ServiceInOrder
<1>5. CASE RejectEstimates
  <2>1. work'.at = "idle"
    BY <1>5 DEF RejectEstimates, Idle
  <2>2. QED
    BY <2>1 DEF ServiceInOrder
<1>6. ASSUME Answer(AfterNotices), status' = status, announced' = TRUE, work.at # "idle"
      PROVE  ServiceInOrder'
  <2>1. \/ work'.at = "idle"
        \/ work'.at = "clear" /\ work'.entry = work.entry /\ work'.target = work.target
    BY <1>6 DEF Answer, AfterNotices, Idle, ScreensTypeOK, GatewayTypeOK
  <2>2. QED
    BY <1>6, <2>1 DEF ServiceInOrder
<1>7. CASE Publish
  <2>1. work.at = "publish" /\ announced' = TRUE /\ status' = status /\ scope' = scope
    BY <1>7 DEF Publish
  <2>2. PICK early : IF Heads = {} THEN Answer(AfterNotices)
                     ELSE work' = [work EXCEPT !.at = "claim", !.moved = Heads \cup (work.moved \ early)]
    BY <1>7 DEF Publish
  <2>3. CASE Heads = {}
    BY <1>6, <2>1, <2>2, <2>3
  <2>4. CASE Heads # {}
    <3> DEFINE S == Heads \cup (work.moved \ early)
    <3>1. S \subseteq Line /\ Line' = Line
      BY <2>1 DEF Heads, ServiceInOrder, Line, Queued, With, RowsOf
    <3>2. work' = [work EXCEPT !.at = "claim", !.moved = S]
      BY <2>2, <2>4
    <3> HIDE DEF S
    <3>3. work'.at = "claim" /\ work'.moved = S /\ work'.entry = work.entry /\ work'.target = work.target
      BY <3>2 DEF ScreensTypeOK, GatewayTypeOK
    <3>4. QED
      BY <2>1, <3>1, <3>3 DEF ServiceInOrder
  <2>5. QED
    BY <2>3, <2>4
<1>8. CASE Claim
  <2>1. work.at = "claim" /\ announced /\ status' = status /\ announced' = announced /\ Answer(AfterNotices)
    BY <1>8 DEF Claim, ServiceInOrder
  <2>2. announced \in BOOLEAN
    BY DEF ScreensTypeOK, GatewayTypeOK
  <2>3. QED
    BY <1>6, <2>1, <2>2
<1>9. CASE ClearKey
  <2>1. work'.at = "idle"
    BY <1>9 DEF ClearKey, Answer, Idle
  <2>2. QED
    BY <2>1 DEF ServiceInOrder
<1>10. CASE Service
  BY <1>3, <1>4, <1>5, <1>7, <1>8, <1>9, <1>10 DEF Service, Broadcasting
<1>11. CASE Query
  BY <1>1, <1>11 DEF Query, OpenPage, QueryRuns, Read, QueryAnswered, QueryFails, AskAgain, server
<1>12. CASE Connection
  BY <1>1, <1>12 DEF Connection, Connect, JoinEntry, JoinEntryRoom, Disconnect, Receive, server
<1>13. CASE Staff
  BY <1>1, <1>13 DEF Staff, CallNext, StartServing, SkipToken, CompleteCurrent, Click, ClickSucceeds,
                     ClickFails, ClickLost, server
<1>14. CASE UNCHANGED vars
  BY <1>1, <1>14 DEF vars, server
<1>15. QED
  BY <1>10, <1>11, <1>12, <1>13, <1>14 DEF Next

\* What the page's query reads.
Wanted == IF page = "tracker" THEN [e \in {Me} |-> Row(e)] ELSE ActiveQueue

LEMMA QueryStaysInOrder ==
  ASSUME ScreensTypeOK, TrackerInOrder, ServiceInOrder, QueryInOrder, [Next]_vars
  PROVE  QueryInOrder'
<1>0. /\ announced \in BOOLEAN /\ opened \in BOOLEAN /\ loaded \in BOOLEAN
      /\ since \in {"read", "written", "broadcast"} /\ fetch.at \in {"none", "asked", "read"}
      /\ loaded \/ fetch.at # "none" \/ socket # "none" => opened
      /\ since # "broadcast" => fetch.at = "read"
      /\ since = "written" => ~announced
      /\ since = "read" => fetch.list = Wanted
      /\ page = "tracker" /\ fetch.at = "read" /\ since = "broadcast" => "lost" \in behind
      /\ page' = page
  BY PageStaysTyped DEF QueryInOrder, Wanted, ScreensTypeOK, GatewayTypeOK
<1> DEFINE Kept == /\ loaded' \/ fetch'.at # "none" \/ socket' # "none" => opened'
                   /\ since' # "broadcast" => fetch'.at = "read"
                   /\ since' = "written" => ~announced'
                   /\ since' = "read" => fetch'.list = Wanted'
                   /\ page = "tracker" /\ fetch'.at = "read" /\ since' = "broadcast" => "lost" \in behind'
<1> SUFFICES Kept
  BY <1>0 DEF QueryInOrder, Wanted
<1>1. ASSUME UNCHANGED <<status, position>>
      PROVE  Wanted' = Wanted
  BY <1>0, <1>1 DEF Wanted, ActiveQueue, With, Row
<1>2. ASSUME UNCHANGED <<status, position, announced, since, fetch>>, UNCHANGED <<loaded, opened, socket, behind>>
      PROVE  Kept
  BY <1>0, <1>1, <1>2
<1>3. ASSUME UNCHANGED <<fetch, loaded, opened, socket, behind>>, announced' = FALSE,
             since' = IF since = "read" THEN "written" ELSE since
      PROVE  Kept
  BY <1>0, <1>3
<1>4. CASE Serve(Targets[page]) /\ UNCHANGED <<page, screen>>
  <2>1. UNCHANGED <<position, fetch, loaded, opened, socket, behind>>
    BY <1>4, ServeSteps DEF screen
  <2>2. CASE \E e \in Entries, s \in Statuses : RequestBegins(e, s)
    BY <1>3, <2>1, <2>2 DEF RequestBegins
  <2>3. CASE UNCHANGED <<status, announced, since, work, scope>>
    BY <1>2, <2>1, <2>3
  <2>4. QED
    BY <1>4, <2>2, <2>3, ServeSteps
<1>5. CASE Renumber /\ UNCHANGED <<page, screen>>
  <2>1. announced' = announced /\ announced = FALSE
    BY <1>0, <1>5 DEF Renumber, ServiceInOrder
  <2>2. QED
    BY <1>3, <1>5, <2>1 DEF Renumber, Touched, screen
<1>6. CASE (RejectEstimates \/ Claim \/ ClearKey) /\ UNCHANGED <<page, screen>>
  BY <1>2, <1>6 DEF RejectEstimates, Claim, ClearKey, screen
<1>7. CASE Broadcasting
  <2>1. /\ since' = IF since = "written" THEN "broadcast" ELSE since
        /\ UNCHANGED <<status, position, fetch, loaded, opened, socket>>
        /\ behind' = IF opened /\ socket # "up" THEN behind \cup {"lost"} ELSE behind
    BY <1>7 DEF Broadcasting, Publish
  <2>2. page = "tracker" /\ fetch.at = "read" => opened /\ socket # "up"
    BY <1>0 DEF TrackerInOrder
  <2>3. QED
    BY <1>0, <1>1, <2>1, <2>2
<1>8. CASE OpenPage
  <2>1. /\ ~opened /\ opened' = TRUE /\ fetch' = [fetch EXCEPT !.at = "asked"]
        /\ UNCHANGED <<status, position, announced, since, behind, loaded>>
    BY <1>8 DEF OpenPage, Ask, server
  <2>2. since = "broadcast" /\ fetch'.at = "asked"
    BY <1>0, <2>1 DEF ScreensTypeOK, GatewayTypeOK
  <2>3. QED
    BY <1>0, <2>1, <2>2
<1>9. CASE QueryRuns /\ UNCHANGED <<page, screen>>
  <2>1. /\ fetch.at = "asked" /\ fetch' = [at |-> "read", list |-> Wanted] /\ since' = "read"
        /\ UNCHANGED <<status, position, announced, loaded, opened, socket, behind>>
    BY <1>9 DEF QueryRuns, Read, Wanted, server, screen
  <2>2. fetch'.at = "read" /\ fetch'.list = Wanted
    BY <2>1
  <2>3. QED
    BY <1>0, <1>1, <2>1, <2>2
<1>10. CASE QueryAnswered
  BY <1>0, <1>10 DEF QueryAnswered, NoFetch
<1>11. CASE QueryFails
  BY <1>0, <1>11 DEF QueryFails, NoFetch
<1>12. CASE AskAgain
  <2>1. /\ opened /\ fetch.at = "none" /\ fetch' = [fetch EXCEPT !.at = "asked"]
        /\ UNCHANGED <<status, position, announced, since, behind, loaded, opened, socket>>
    BY <1>12 DEF AskAgain, Ask, server, screen
  <2>2. since = "broadcast" /\ fetch'.at = "asked"
    BY <1>0, <2>1 DEF ScreensTypeOK, GatewayTypeOK
  <2>3. QED
    BY <1>0, <2>1, <2>2
<1>13. CASE Connect \/ JoinEntry \/ Disconnect
  <2>1. /\ UNCHANGED <<status, position, announced, since, fetch, loaded, opened>>
        /\ socket # "none" \/ socket' = socket
        /\ behind \subseteq behind'
    BY <1>13 DEF Connect, JoinEntry, JoinEntryRoom, Disconnect, server, screen
  <2>2. QED
    BY <1>0, <1>1, <2>1
<1>14. CASE Receive
  <2>1. /\ UNCHANGED <<status, position, announced, since, fetch, loaded, opened, socket>> /\ inbox # <<>>
    BY <1>14 DEF Receive, server
  <2>2. page = "tracker" => fetch.at # "read"
    BY <2>1 DEF TrackerInOrder
  <2>3. QED
    BY <1>0, <1>1, <2>1, <2>2
<1>15. CASE Staff
  <2>1. /\ UNCHANGED <<status, position, announced, since, fetch, loaded, opened, socket>>
        /\ page = "tracker" => behind' = behind
    <3>1. CASE ClickSucceeds
      BY <3>1 DEF ClickSucceeds, server, TrackerInOrder
    <3>2. CASE Staff /\ ~ClickSucceeds
      BY <3>2 DEF Staff, CallNext, StartServing, SkipToken, CompleteCurrent, Click, ClickFails, ClickLost,
                  server, screen
    <3>3. QED
      BY <1>15, <3>1, <3>2
  <2>2. QED
    BY <1>0, <1>1, <2>1
<1>16. CASE UNCHANGED vars
  BY <1>2, <1>16 DEF vars, server, network, screen
<1> HIDE DEF Kept
<1>17. CASE Service
  BY <1>4, <1>5, <1>6, <1>7, <1>17 DEF Service
<1>18. QED
  BY <1>8, <1>9, <1>10, <1>11, <1>12, <1>13, <1>14, <1>15, <1>16, <1>17 DEF Next, Query, Connection

\* No list between two messages, as messages are added and taken.
LEMMA NoListBefore ==
  ASSUME Extended, NEW i, NEW k, NoListBetween(i, k)'
  PROVE  NoListBetween(i, k)
<1>1. \A j \in DOMAIN inbox' : i < j /\ j < k => inbox'[j].type # "QUEUE_UPDATED"
  BY DEF NoListBetween
<1>2. QED
  BY <1>1 DEF Extended, NoListBetween

LEMMA NoListShifted ==
  ASSUME GatewayTypeOK, inbox # <<>>, inbox' = Tail(inbox), NEW i \in Nat, NEW k \in Nat,
         NoListBetween(i, k)'
  PROVE  NoListBetween(i + 1, k + 1)
<1>1. /\ inbox \in Seq(Messages) /\ Len(inbox) \in Nat /\ DOMAIN inbox = 1..Len(inbox)
      /\ Len(inbox') = Len(inbox) - 1 /\ DOMAIN inbox' = 1..(Len(inbox) - 1)
  <2>1. inbox \in Seq(Messages)
    BY DEF GatewayTypeOK
  <2>2. Tail(inbox) \in Seq(Messages) /\ Len(Tail(inbox)) = Len(inbox) - 1
    BY <2>1, HeadTailProperties
  <2>3. QED
    BY <2>1, <2>2
<1>2. SUFFICES ASSUME NEW j \in DOMAIN inbox, i + 1 < j, j < k + 1
               PROVE  inbox[j].type # "QUEUE_UPDATED"
  BY DEF NoListBetween
<1>3. j - 1 \in DOMAIN inbox' /\ i < j - 1 /\ j - 1 < k /\ (j - 1) + 1 = j
  BY <1>1, <1>2
<1>4. inbox'[j - 1] = inbox[j]
  BY <1>3, Received
<1>5. \A l \in DOMAIN inbox' : i < l /\ l < k => inbox'[l].type # "QUEUE_UPDATED"
  BY DEF NoListBetween
<1>6. QED
  BY <1>3, <1>4, <1>5

LEMMA Quiet ==
  ASSUME inbox' = inbox
  PROVE  /\ ListComing' = ListComing
         /\ \A i, k : NoListBetween(i, k)' = NoListBetween(i, k)
BY DEF ListComing, ListIn, NoListBetween

LEMMA PublishedStays ==
  ASSUME UNCHANGED <<status, position, scope>>
  PROVE  /\ Published' = Published /\ ActiveQueue' = ActiveQueue /\ Line' = Line
         /\ \A e : Row(e)' = Row(e)
BY DEF Published, ActiveQueue, Line, Queued, With, RowsOf, Row

\* A broadcast that is received or sent, and what it says of an entry.
LastMessageTrue(i) ==
  /\ inbox[i].type = "QUEUE_UPDATED" => inbox[i].list = Published
  /\ inbox[i].type = "NOW_SERVING_CHANGED" => inbox[i].row = Row(inbox[i].entry)

LEMMA NotificationOnly ==
  ASSUME NEW about
  PROVE  Notification(about).type = "NOTIFICATION" /\ Notification(about).about = about
         /\ Notification(about).position = position[Me]
BY DEF Notification

\* The end of the inbox when notifications are sent.
LEMMA NoticesSent ==
  ASSUME GatewayTypeOK, Claim \/ ClearKey
  PROVE  /\ UNCHANGED <<status, position, scope, announced, socket, inRoom>>
         /\ Extended
         /\ \/ inbox' = inbox
            \/ \E about \in {"POSITION_UPDATE", "NEXT_IN_LINE", "NOW_SERVING"} :
                 /\ inRoom /\ socket = "up"
                 /\ inbox' = Append(inbox, Notification(about))
                 /\ \/ Claim /\ about # "NOW_SERVING" /\ Me \in work.moved
                    \/ ClearKey /\ about = "NOW_SERVING" /\ work.target = "CALLED" /\ work.entry = Me
<1>0. inbox \in Seq(Messages) /\ position[Me] \in 0..LastEntry
  BY EntriesAreNat DEF GatewayTypeOK
<1>1. \A about \in {"POSITION_UPDATE", "NEXT_IN_LINE", "NOW_SERVING"} : Notification(about) \in Messages
  BY <1>0 DEF Notification, Messages
<1>2. inbox' = inbox => Extended
  BY <1>0 DEF Extended
<1>3. ASSUME NEW about \in {"POSITION_UPDATE", "NEXT_IN_LINE", "NOW_SERVING"},
             NEW b, b = <<Notification(about)>> \/ b = <<>>, Deliver(NoMessage, b)
      PROVE  /\ Extended
             /\ \/ inbox' = inbox
                \/ /\ inRoom /\ socket = "up" /\ b = <<Notification(about)>>
                   /\ inbox' = Append(inbox, Notification(about))
  <2>1. \/ inbox' = inbox
        \/ /\ inRoom /\ socket = "up" /\ b = <<Notification(about)>>
           /\ inbox' = Append(inbox, Notification(about))
    BY <1>1, <1>3, NoticeAppended
  <2>2. b \in Seq(Messages) /\ \A k \in DOMAIN b : b[k].type = "NOTIFICATION"
    <3>1. CASE b = <<Notification(about)>>
      BY <3>1, NoticeSent
    <3>2. CASE b = <<>>
      BY <3>2
    <3>3. QED
      BY <1>3, <3>1, <3>2
  <2>3. Extended
    BY <1>3, <2>2, NoticeExtends
  <2>4. QED
    BY <2>1, <2>3
<1>4. CASE Claim
  <2> DEFINE b == CASE Me \in Heads \ notified     -> <<Notification("NEXT_IN_LINE")>>
                    [] Me \in work.moved \ Heads   -> <<Notification("POSITION_UPDATE")>>
                    [] OTHER                       -> NoMessage
  <2>1. Deliver(NoMessage, b) /\ UNCHANGED <<status, position, scope, announced, socket, inRoom>>
    BY <1>4 DEF Claim
  <2>2. \/ b = <<Notification("NEXT_IN_LINE")>> /\ Me \in work.moved
        \/ b = <<Notification("POSITION_UPDATE")>> /\ Me \in work.moved
        \/ b = <<>>
    BY DEF NoMessage, Heads
  <2> HIDE DEF b
  <2>3. \A about : <<Notification(about)>> # <<>>
    OBVIOUS
  <2>4. CASE b = <<Notification("NEXT_IN_LINE")>> /\ Me \in work.moved
    BY <1>3, <1>4, <2>1, <2>4
  <2>5. CASE b = <<Notification("POSITION_UPDATE")>> /\ Me \in work.moved
    BY <1>3, <1>4, <2>1, <2>5
  <2>6. CASE b = <<>>
    BY <1>3, <2>1, <2>3, <2>6
  <2>7. QED
    BY <2>2, <2>4, <2>5, <2>6
<1>5. CASE ClearKey
  <2> DEFINE b == IF work.target = "CALLED" /\ work.entry = Me THEN <<Notification("NOW_SERVING")>>
                  ELSE NoMessage
  <2>1. Deliver(NoMessage, b) /\ UNCHANGED <<status, position, scope, announced, socket, inRoom>>
    BY <1>5 DEF ClearKey
  <2>2. \/ b = <<Notification("NOW_SERVING")>> /\ work.target = "CALLED" /\ work.entry = Me
        \/ b = <<>>
    BY DEF NoMessage
  <2> HIDE DEF b
  <2>3. \A about : <<Notification(about)>> # <<>>
    OBVIOUS
  <2>4. CASE b = <<Notification("NOW_SERVING")>> /\ work.target = "CALLED" /\ work.entry = Me
    BY <1>3, <1>5, <2>1, <2>4
  <2>5. CASE b = <<>>
    BY <1>3, <2>1, <2>3, <2>5
  <2>6. QED
    BY <2>2, <2>4, <2>5
<1>6. QED
  BY <1>4, <1>5

LEMMA LastListStaysPublished ==
  ASSUME ScreensTypeOK, TrackerInOrder, ServiceInOrder, QueryInOrder, LastListIsPublished, [Next]_vars
  PROVE  LastListIsPublished'
<1>0. /\ GatewayTypeOK /\ announced \in BOOLEAN /\ inbox \in Seq(Messages) /\ Len(inbox) \in Nat
      /\ DOMAIN inbox = 1..Len(inbox)
      /\ socket # "up" => inbox = <<>>
      /\ announced => \A i \in DOMAIN inbox : NoListBetween(i, Len(inbox) + 1) => LastMessageTrue(i)
  <2>1. GatewayTypeOK
    BY DEF ScreensTypeOK
  <2>2. inbox \in Seq(Messages) /\ announced \in BOOLEAN
    BY <2>1 DEF GatewayTypeOK
  <2>3. QED
    BY <2>1, <2>2 DEF LastListIsPublished, LastMessageTrue
<1> DEFINE Kept == /\ socket' # "up" => inbox' = <<>>
                   /\ announced' => \A i \in DOMAIN inbox' :
                        NoListBetween(i, Len(inbox) + 1)' => LastMessageTrue(i)'
<1> SUFFICES Kept
  BY DEF LastListIsPublished, LastMessageTrue
<1>1. ASSUME UNCHANGED <<status, position, scope, announced, inbox>>, socket' # "up" => inbox' = <<>>
      PROVE  Kept
  BY <1>0, <1>1, PublishedStays DEF LastMessageTrue, NoListBetween
<1>2. ASSUME inbox' = inbox, socket' = socket, announced' = FALSE
      PROVE  Kept
  BY <1>0, <1>2
<1>3. CASE Serve(Targets[page])
  <2>1. CASE \E e \in Entries, s \in Statuses : RequestBegins(e, s)
    BY <1>2, <1>3, <2>1, ServeSteps DEF RequestBegins
  <2>2. CASE UNCHANGED <<status, announced, since, work, scope>>
    BY <1>0, <1>1, <1>3, <2>2, ServeSteps
  <2>3. QED
    BY <1>3, <2>1, <2>2, ServeSteps
<1>4. CASE Renumber \/ RejectEstimates
  <2>1. announced = FALSE /\ announced' = announced /\ inbox' = inbox /\ socket' = socket
    BY <1>0, <1>4 DEF Renumber, RejectEstimates, ServiceInOrder
  <2>2. QED
    BY <1>2, <2>1
<1>5. CASE Claim \/ ClearKey
  <2>1. /\ UNCHANGED <<status, position, scope, announced, socket>> /\ Extended
        /\ inbox' = inbox
           \/ \E about \in {"POSITION_UPDATE", "NEXT_IN_LINE", "NOW_SERVING"} :
                socket = "up" /\ inbox' = Append(inbox, Notification(about))
    BY <1>0, <1>5, NoticesSent
  <2>2. CASE inbox' = inbox
    BY <1>0, <1>1, <2>1, <2>2
  <2>3. ASSUME NEW about \in {"POSITION_UPDATE", "NEXT_IN_LINE", "NOW_SERVING"},
               socket = "up", inbox' = Append(inbox, Notification(about))
        PROVE  Kept
    <3>1. Len(inbox') = Len(inbox) + 1 /\ inbox'[Len(inbox) + 1] = Notification(about)
      BY <1>0, <2>3
    <3>2. ASSUME announced', NEW i \in DOMAIN inbox', NoListBetween(i, Len(inbox) + 1)'
          PROVE  LastMessageTrue(i)'
      <4>1. CASE i \in DOMAIN inbox
        <5>1. \A j \in DOMAIN inbox' : i < j /\ j < Len(inbox') + 1 => inbox'[j].type # "QUEUE_UPDATED"
          BY <3>2 DEF NoListBetween
        <5>2. \A j \in DOMAIN inbox : j \in DOMAIN inbox' /\ inbox'[j] = inbox[j] /\ j < Len(inbox') + 1
          BY <1>0, <2>1, <3>1 DEF Extended
        <5>3. NoListBetween(i, Len(inbox) + 1)
          BY <5>1, <5>2 DEF NoListBetween
        <5>4. LastMessageTrue(i) /\ inbox'[i] = inbox[i]
          BY <1>0, <2>1, <3>2, <4>1, <5>2, <5>3
        <5>5. QED
          BY <2>1, <5>4, PublishedStays DEF LastMessageTrue
      <4>2. CASE i \notin DOMAIN inbox
        <5>1. i = Len(inbox) + 1
          BY <1>0, <3>1, <4>2, <2>1 DEF Extended
        <5>2. inbox'[i].type = "NOTIFICATION"
          BY <3>1, <5>1, NotificationOnly
        <5>3. QED
          BY <5>2 DEF LastMessageTrue
      <4>3. QED
        BY <4>1, <4>2
    <3>3. QED
      BY <2>1, <2>3, <3>2
  <2>4. QED
    BY <2>1, <2>2, <2>3
<1>6. CASE Broadcasting
  <2>0. Publish /\ UNCHANGED <<status, position, scope, socket>>
    BY <1>6 DEF Broadcasting, Publish
  <2>1. CASE socket # "up"
    BY <1>0, <2>0, <2>1, PublishSends
  <2>2. CASE socket = "up"
    <3> DEFINE n == Len(inbox) + 1
    <3>1. /\ Extended /\ n \in DOMAIN inbox' /\ inbox'[n] = QueueUpdated(Published)
          /\ \A i \in DOMAIN inbox' : n < i =>
               \/ \E e \in DOMAIN Published : inbox'[i] = NowServingChanged(e, Published[e])
               \/ inbox'[i] = Notification("POSITION_UPDATE")
      BY <1>0, <2>0, <2>2, PublishSends
    <3>2. inbox' \in Seq(Messages) /\ DOMAIN inbox' = 1..Len(inbox') /\ Len(inbox') \in Nat
      BY <3>1 DEF Extended
    <3> DEFINE m == Len(inbox')
    <3>3. ASSUME NEW i \in DOMAIN inbox', NoListBetween(i, Len(inbox) + 1)'
          PROVE  LastMessageTrue(i)'
      <4>1. ~(i < n)
        <5>1. i < n /\ n < m + 1 => inbox'[n].type # "QUEUE_UPDATED"
          BY <3>1, <3>3 DEF NoListBetween
        <5>2. n < m + 1
          BY <1>0, <3>1, <3>2
        <5>3. inbox'[n].type = "QUEUE_UPDATED"
          BY <3>1 DEF QueueUpdated
        <5>4. QED
          BY <5>1, <5>2, <5>3
      <4>2. CASE i = n
        <5>1. inbox'[i].type = "QUEUE_UPDATED" /\ inbox'[i].list = Published
          BY <3>1, <4>2 DEF QueueUpdated
        <5>2. QED
          BY <2>0, <5>1, PublishedStays DEF LastMessageTrue
      <4>3. CASE n < i
        <5>1. CASE inbox'[i] = Notification("POSITION_UPDATE")
          <6>1. inbox'[i].type = "NOTIFICATION"
            BY <5>1, NotificationOnly
          <6>2. QED
            BY <6>1 DEF LastMessageTrue
        <5>2. CASE \E e \in DOMAIN Published : inbox'[i] = NowServingChanged(e, Published[e])
          <6>1. PICK e \in DOMAIN Published : inbox'[i] = NowServingChanged(e, Published[e])
            BY <5>2
          <6>2. inbox'[i].type = "NOW_SERVING_CHANGED" /\ inbox'[i].entry = e /\ inbox'[i].row = Row(e)
            BY <6>1, PublishedRows DEF NowServingChanged
          <6>3. QED
            BY <2>0, <6>2, PublishedStays DEF LastMessageTrue
        <5>3. QED
          BY <3>1, <4>3, <5>1, <5>2
      <4>4. i \in Nat /\ n \in Nat
        BY <1>0, <3>2
      <4>5. QED
        BY <4>1, <4>2, <4>3, <4>4
    <3>4. QED
      BY <2>0, <2>2, <3>3
  <2>3. QED
    BY <2>1, <2>2
<1>7. CASE Query
  <2>1. CASE OpenPage
    <3>1. socket = "none" /\ UNCHANGED <<status, position, scope, announced, inbox>>
      BY <2>1 DEF OpenPage, QueryInOrder, server
    <3>2. QED
      BY <1>0, <1>1, <3>1
  <2>2. CASE QueryAnswered
    <3>1. /\ UNCHANGED <<status, position, scope, announced, inbox>>
          /\ page # "tracker" => socket' = socket
          /\ page = "tracker" => inbox = <<>>
      BY <2>2 DEF QueryAnswered, TrackerInOrder, server
    <3>2. QED
      BY <1>0, <1>1, <3>1
  <2>3. CASE QueryRuns \/ QueryFails \/ AskAgain
    <3>1. UNCHANGED <<status, position, scope, announced, inbox, socket>>
      BY <2>3 DEF QueryRuns, Read, QueryFails, AskAgain, server
    <3>2. QED
      BY <1>0, <1>1, <3>1
  <2>4. QED
    BY <1>7, <2>1, <2>2, <2>3 DEF Query
<1>8. CASE Connect \/ JoinEntry
  BY <1>0, <1>1, <1>8 DEF Connect, JoinEntry, JoinEntryRoom, server
<1>9. CASE Disconnect
  BY <1>9 DEF Disconnect
<1>10. CASE Receive
  <2>1. /\ inbox # <<>> /\ inbox' = Tail(inbox) /\ UNCHANGED <<status, position, scope, announced, socket>>
    BY <1>10 DEF Receive, server
  <2>2. socket' = "up"
    BY <1>0, <2>1
  <2>3. ASSUME announced', NEW i \in DOMAIN inbox', NoListBetween(i, Len(inbox) + 1)'
        PROVE  LastMessageTrue(i)'
    <3>1. i + 1 \in DOMAIN inbox /\ inbox'[i] = inbox[i + 1] /\ i \in Nat
      BY <1>0, <2>1, Received
    <3>2. Len(inbox') + 1 = Len(inbox)
      <4>1. Len(Tail(inbox)) = Len(inbox) - 1
        BY <1>0, <2>1, HeadTailProperties
      <4>2. QED
        BY <1>0, <2>1, <4>1
    <3>4. NoListBetween(i + 1, Len(inbox) + 1)
      <4>1. \A j \in DOMAIN inbox' : i < j => inbox'[j].type # "QUEUE_UPDATED"
        <5>1. \A j \in DOMAIN inbox' : i < j /\ j < Len(inbox') + 1 => inbox'[j].type # "QUEUE_UPDATED"
          BY <2>3 DEF NoListBetween
        <5>2. \A j \in DOMAIN inbox' : j < Len(inbox') + 1
          BY <1>0, <2>1, <3>2, Received
        <5>3. QED
          BY <5>1, <5>2
      <4>3. SUFFICES ASSUME NEW j \in DOMAIN inbox, i + 1 < j
                     PROVE  inbox[j].type # "QUEUE_UPDATED"
        BY DEF NoListBetween
      <4>4. j - 1 \in DOMAIN inbox' /\ i < j - 1 /\ (j - 1) + 1 = j
        <5>1. inbox' \in Seq(Messages)
          BY <1>0, <2>1, Received
        <5>2. DOMAIN inbox' = 1..Len(inbox')
          BY <5>1
        <5>3. QED
          BY <1>0, <3>1, <3>2, <4>3, <5>2
      <4>5. inbox'[j - 1] = inbox[j]
        BY <1>0, <2>1, <4>4, Received
      <4>6. QED
        BY <4>1, <4>4, <4>5
    <3>5. LastMessageTrue(i + 1)
      BY <1>0, <2>1, <2>3, <3>1, <3>4
    <3>6. QED
      BY <2>1, <3>1, <3>5, PublishedStays DEF LastMessageTrue
  <2>4. QED
    BY <2>2, <2>3
<1>11. CASE Staff
  <2>1. UNCHANGED <<status, position, scope, announced, inbox, socket>>
    BY <1>11 DEF Staff, CallNext, StartServing, SkipToken, CompleteCurrent, Click, ClickSucceeds,
                ClickFails, ClickLost, server
  <2>2. QED
    BY <1>0, <1>1, <2>1
<1>12. CASE UNCHANGED vars
  BY <1>0, <1>1, <1>12 DEF vars, server, network
<1> HIDE DEF Kept
<1>13. CASE Service
  BY <1>3, <1>4, <1>5, <1>6, <1>13 DEF Service
<1>14. QED
  BY <1>7, <1>8, <1>9, <1>10, <1>11, <1>12, <1>13 DEF Next, Connection

LEMMA SameRow ==
  ASSUME NEW list \in Lists, NEW e, NEW row, e \in DOMAIN list => list[e] = row
  PROVE  [list EXCEPT ![e] = row] = list
<1>1. PICK S \in SUBSET Entries : list \in [S -> Rows]
  BY DEF Lists
<1>2. QED
  BY <1>1

\* What the screen shows when no list is on its way.
Shown(list) ==
  /\ page # "tracker" /\ behind = {} => list = Published \/ list = ActiveQueue
  /\ page = "tracker" /\ "lost" \notin behind /\ Me \in DOMAIN Published => list[Me] = Row(Me)

\* A list or a call taken while the last change is announced.
LEMMA TakenInOrder ==
  ASSUME ScreensTypeOK, TrackerInOrder, LastListIsPublished, ScreenInOrder, Receive,
         announced, loaded, ~ListComing'
  PROVE  Shown(shown)'
<1> DEFINE m == Head(inbox)
<1>1. /\ GatewayTypeOK /\ shown \in Lists
      /\ inbox # <<>> /\ inbox' = Tail(inbox) /\ UNCHANGED <<status, position, scope, announced, page, loaded>>
      /\ page \in {"tracker", "liveQueue", "display"}
  BY LiveScreensAssumption DEF ScreensTypeOK, Receive, server
<1>2. m \in Messages /\ m = inbox[1] /\ 1 \in DOMAIN inbox
  BY <1>1, Received
<1>3. \A j \in DOMAIN inbox : 1 < j => inbox[j].type # "QUEUE_UPDATED"
  <2> SUFFICES ASSUME NEW j \in DOMAIN inbox, 1 < j
               PROVE  inbox[j].type # "QUEUE_UPDATED"
    OBVIOUS
  <2>1. inbox \in Seq(Messages) /\ DOMAIN inbox = 1..Len(inbox) /\ Len(inbox) \in Nat
    BY <1>1 DEF GatewayTypeOK
  <2>2. inbox' \in Seq(Messages) /\ Len(inbox') = Len(inbox) - 1
    BY <1>1, <2>1, HeadTailProperties
  <2>3. j - 1 \in DOMAIN inbox' /\ (j - 1) + 1 = j
    BY <2>1, <2>2
  <2>4. inbox'[j - 1] = inbox[j]
    BY <1>1, <2>3, Received
  <2>5. \A l \in DOMAIN inbox' : inbox'[l].type # "QUEUE_UPDATED"
    BY DEF ListComing, ListIn
  <2>6. QED
    BY <2>3, <2>4, <2>5
<1>4. LastMessageTrue(1)
  <2>1. NoListBetween(1, Len(inbox) + 1)
    BY <1>3 DEF NoListBetween
  <2>2. QED
    BY <1>2, <2>1 DEF LastListIsPublished, LastMessageTrue
<1>5. /\ Published' = Published /\ ActiveQueue' = ActiveQueue /\ Row(Me)' = Row(Me)
  BY <1>1, PublishedStays
<1>6. m.type # "QUEUE_UPDATED" => ~ListComing
  <2> SUFFICES ASSUME m.type # "QUEUE_UPDATED", NEW j \in DOMAIN inbox
               PROVE  inbox[j].type # "QUEUE_UPDATED"
    BY DEF ListComing, ListIn
  <2>1. inbox \in Seq(Messages) /\ DOMAIN inbox = 1..Len(inbox) /\ Len(inbox) \in Nat
    BY <1>1 DEF GatewayTypeOK
  <2>2. j = 1 \/ 1 < j
    BY <2>1
  <2>3. QED
    BY <1>2, <1>3, <2>2
<1>7. m.type # "QUEUE_UPDATED" => Shown(shown)
  BY <1>6 DEF ScreenInOrder, Shown
<1>8. CASE m.type = "QUEUE_UPDATED"
  <2>1. /\ m.list = Published
        /\ page # "tracker" => shown' = m.list
        /\ page = "tracker" => shown' = IF Me \in DOMAIN m.list THEN [e \in {Me} |-> m.list[Me]] ELSE shown
    BY <1>2, <1>4, <1>8 DEF Receive, ApplyList, ShowRows, LastMessageTrue
  <2> HIDE DEF m
  <2>2. Me \in DOMAIN Published => Published[Me] = Row(Me)
    BY PublishedRows
  <2>3. [e \in {Me} |-> m.list[Me]][Me] = m.list[Me]
    OBVIOUS
  <2>4. QED
    BY <1>1, <1>5, <2>1, <2>2, <2>3 DEF Shown
<1>9. CASE m.type = "NOW_SERVING_CHANGED"
  <2>1. /\ m.row = Row(m.entry) /\ m.row \in Rows /\ behind' = behind
        /\ shown' = IF page # "display" /\ m.entry \in DOMAIN shown
                      THEN [shown EXCEPT ![m.entry] = m.row] ELSE shown
    BY <1>2, <1>4, <1>9, MessageParts DEF Receive, ApplyNowServing, LastMessageTrue
  <2>2. Shown(shown)
    BY <1>7, <1>9
  <2> HIDE DEF m
  <2>3. CASE page # "tracker"
    <3> SUFFICES ASSUME behind = {}
                 PROVE  shown' = shown
      BY <1>1, <1>5, <2>1, <2>2, <2>3 DEF Shown
    <3>1. shown = Published \/ shown = ActiveQueue
      BY <2>2, <2>3 DEF Shown
    <3>2. m.entry \in DOMAIN shown => shown[m.entry] = Row(m.entry)
      <4>1. \A e \in DOMAIN ActiveQueue : ActiveQueue[e] = Row(e)
        BY DEF ActiveQueue
      <4>2. QED
        BY <3>1, <4>1, PublishedRows
    <3>3. QED
      BY <1>1, <2>1, <3>2, SameRow
  <2>4. CASE page = "tracker"
    <3> SUFFICES ASSUME "lost" \notin behind, Me \in DOMAIN Published
                 PROVE  shown'[Me] = Row(Me)
      BY <1>1, <1>5, <2>1, <2>4 DEF Shown
    <3>1. shown[Me] = Row(Me) /\ Me \in DOMAIN shown
      BY <2>2, <2>4 DEF Shown, TrackerInOrder
    <3>2. [shown EXCEPT ![m.entry] = m.row][Me] = IF Me = m.entry THEN m.row ELSE shown[Me]
      BY <1>1, <2>1, <3>1, RowReplaced
    <3>3. QED
      BY <2>1, <3>1, <3>2
  <2>5. QED
    BY <2>3, <2>4
<1>10. CASE m.type \notin {"QUEUE_UPDATED", "NOW_SERVING_CHANGED"}
  <2>1. shown' = shown /\ behind' = behind
    BY <1>10 DEF Receive, ApplyNotification
  <2>2. QED
    BY <1>1, <1>5, <1>7, <1>10, <2>1 DEF Shown
<1>11. QED
  BY <1>8, <1>9, <1>10

LEMMA ScreenStaysInOrder ==
  ASSUME ScreensTypeOK, TrackerInOrder, ServiceInOrder, QueryInOrder, LastListIsPublished, ScreenInOrder,
         [Next]_vars
  PROVE  ScreenInOrder'
<1>0. /\ GatewayTypeOK /\ announced \in BOOLEAN /\ loaded \in BOOLEAN /\ page' = page
      /\ announced /\ loaded /\ ~ListComing => Shown(shown)
  BY PageStaysTyped DEF ScreensTypeOK, GatewayTypeOK, ScreenInOrder, Shown
<1> DEFINE Kept == announced' /\ loaded' /\ ~ListComing' => Shown(shown)'
<1> SUFFICES Kept
  BY DEF ScreenInOrder, Shown
<1>1. ASSUME announced' = FALSE
      PROVE  Kept
  BY <1>1
<1>2. ASSUME UNCHANGED <<status, position, scope, announced, loaded, shown>>, behind \subseteq behind',
             ListComing' = ListComing
      PROVE  Kept
  BY <1>0, <1>2, PublishedStays DEF Shown
<1>3. CASE Serve(Targets[page]) /\ UNCHANGED <<page, screen>>
  <2>1. CASE \E e \in Entries, s \in Statuses : RequestBegins(e, s)
    BY <1>1, <2>1 DEF RequestBegins
  <2>2. CASE UNCHANGED <<status, announced, since, work, scope>>
    BY <1>2, <1>3, <2>2, ServeSteps, Quiet DEF screen
  <2>3. QED
    BY <1>3, <2>1, <2>2, ServeSteps
<1>4. CASE Renumber \/ RejectEstimates
  <2>1. announced = FALSE /\ announced' = announced
    BY <1>0, <1>4 DEF Renumber, RejectEstimates, ServiceInOrder
  <2>2. QED
    BY <1>1, <2>1
<1>5. CASE (Claim \/ ClearKey) /\ UNCHANGED <<page, screen>>
  <2>1. UNCHANGED <<status, position, scope, announced>> /\ Extended
    BY <1>0, <1>5, NoticesSent
  <2>2. ListComing => ListComing'
    BY <2>1 DEF Extended, ListComing, ListIn
  <2>3. QED
    BY <1>0, <1>5, <2>1, <2>2, PublishedStays DEF Shown, screen
<1>6. CASE Broadcasting
  <2>0. Publish
    BY <1>6 DEF Broadcasting
  <2>1. CASE socket = "up"
    <3>1. Len(inbox) + 1 \in DOMAIN inbox' /\ inbox'[Len(inbox) + 1].type = "QUEUE_UPDATED"
      BY <1>0, <2>0, <2>1, PublishSends DEF QueueUpdated
    <3>2. ListComing'
      BY <3>1 DEF ListComing, ListIn
    <3>3. QED
      BY <3>2
  <2>2. CASE socket # "up"
    <3>1. loaded' = loaded /\ (loaded => behind' = behind \cup {"lost"})
      BY <1>6, <2>2 DEF Broadcasting, QueryInOrder
    <3>2. QED
      BY <1>0, <3>1 DEF Shown
  <2>3. QED
    BY <2>1, <2>2
<1>7. CASE OpenPage \/ AskAgain \/ (QueryRuns /\ UNCHANGED <<page, screen>>)
  <2>1. UNCHANGED <<status, position, scope, announced, loaded, shown, behind, inbox>>
    BY <1>7 DEF OpenPage, AskAgain, QueryRuns, Read, server, screen
  <2>2. QED
    BY <1>2, <2>1, Quiet
<1>8. CASE QueryAnswered
  <2>1. /\ fetch.at = "read" /\ shown' = fetch.list /\ UNCHANGED <<status, position, scope, announced, inbox>>
        /\ behind' = IF since # "broadcast" THEN {}
                     ELSE behind \cup (IF ListComing THEN {} ELSE {"overtaken"})
    BY <1>8 DEF QueryAnswered, ShowRows, server
  <2>2. ListComing' = ListComing /\ Published' = Published /\ ActiveQueue' = ActiveQueue
        /\ Row(Me)' = Row(Me)
    BY <2>1, Quiet, PublishedStays
  <2>3. SUFFICES ASSUME announced, ~ListComing
                 PROVE  Shown(shown)'
    BY <2>1, <2>2
  <2>4. CASE since = "broadcast"
    BY <1>0, <2>1, <2>3, <2>4 DEF Shown, QueryInOrder
  <2>5. CASE since # "broadcast"
    <3>1. fetch.list = IF page = "tracker" THEN [e \in {Me} |-> Row(e)] ELSE ActiveQueue
      BY <2>3, <2>5 DEF QueryInOrder, ScreensTypeOK, GatewayTypeOK
    <3>2. [e \in {Me} |-> Row(e)][Me] = Row(Me)
      OBVIOUS
    <3>3. QED
      BY <1>0, <2>1, <2>2, <3>1, <3>2 DEF Shown
  <2>6. QED
    BY <2>4, <2>5
<1>9. CASE QueryFails
  <2>1. /\ fetch.at # "none" /\ behind' = behind \cup {"unanswered"}
        /\ UNCHANGED <<status, position, scope, announced, inbox, loaded, shown>>
    BY <1>9 DEF QueryFails, server
  <2>2. QED
    BY <1>2, <2>1, Quiet
<1>10. CASE Connect \/ JoinEntry
  <2>1. UNCHANGED <<status, position, scope, announced, loaded, shown, behind, inbox>>
    BY <1>10 DEF Connect, JoinEntry, JoinEntryRoom, server, screen
  <2>2. QED
    BY <1>2, <2>1, Quiet
<1>11. CASE Disconnect
  <2>1. /\ UNCHANGED <<status, position, scope, announced, loaded, shown>>
        /\ behind' = IF ListComing THEN behind \cup {"lost"} ELSE behind
    BY <1>11 DEF Disconnect, server
  <2>2. CASE ListComing
    BY <1>0, <2>1, <2>2 DEF Shown
  <2>3. CASE ~ListComing
    BY <1>0, <2>1, <2>3, PublishedStays DEF Shown
  <2>4. QED
    BY <2>2, <2>3
<1>12. CASE Receive
  <2>1. announced' = announced /\ loaded' = loaded
    BY <1>12 DEF Receive, server
  <2>2. QED
    BY <1>0, <1>12, <2>1, TakenInOrder
<1>13. CASE ClickSucceeds
  <2>1. /\ UNCHANGED <<status, position, scope, announced, inbox, loaded>> /\ page # "tracker"
        /\ \/ UNCHANGED <<shown, behind>>
           \/ shown' = cache' /\ behind' = IF cache' = shown \/ ListComing THEN behind
                                           ELSE behind \cup {"reverted"}
    BY <1>13 DEF ClickSucceeds, ShowRows, server, TrackerInOrder
  <2>2. ListComing' = ListComing
    BY <2>1, Quiet
  <2>3. CASE shown' = shown /\ behind' = behind
    BY <1>2, <2>1, <2>2, <2>3
  <2>4. CASE behind' = behind \cup {"reverted"}
    BY <1>0, <2>1, <2>4 DEF Shown
  <2>5. CASE ListComing
    BY <2>2, <2>5
  <2>6. QED
    BY <2>1, <2>3, <2>4, <2>5
<1>14. CASE Staff /\ ~ClickSucceeds
  <2>1. UNCHANGED <<status, position, scope, announced, loaded, shown, behind, inbox>>
    BY <1>14 DEF Staff, CallNext, StartServing, SkipToken, CompleteCurrent, Click, ClickFails, ClickLost,
                 server, screen
  <2>2. QED
    BY <1>2, <2>1, Quiet
<1>15. CASE UNCHANGED vars
  <2>1. UNCHANGED <<status, position, scope, announced, loaded, shown, behind, inbox>>
    BY <1>15 DEF vars, server, network, screen
  <2>2. QED
    BY <1>2, <2>1, Quiet
<1> HIDE DEF Kept
<1>16. CASE Service
  BY <1>3, <1>4, <1>5, <1>6, <1>16 DEF Service
<1>17. QED
  BY <1>7, <1>8, <1>9, <1>10, <1>11, <1>12, <1>13, <1>14, <1>15, <1>16 DEF Next, Query, Connection

-----------------------------------------------------------------------------
(* The notifications.                                                      *)

Notices == \A i \in DOMAIN inbox : inbox[i].type = "NOTIFICATION" => NoticeInOrder(i)

\* Nothing comes in, and the tracker is as it was.
LEMMA NoticesKept ==
  ASSUME Notices, UNCHANGED <<page, inbox>>, page = "tracker" => shown' = shown,
         "lost" \notin behind' => "lost" \notin behind
  PROVE  Notices'
<1> SUFFICES ASSUME NEW i \in DOMAIN inbox, inbox[i].type = "NOTIFICATION"
             PROVE  NoticeInOrder(i)'
  BY DEF Notices
<1>1. NoticeInOrder(i) /\ \A j, k : NoListBetween(j, k)' = NoListBetween(j, k)
  BY Quiet DEF Notices
<1>2. shown' = shown
  BY <1>1 DEF NoticeInOrder
<1>3. QED
  BY <1>1, <1>2 DEF NoticeInOrder

\* A message is taken: the list before a notification is shown by then.
LEMMA NoticesTaken ==
  ASSUME ScreensTypeOK, TrackerInOrder, Notices, Receive
  PROVE  Notices'
<1> DEFINE m == Head(inbox)
<1>1. /\ GatewayTypeOK /\ shown \in Lists /\ inbox # <<>> /\ inbox' = Tail(inbox) /\ page' = page
  BY DEF ScreensTypeOK, Receive
<1>2. m = inbox[1] /\ inbox' \in Seq(Messages) /\ DOMAIN inbox' = 1..Len(inbox') /\ Len(inbox') \in Nat
  <2>1. m = inbox[1] /\ inbox' \in Seq(Messages)
    BY <1>1, Received
  <2>2. QED
    BY <2>1
<1> SUFFICES ASSUME NEW i \in DOMAIN inbox', inbox'[i].type = "NOTIFICATION"
             PROVE  NoticeInOrder(i)'
  BY DEF Notices
<1>3. /\ i + 1 \in DOMAIN inbox /\ inbox'[i] = inbox[i + 1] /\ i \in Nat /\ i >= 1
      /\ NoticeInOrder(i + 1)
  <2>1. i + 1 \in DOMAIN inbox /\ inbox'[i] = inbox[i + 1] /\ i \in Nat /\ i >= 1
    BY <1>1, <1>2, Received
  <2>2. QED
    BY <2>1 DEF Notices
<1>4. ASSUME NEW j \in 1..(i - 1), NoListBetween(j, i)'
      PROVE  /\ inbox'[j].type = "QUEUE_UPDATED" => Me \in DOMAIN inbox'[j].list
             /\ \A row \in Rows : Tells(inbox'[j], row) => Agrees(row, inbox'[i])
  <2>1. j \in DOMAIN inbox' /\ j \in Nat /\ j + 1 \in 1..((i + 1) - 1)
    BY <1>2, <1>3
  <2>2. inbox'[j] = inbox[j + 1]
    BY <1>1, <2>1, Received
  <2>3. NoListBetween(j + 1, i + 1)
    BY <1>1, <1>3, <1>4, <2>1, NoListShifted
  <2>4. QED
    BY <1>3, <2>1, <2>2, <2>3 DEF NoticeInOrder
<1>5. ASSUME NoListBetween(0, i)', "lost" \notin behind'
      PROVE  Agrees(shown'[Me], inbox'[i])
  <2>1. 1 \in 1..((i + 1) - 1) /\ 0 \in Nat /\ 0 + 1 = 1
    BY <1>3
  <2>2. NoListBetween(1, i + 1)
    BY <1>1, <1>3, <1>5, <2>1, NoListShifted
  <2>3. /\ m.type = "QUEUE_UPDATED" => Me \in DOMAIN m.list
        /\ \A row \in Rows : Tells(m, row) => Agrees(row, inbox[i + 1])
    BY <1>2, <1>3, <2>1, <2>2 DEF NoticeInOrder
  <2>4. page = "tracker" /\ Me \in DOMAIN shown
    BY <1>1, <1>3 DEF NoticeInOrder, TrackerInOrder
  <2>5. shown' \in Lists /\ Me \in DOMAIN shown' /\ (shown'[Me] = shown[Me] \/ Tells(m, shown'[Me]))
    BY <2>4, TicketShown, MessageShown
  <2>6. shown'[Me] \in Rows
    BY <2>5, ListRows
  <2>7. CASE m.type = "QUEUE_UPDATED"
    <3>1. shown' = IF Me \in DOMAIN m.list THEN [e \in {Me} |-> m.list[Me]] ELSE shown
      BY <2>4, <2>7 DEF Receive, ApplyList
    <3>2. shown'[Me] = m.list[Me]
      BY <2>3, <2>7, <3>1
    <3>3. Tells(m, shown'[Me])
      BY <2>3, <2>7, <3>2 DEF Tells
    <3>4. QED
      BY <1>3, <2>3, <2>6, <3>3
  <2>8. CASE m.type # "QUEUE_UPDATED"
    <3>1. behind' = behind
      BY <2>8 DEF Receive, ApplyNowServing, ApplyNotification
    <3>2. NoListBetween(0, i + 1)
      <4>1. inbox \in Seq(Messages)
        BY <1>1 DEF GatewayTypeOK
      <4>2. \A j \in DOMAIN inbox : j = 1 \/ 1 < j
        BY <4>1
      <4>3. QED
        BY <1>2, <2>2, <2>8, <4>2 DEF NoListBetween
    <3>3. Agrees(shown[Me], inbox[i + 1])
      BY <1>3, <1>5, <3>1, <3>2 DEF NoticeInOrder
    <3>4. QED
      BY <1>3, <2>3, <2>5, <2>6, <3>3
  <2>9. QED
    BY <2>7, <2>8
<1>6. QED
  BY <1>1, <1>3, <1>4, <1>5 DEF NoticeInOrder

\* A notification that was on its way before others were sent.
LEMMA OldNotice ==
  ASSUME GatewayTypeOK, Extended, Notices, UNCHANGED <<page, shown, behind>>,
         NEW i \in DOMAIN inbox, inbox'[i].type = "NOTIFICATION"
  PROVE  NoticeInOrder(i)'
<1>1. inbox'[i] = inbox[i] /\ NoticeInOrder(i)
  BY DEF Extended, Notices
<1>2. \A j \in 1..(i - 1) : j \in DOMAIN inbox
  <2>1. inbox \in Seq(Messages)
    BY DEF GatewayTypeOK
  <2>2. QED
    BY <2>1
<1>3. \A j \in 1..(i - 1) : inbox'[j] = inbox[j]
  BY <1>2 DEF Extended
<1>4. \A j : NoListBetween(j, i)' => NoListBetween(j, i)
  BY NoListBefore
<1>5. QED
  BY <1>1, <1>3, <1>4 DEF NoticeInOrder

\* A notification of a new number goes out behind the list with that number.
LEMMA NoticesBroadcast ==
  ASSUME ScreensTypeOK, ServiceInOrder, inRoom => page = "tracker", Notices, Broadcasting
  PROVE  Notices'
<1>1. /\ GatewayTypeOK /\ Publish /\ work.at = "publish"
      /\ UNCHANGED <<status, position, scope, page, shown>>
      /\ behind' = IF opened /\ socket # "up" THEN behind \cup {"lost"} ELSE behind
  BY DEF ScreensTypeOK, Broadcasting, Publish
<1>2. CASE socket # "up"
  <2>1. inbox' = inbox /\ ("lost" \notin behind' => "lost" \notin behind)
    BY <1>1, <1>2, PublishSends
  <2>2. QED
    BY <1>1, <2>1, NoticesKept
<1>3. CASE socket = "up"
  <2> DEFINE n == Len(inbox) + 1
             note == Notification("POSITION_UPDATE")
  <2>1. /\ Extended /\ n \in DOMAIN inbox' /\ inbox'[n] = QueueUpdated(Published)
        /\ \A i \in DOMAIN inbox' : n < i =>
             \/ \E e \in DOMAIN Published : inbox'[i] = NowServingChanged(e, Published[e])
             \/ inRoom /\ Me \in work.moved /\ inbox'[i] = note
    BY <1>1, <1>3, PublishSends
  <2>2. inbox'[n].type = "QUEUE_UPDATED" /\ inbox'[n].list = Published
    BY <2>1 DEF QueueUpdated
  <2>3. /\ Len(inbox) \in Nat /\ DOMAIN inbox = 1..Len(inbox)
        /\ Len(inbox') \in Nat /\ DOMAIN inbox' = 1..Len(inbox')
    <3>1. inbox \in Seq(Messages) /\ inbox' \in Seq(Messages)
      BY <1>1, <2>1 DEF GatewayTypeOK, Extended
    <3>2. QED
      BY <3>1
  <2> SUFFICES ASSUME NEW i \in DOMAIN inbox', inbox'[i].type = "NOTIFICATION"
               PROVE  NoticeInOrder(i)'
    BY DEF Notices
  <2>4. CASE i \in DOMAIN inbox
    BY <1>1, <1>3, <2>1, <2>4, OldNotice
  <2>5. CASE i \notin DOMAIN inbox
    <3>1. i \in Nat /\ n \in Nat /\ n < i
      <4>1. i # n
        BY <2>2
      <4>2. QED
        BY <2>3, <2>5, <4>1
    <3>2. inRoom /\ Me \in work.moved /\ inbox'[i] = note
      <4>1. \A e : inbox'[i] # NowServingChanged(e, Published[e])
        BY DEF NowServingChanged
      <4>2. QED
        BY <2>1, <3>1, <4>1
    <3>3. Me \in DOMAIN Published /\ Published[Me] = Row(Me) /\ page' = "tracker"
      <4>1. Me \in Line
        BY <1>1, <3>2 DEF ServiceInOrder
      <4>2. QED
        BY <1>1, <3>2, <4>1, PublishedRows
    <3>4. Agrees(Row(Me), inbox'[i])
      BY <3>2, NotificationOnly DEF Agrees, Row
    <3>5. ASSUME NEW j \in 1..(i - 1), NoListBetween(j, i)'
          PROVE  /\ inbox'[j].type = "QUEUE_UPDATED" => Me \in DOMAIN inbox'[j].list
                 /\ \A row \in Rows : Tells(inbox'[j], row) => Agrees(row, inbox'[i])
      <4>1. j \in DOMAIN inbox' /\ j \in Nat
        BY <2>3
      <4>2. ~(j < n)
        BY <2>1, <2>2, <3>1, <3>5 DEF NoListBetween
      <4>3. CASE j = n
        <5>1. \A row : Tells(inbox'[j], row) => row = Row(Me)
          BY <2>2, <3>3, <4>3 DEF Tells
        <5>2. QED
          BY <2>2, <3>3, <3>4, <4>3, <5>1
      <4>4. CASE n < j
        <5>1. CASE inbox'[j] = note
          <6>1. inbox'[j].type = "NOTIFICATION"
            BY <5>1, NotificationOnly
          <6>2. QED
            BY <6>1 DEF Tells
        <5>2. CASE \E e \in DOMAIN Published : inbox'[j] = NowServingChanged(e, Published[e])
          <6>1. PICK e \in DOMAIN Published : inbox'[j] = NowServingChanged(e, Published[e])
            BY <5>2
          <6>2. inbox'[j].type = "NOW_SERVING_CHANGED" /\ inbox'[j].entry = e /\ inbox'[j].row = Published[e]
            BY <6>1 DEF NowServingChanged
          <6>3. \A row : Tells(inbox'[j], row) => row = Row(Me)
            BY <3>3, <6>2 DEF Tells
          <6>4. QED
            BY <3>4, <6>2, <6>3
        <5>3. QED
          BY <2>1, <4>1, <4>4, <5>1, <5>2
      <4>5. QED
        BY <3>1, <4>1, <4>2, <4>3, <4>4
    <3>6. ~NoListBetween(0, i)'
      <4>1. 0 < n
        BY <2>3
      <4>2. QED
        BY <2>1, <2>2, <3>1, <4>1 DEF NoListBetween
    <3>7. QED
      BY <3>3, <3>5, <3>6 DEF NoticeInOrder
  <2>6. QED
    BY <2>4, <2>5
<1>4. QED
  BY <1>2, <1>3

\* The other notifications go out while the last change is announced: the
\* last list on its way, or else the screen, has the row they tell of.
LEMMA NoticesAppended ==
  ASSUME ScreensTypeOK, TrackerInOrder, ServiceInOrder, LastListIsPublished, ScreenInOrder,
         inRoom => page = "tracker", Notices, Claim \/ ClearKey, UNCHANGED <<page, screen>>
  PROVE  Notices'
<1>1. /\ GatewayTypeOK /\ announced /\ UNCHANGED <<page, shown, behind>>
      /\ status \in [Entries -> Statuses \cup {"ABSENT"}]
  <2>1. work.at \in {"claim", "clear"}
    BY DEF Claim, ClearKey
  <2>2. QED
    BY <2>1 DEF ScreensTypeOK, GatewayTypeOK, ServiceInOrder, screen
<1>2. /\ Extended
      /\ \/ inbox' = inbox
         \/ \E about \in {"POSITION_UPDATE", "NEXT_IN_LINE", "NOW_SERVING"} :
              /\ inRoom /\ socket = "up"
              /\ inbox' = Append(inbox, Notification(about))
              /\ \/ Claim /\ about # "NOW_SERVING" /\ Me \in work.moved
                 \/ ClearKey /\ about = "NOW_SERVING" /\ work.target = "CALLED" /\ work.entry = Me
  BY <1>1, NoticesSent
<1>3. CASE inbox' = inbox
  BY <1>1, <1>3, NoticesKept
<1>4. ASSUME NEW about \in {"POSITION_UPDATE", "NEXT_IN_LINE", "NOW_SERVING"},
             inRoom, socket = "up", inbox' = Append(inbox, Notification(about)),
             \/ Claim /\ about # "NOW_SERVING" /\ Me \in work.moved
             \/ ClearKey /\ about = "NOW_SERVING" /\ work.target = "CALLED" /\ work.entry = Me
      PROVE  Notices'
  <2>0. PICK n : n = Len(inbox) + 1
    OBVIOUS
  <2>1. /\ inbox \in Seq(Messages) /\ Len(inbox) \in Nat /\ DOMAIN inbox = 1..Len(inbox)
        /\ DOMAIN inbox' = 1..n /\ inbox'[n] = Notification(about)
    <3>1. inbox \in Seq(Messages)
      BY <1>1 DEF GatewayTypeOK
    <3>2. QED
      BY <1>4, <2>0, <3>1
  <2>2. Me \in Line /\ (about = "NOW_SERVING" => status[Me] = "CALLED")
    <3>1. CASE Claim /\ about # "NOW_SERVING" /\ Me \in work.moved
      BY <3>1 DEF Claim, ServiceInOrder
    <3>2. CASE ClearKey /\ about = "NOW_SERVING" /\ work.target = "CALLED" /\ work.entry = Me
      <4>1. status[Me] = "CALLED"
        BY <3>2 DEF ClearKey, ServiceInOrder
      <4>2. scope = Barber[Me]
        BY <1>1, <3>2 DEF ClearKey, GatewayTypeOK
      <4>3. QED
        BY <4>1, <4>2, EntriesAreNat DEF Line, Queued, With, RowsOf
    <3>3. QED
      BY <1>4, <3>1, <3>2
  <2>3. page = "tracker" /\ loaded
    BY <1>4 DEF TrackerInOrder
  <2>4. Agrees(Row(Me), inbox'[n])
    BY <2>1, <2>2, NotificationOnly DEF Agrees, Row
  <2>5. Me \in DOMAIN Published /\ Published[Me] = Row(Me)
    BY <2>2, PublishedRows
  <2>6. \A j : NoListBetween(j, n)' => NoListBetween(j, n)
    BY <1>2, NoListBefore
  <2>7. ASSUME NEW j \in 1..(n - 1), NoListBetween(j, n)'
        PROVE  /\ inbox'[j].type = "QUEUE_UPDATED" => Me \in DOMAIN inbox'[j].list
               /\ \A row \in Rows : Tells(inbox'[j], row) => Agrees(row, inbox'[n])
    <3>1. j \in DOMAIN inbox /\ inbox'[j] = inbox[j]
      <4>1. j \in DOMAIN inbox
        BY <2>0, <2>1
      <4>2. QED
        BY <1>2, <4>1 DEF Extended
    <3>2. LastMessageTrue(j)
      BY <1>1, <2>0, <2>6, <2>7, <3>1 DEF LastListIsPublished, LastMessageTrue
    <3>3. \A row : Tells(inbox[j], row) => row = Row(Me)
      BY <2>5, <3>2 DEF Tells, LastMessageTrue
    <3>4. QED
      BY <2>4, <2>5, <3>1, <3>2, <3>3 DEF LastMessageTrue
  <2>8. ASSUME NoListBetween(0, n)', "lost" \notin behind'
        PROVE  Agrees(shown'[Me], inbox'[n])
    <3>1. ~ListComing
      <4>1. NoListBetween(0, n)
        BY <2>6, <2>8
      <4>2. \A j \in DOMAIN inbox : 0 < j /\ j < n
        BY <2>0, <2>1
      <4>3. QED
        BY <4>1, <4>2 DEF NoListBetween, ListComing, ListIn
    <3>2. shown[Me] = Row(Me)
      BY <1>1, <2>3, <2>5, <2>8, <3>1 DEF ScreenInOrder
    <3>3. QED
      BY <1>1, <2>4, <3>2
  <2>9. NoticeInOrder(n)'
    BY <1>1, <2>3, <2>7, <2>8 DEF NoticeInOrder
  <2>10. ASSUME NEW i \in DOMAIN inbox', inbox'[i].type = "NOTIFICATION"
         PROVE  NoticeInOrder(i)'
    <3>1. i = n \/ i \in DOMAIN inbox
      BY <2>0, <2>1
    <3>2. QED
      BY <1>1, <1>2, <2>9, <2>10, <3>1, OldNotice
  <2>11. QED
    BY <2>10 DEF Notices
<1>5. QED
  BY <1>2, <1>3, <1>4

LEMMA NoticesStayInOrder ==
  ASSUME ScreenInv, [Next]_vars
  PROVE  NoticesInOrder'
<1>0. /\ ScreensTypeOK /\ TrackerInOrder /\ ServiceInOrder /\ QueryInOrder /\ LastListIsPublished
      /\ ScreenInOrder /\ Notices /\ (inRoom => page = "tracker" /\ socket = "up") /\ page' = page
  BY PageStaysTyped DEF ScreenInv, TrackerInv, NoticesInOrder, Notices
<1> DEFINE Kept == (inRoom' => page' = "tracker" /\ socket' = "up") /\ Notices'
<1> SUFFICES Kept
  BY DEF NoticesInOrder, Notices
<1>1. ASSUME UNCHANGED <<inRoom, inbox, shown>>, socket' = socket,
             "lost" \notin behind' => "lost" \notin behind
      PROVE  Kept
  BY <1>0, <1>1, NoticesKept
<1>2. CASE (Serve(Targets[page]) \/ Renumber \/ RejectEstimates) /\ UNCHANGED <<page, screen>>
  <2>1. UNCHANGED <<inRoom, inbox, socket>>
    BY <1>0, <1>2, ServeSteps DEF Renumber, RejectEstimates
  <2>2. QED
    BY <1>1, <1>2, <2>1 DEF screen
<1>3. CASE (Claim \/ ClearKey) /\ UNCHANGED <<page, screen>>
  <2>1. inRoom' = inRoom /\ socket' = socket
    BY <1>3 DEF Claim, ClearKey
  <2>2. Notices'
    BY <1>0, <1>3, NoticesAppended
  <2>3. QED
    BY <1>0, <2>1, <2>2
<1>4. CASE Broadcasting
  <2>1. inRoom' = inRoom /\ socket' = socket
    BY <1>4 DEF Broadcasting, Publish
  <2>2. Notices'
    BY <1>0, <1>4, NoticesBroadcast
  <2>3. QED
    BY <1>0, <2>1, <2>2
<1>5. CASE OpenPage
  <2>1. ~inRoom /\ UNCHANGED <<inRoom, inbox, shown, behind>>
    BY <1>0, <1>5 DEF OpenPage, QueryInOrder
  <2>2. QED
    BY <1>0, <2>1, NoticesKept
<1>6. CASE QueryAnswered
  <2>1. /\ UNCHANGED <<inRoom, inbox>>
        /\ page = "tracker" => ~loaded
        /\ page # "tracker" => ~inRoom
    BY <1>0, <1>6 DEF QueryAnswered, TrackerInOrder
  <2>2. CASE page = "tracker"
    <3>1. inbox = <<>> /\ ~inRoom
      BY <1>0, <2>1, <2>2 DEF TrackerInOrder
    <3>2. inbox' = <<>>
      BY <2>1, <3>1
    <3>3. QED
      BY <2>1, <3>1, <3>2 DEF Notices
  <2>3. CASE page # "tracker"
    <3>1. \A i \in DOMAIN inbox : inbox[i].type # "NOTIFICATION"
      BY <1>0, <2>3 DEF Notices, NoticeInOrder
    <3>2. QED
      BY <2>1, <2>3, <3>1 DEF Notices
  <2>4. QED
    BY <2>2, <2>3
<1>7. CASE QueryFails \/ AskAgain \/ (QueryRuns /\ UNCHANGED <<page, screen>>)
  <2>1. UNCHANGED <<inRoom, inbox, shown, socket>> /\ behind \subseteq behind'
    BY <1>7 DEF QueryFails, AskAgain, QueryRuns, Read, screen
  <2>2. QED
    BY <1>1, <2>1
<1>8. CASE Connect
  <2>1. ~inRoom /\ UNCHANGED <<inRoom, inbox, shown, behind>>
    BY <1>0, <1>8 DEF Connect, screen
  <2>2. QED
    BY <1>0, <2>1, NoticesKept
<1>9. CASE JoinEntry
  <2>1. page = "tracker" /\ socket = "up" /\ UNCHANGED <<socket, inbox, shown, behind>>
    BY <1>9 DEF JoinEntry, JoinEntryRoom, screen
  <2>2. QED
    BY <1>0, <2>1, NoticesKept
<1>10. CASE Disconnect
  <2>1. inRoom' = FALSE /\ inbox' = <<>>
    BY <1>10 DEF Disconnect
  <2>2. QED
    BY <2>1 DEF Notices
<1>11. CASE Receive
  <2>1. inRoom' = inRoom /\ socket' = socket
    BY <1>11 DEF Receive
  <2>2. QED
    BY <1>0, <1>11, <2>1, NoticesTaken
<1>12. CASE Staff
  <2>1. UNCHANGED <<inRoom, inbox, socket>>
    BY <1>12 DEF Staff, CallNext, StartServing, SkipToken, CompleteCurrent, Click, ClickSucceeds,
                 ClickFails, ClickLost
  <2>2. /\ page = "tracker" => shown' = shown
        /\ "lost" \notin behind' => "lost" \notin behind
    <3>1. CASE ClickSucceeds
      <4>1. behind \subseteq behind'
        BY <3>1 DEF ClickSucceeds
      <4>2. QED
        BY <1>0, <3>1, <4>1 DEF ClickSucceeds, TrackerInOrder
    <3>2. CASE Staff /\ ~ClickSucceeds
      BY <3>2 DEF Staff, CallNext, StartServing, SkipToken, CompleteCurrent, Click, ClickFails, ClickLost,
                  screen
    <3>3. QED
      BY <1>12, <3>1, <3>2
  <2>3. QED
    BY <1>0, <2>1, <2>2, NoticesKept
<1>13. CASE UNCHANGED vars
  <2>1. UNCHANGED <<inRoom, inbox, shown, socket, behind>>
    BY <1>13 DEF vars, network, screen
  <2>2. QED
    BY <1>1, <2>1
<1> HIDE DEF Kept
<1>14. CASE Service
  BY <1>2, <1>3, <1>4, <1>14 DEF Service
<1>15. QED
  BY <1>5, <1>6, <1>7, <1>8, <1>9, <1>10, <1>11, <1>12, <1>13, <1>14 DEF Next, Query, Connection

LEMMA ScreenStays ==
  ASSUME ScreenInv, [Next]_vars
  PROVE  ScreenInv'
<1>1. /\ TrackerInv /\ ScreensTypeOK /\ TrackerInOrder /\ ServiceInOrder /\ QueryInOrder
      /\ LastListIsPublished /\ ScreenInOrder
  BY DEF ScreenInv, TrackerInv
<1>2. TrackerInv' /\ NoticesInOrder'
  BY <1>1, TrackerStays, NoticesStayInOrder
<1>3. ServiceInOrder' /\ QueryInOrder'
  BY <1>1, ServiceStaysInOrder, QueryStaysInOrder
<1>4. LastListIsPublished' /\ ScreenInOrder'
  BY <1>1, LastListStaysPublished, ScreenStaysInOrder
<1>5. QED
  BY <1>2, <1>3, <1>4 DEF ScreenInv

LEMMA ScreenStarts ==
  ASSUME Init
  PROVE  ScreenInv
<1>1. /\ work.at = "idle" /\ socket = "none" /\ inbox = <<>> /\ ~inRoom /\ fetch.at = "none"
      /\ since = "broadcast" /\ ~opened /\ ~loaded
  BY DEF Init, GatewayInit, Idle, NoFetch
<1>2. QED
  BY <1>1, Started DEF ScreenInv, ServiceInOrder, QueryInOrder, LastListIsPublished, ScreenInOrder,
                       NoticesInOrder

\* When all is quiet the rows on a screen agree with the database, for any
\* number of entries and messages, whatever barbers and priorities they have:
\* what was published last is on its way or shown, though it may be the list of
\* one barber, and every way a screen falls behind it is one that behind names.
THEOREM QuietScreensAreCurrent == Spec => []RestingScreenIsCurrent
<1>1. Init => ScreenInv
  BY ScreenStarts
<1>2. ScreenInv /\ [Next]_vars => ScreenInv'
  BY ScreenStays
<1>3. ScreenInv => RestingScreenIsCurrent
  <2> SUFFICES ASSUME ScreenInv, Resting, announced, behind = {}
               PROVE  /\ page # "tracker" => shown = Published \/ shown = ActiveQueue
                      /\ page = "tracker" /\ Me \in DOMAIN Published => shown[Me] = Row(Me)
    BY DEF RestingScreenIsCurrent
  <2>1. ~ListComing /\ loaded /\ "lost" \notin behind
    BY DEF Resting, ListComing, ListIn
  <2>2. QED
    BY <2>1 DEF ScreenInv, ScreenInOrder
<1>4. QED
  BY <1>1, <1>2, <1>3, PTL DEF Spec

\* The number and the status a notification tells are on the tracker when it
\* arrives: the broadcast that carries them goes out before it on the same
\* connection, and no list between the two takes them back.
THEOREM ToastsTellTheScreen == Spec => []ToastsMatchScreen
<1>1. Init => ScreenInv
  BY ScreenStarts
<1>2. ScreenInv /\ [Next]_vars => ScreenInv'
  BY ScreenStays
<1>3. ScreenInv => ToastsMatchScreen
  <2> SUFFICES ASSUME ScreenInv, inbox # <<>>, Head(inbox).type = "NOTIFICATION", "lost" \notin behind
               PROVE  Agrees(shown[Me], Head(inbox))
    BY DEF ToastsMatchScreen, Agrees
  <2>1. inbox \in Seq(Messages)
    BY DEF ScreenInv, TrackerInv, ScreensTypeOK, GatewayTypeOK
  <2>2. Head(inbox) = inbox[1] /\ 1 \in DOMAIN inbox
    BY <2>1, EmptySeq
  <2>3. NoListBetween(0, 1)
    BY <2>1 DEF NoListBetween
  <2>4. QED
    BY <2>2, <2>3 DEF ScreenInv, NoticesInOrder, NoticeInOrder
<1>4. QED
  BY <1>1, <1>2, <1>3, PTL DEF Spec
=============================================================================
