--------------------------- MODULE PrioritySorter ---------------------------
(***************************************************************************)
(* libs/queue-engine priority.sorter.ts as an algorithm on lists, and what *)
(* recalculateQueue gives it: the rows findMany returns, in whatever order *)
(* the database has them, changing as customers join and leave and as time *)
(* goes by.  QueueService uses the result in the shape of QueueEngine's    *)
(* GoesBefore; RanksOfTheService relates the two.                          *)
(***************************************************************************)
EXTENDS QueueEngine, SequencesExt

CONSTANTS
  Ids,            \* entries
  JoinTimes,      \* joined_at values; two entries may share one
  Priorities,     \* priority values
  Times,          \* the clock, in quarters of an hour
  NoTime          \* a walk-in: appointmentTime is undefined

ASSUME SorterAssumption ==
  /\ JoinTimes \subseteq Nat
  /\ Priorities \subseteq Nat
  /\ Times \subseteq Nat
  /\ NoTime \notin Times

VARIABLES
  queue,    \* the list findMany returns
  now       \* Date.now()

vars == <<queue, now>>

Sortable ==
  [id : Ids, priority : Priorities, joinedAt : JoinTimes, appointmentTime : Times \cup {NoTime}]

Distance(t) == IF t > now THEN t - now ELSE now - t

\* +2 within 15 minutes of the appointment, +1 within 30.
Boost(entry) ==
  IF entry.appointmentTime = NoTime THEN 0
  ELSE IF Distance(entry.appointmentTime) <= 1 THEN 2
  ELSE IF Distance(entry.appointmentTime) <= 2 THEN 1
  ELSE 0

EffectivePriority(entry) == entry.priority + Boost(entry)

\* A comparator that lets the last to join go first.
LatestFirst(a, b) ==
  \/ EffectivePriority(a) > EffectivePriority(b)
  \/ EffectivePriority(a) = EffectivePriority(b) /\ a.joinedAt > b.joinedAt

\* The comparator is negative.
ComesBefore(a, b) ==
  GoesBefore(EffectivePriority(a), a.joinedAt, EffectivePriority(b), b.joinedAt)

\* Array.prototype.sort is stable: equals keep their order.
Place(list, i) ==
  1 + Cardinality({j \in DOMAIN list :
        \/ ComesBefore(list[j], list[i])
        \/ j < i /\ ~ComesBefore(list[i], list[j])})

SortQueueEntries(list) ==
  [k \in DOMAIN list |-> list[CHOOSE i \in DOMAIN list : Place(list, i) = k]]

\* Counted from zero, as the index of forEach is.
PositionFromIndex(index) == index - 1

Position(index) == index

AssignPositions(sorted) ==
  [id \in {sorted[i].id : i \in DOMAIN sorted} |->
     Position(CHOOSE i \in DOMAIN sorted : sorted[i].id = id)]

\* recalculateQueue's sortable list: appointmentTime is always undefined.
ServiceSortable(list) == [i \in DOMAIN list |-> [list[i] EXCEPT !.appointmentTime = NoTime]]

ServicePositions == AssignPositions(SortQueueEntries(ServiceSortable(queue)))

-----------------------------------------------------------------------------
IdsIn(list) == {list[i].id : i \in DOMAIN list}

\* A row appears anywhere in the list: findMany has no orderBy.
Join(entry, i) ==
  /\ entry.id \notin IdsIn(queue)
  /\ queue' = InsertAt(queue, i, entry)
  /\ UNCHANGED now

Leave(i) ==
  /\ queue' = RemoveAt(queue, i)
  /\ UNCHANGED now

TimePasses ==
  /\ now + 1 \in Times
  /\ now' = now + 1
  /\ UNCHANGED queue

Init == queue = <<>> /\ now = 0

Next ==
  \/ \E entry \in Sortable, i \in 1..(Len(queue) + 1) : Join(entry, i)
  \/ \E i \in DOMAIN queue : Leave(i)
  \/ TimePasses

Spec == Init /\ [][Next]_vars

-----------------------------------------------------------------------------
(* Properties.                                                             *)

\* Sorting and numbering gives each entry of the list one place 1..n, the
\* higher priority first and, among equals, never the later one first.
SortedAndNumbered ==
  LET sorted == SortQueueEntries(queue)
      positions == AssignPositions(sorted)
  IN /\ {positions[id] : id \in IdsIn(queue)} = 1..Len(queue)
     /\ \A i, j \in DOMAIN queue : positions[queue[i].id] < positions[queue[j].id] =>
          /\ EffectivePriority(queue[i]) >= EffectivePriority(queue[j])
          /\ EffectivePriority(queue[i]) = EffectivePriority(queue[j])
               => queue[i].joinedAt <= queue[j].joinedAt

\* Where join times differ, the number recalculateQueue stores does not depend
\* on the order of the rows: it is one more than the entries ahead.
RanksOfTheService ==
  (\A i, j \in DOMAIN queue : i # j => queue[i].joinedAt # queue[j].joinedAt) =>
    \A i \in DOMAIN queue :
      ServicePositions[queue[i].id] =
        1 + Cardinality({j \in DOMAIN queue :
              GoesBefore(queue[j].priority, queue[j].joinedAt,
                         queue[i].priority, queue[i].joinedAt)})

\* The inductive invariant behind both: no entry has two rows.
SorterInv ==
  /\ queue \in Seq(Sortable) /\ now \in Nat
  /\ \A i, j \in DOMAIN queue : queue[i].id = queue[j].id => i = j
=============================================================================
