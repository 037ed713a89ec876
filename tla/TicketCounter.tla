--------------------------- MODULE TicketCounter ---------------------------
(***************************************************************************)
(* The first half of joinQueue (queue.service.ts): the ticket number of a  *)
(* new queue entry.  Each shop has a counter per UTC date in Redis; a join *)
(* computes the key from its own clock, increments the counter, gives the  *)
(* key 48 hours to live if it created it, and inserts the row.  Counters   *)
(* of different shops have different keys, so one shop is modelled.        *)
(***************************************************************************)
EXTENDS Integers, FiniteSets

CONSTANTS
  Joins,           \* calls of joinQueue
  Appointments,    \* appointments a join may convert
  NoAppointment,   \* a walk-in
  LastDay,         \* bound: the days counted
  MaxFailures      \* bound: calls of Redis or PostgreSQL that fail

ASSUME TicketAssumption ==
  /\ NoAppointment \notin Appointments
  /\ LastDay \in Nat \ {0}
  /\ MaxFailures \in Nat

VARIABLES
  today,     \* the UTC date
  counter,   \* the counter of each date, 0 when the key does not exist
  expiry,    \* the date on which the key of a date runs out, 0 for never
  join,      \* what each join is doing
  failures   \* failed calls so far

vars == <<today, counter, expiry, join, failures>>

Days == 1..LastDay

Join ==
  [at          : {"idle", "incr", "expire", "create", "joined", "failed"},
   appointment : Appointments \cup {NoAppointment},
   day         : Days \cup {0},   \* the date in its counter key
   ticket      : Nat,             \* what INCR returned
   joinedOn    : Days \cup {0}]   \* the date of the row's joined_at

\* A mistaken 60 * 60 * 24 seconds.
RunsOutTomorrow(d) == d + 1

\* 60 * 60 * 48 seconds.
KeyRunsOut(d) == d + 2

InFlight(j) == join[j].at \in {"incr", "expire", "create"}

Step(j, new) == join' = [join EXCEPT ![j] = new]

-----------------------------------------------------------------------------
\* Validation is over; the date is read and INCR is sent.
Begin(j, a) ==
  /\ join[j].at = "idle"
  /\ Step(j, [join[j] EXCEPT !.at = "incr", !.day = today, !.appointment = a])
  /\ UNCHANGED <<today, counter, expiry, failures>>

\* INCR: one atomic command.
NextNumber(d) == counter[d] + 1

\* An EXPIRE that is never sent.
AlwaysCreate(n) == "create"

\* EXPIRE is sent by the join that got number 1 only.
AfterIncr(n) == IF n = 1 THEN "expire" ELSE "create"

Incr(j) ==
  /\ join[j].at = "incr"
  /\ LET n == NextNumber(join[j].day) IN
     /\ counter' = [counter EXCEPT ![join[j].day] = n]
     /\ Step(j, [join[j] EXCEPT !.at = AfterIncr(n), !.ticket = n])
  /\ UNCHANGED <<today, expiry, failures>>

\* EXPIRE.
SetExpiry(j) ==
  /\ join[j].at = "expire"
  /\ expiry' = [expiry EXCEPT ![join[j].day] = KeyRunsOut(today)]
  /\ Step(j, [join[j] EXCEPT !.at = "create"])
  /\ UNCHANGED <<today, counter, failures>>

\* The unique index on appointmentId.
Converted(a) ==
  a # NoAppointment /\ \E j \in Joins : join[j].appointment = a /\ join[j].joinedOn # 0

\* The insert.  If the appointment has a row already, joinQueue throws: the
\* number it took is used up.
Create(j) ==
  /\ join[j].at = "create"
  /\ IF Converted(join[j].appointment)
       THEN Step(j, [join[j] EXCEPT !.at = "failed"])
       ELSE Step(j, [join[j] EXCEPT !.at = "joined", !.joinedOn = today])
  /\ UNCHANGED <<today, counter, expiry, failures>>

\* A call fails: what is done stays done.
Fail(j) ==
  /\ InFlight(j)
  /\ failures < MaxFailures
  /\ failures' = failures + 1
  /\ Step(j, [join[j] EXCEPT !.at = "failed"])
  /\ UNCHANGED <<today, counter, expiry>>

\* INCR is carried out and its answer is lost.
FailAfterIncr(j) ==
  /\ join[j].at = "incr"
  /\ failures < MaxFailures
  /\ failures' = failures + 1
  /\ LET n == NextNumber(join[j].day) IN
     /\ counter' = [counter EXCEPT ![join[j].day] = n]
     /\ Step(j, [join[j] EXCEPT !.at = "failed", !.ticket = n])
  /\ UNCHANGED <<today, expiry>>

\* Bound: a call of joinQueue is answered before the second midnight.
Midnight ==
  /\ today < LastDay
  /\ \A j \in Joins : InFlight(j) => join[j].day = today
  /\ \A d \in Days : expiry[d] # today
  /\ today' = today + 1
  /\ UNCHANGED <<counter, expiry, join, failures>>

\* Redis drops a key whose time is over.
KeyExpires(d) ==
  /\ expiry[d] = today
  /\ counter' = [counter EXCEPT ![d] = 0]
  /\ expiry' = [expiry EXCEPT ![d] = 0]
  /\ UNCHANGED <<today, join, failures>>

-----------------------------------------------------------------------------
Init ==
  /\ today = 1
  /\ counter = [d \in Days |-> 0]
  /\ expiry = [d \in Days |-> 0]
  /\ join = [j \in Joins |-> [at |-> "idle", appointment |-> NoAppointment, day |-> 0,
                              ticket |-> 0, joinedOn |-> 0]]
  /\ failures = 0

Next ==
  \/ \E j \in Joins :
       \/ \E a \in Appointments \cup {NoAppointment} : Begin(j, a)
       \/ Incr(j) \/ SetExpiry(j) \/ Create(j) \/ Fail(j) \/ FailAfterIncr(j)
  \/ Midnight
  \/ \E d \in Days : KeyExpires(d)

Spec == Init /\ [][Next]_vars

-----------------------------------------------------------------------------
(* Properties.                                                             *)

TypeOK ==
  /\ today \in Days
  /\ counter \in [Days -> Nat]
  /\ expiry \in [Days -> Nat]
  /\ join \in [Joins -> Join]
  /\ failures \in 0..MaxFailures

\* Two joins that counted on the same date never hold the same number, even
\* when one of them is still under way after midnight, when keys run out and
\* when calls fail.
TicketsUnique ==
  \A i, j \in Joins :
    i # j /\ join[i].day = join[j].day /\ join[i].ticket = join[j].ticket => join[i].ticket = 0

\* A join is given its number once, by the answer to INCR, keeps it whatever
\* fails later, and no other join of that date ever had it: the counters
\* implement TicketOffice.
Given == [j \in Joins |-> IF join[j].ticket = 0 THEN <<>> ELSE <<join[j].day, join[j].ticket>>]

Office == INSTANCE TicketOffice WITH Joins <- Joins, NoTicket <- <<>>, given <- Given
TicketPromise == Office!Spec

\* A counter that will never run out is one whose first join has yet to send
\* EXPIRE, or failed before it did.
OnlyFailuresLoseExpiry ==
  \A d \in Days : counter[d] > 0 /\ expiry[d] = 0 =>
    \E j \in Joins : /\ join[j].day = d
                     /\ join[j].ticket = 1
                     /\ join[j].at \in {"expire", "failed"}

\* The inductive invariant behind TicketsUnique: numbers given out stay at or
\* below their counter until nobody counts on that date any more.
TicketsBelowCounter ==
  /\ \A j \in Joins : InFlight(j) => join[j].day \in Days /\ join[j].day >= today - 1
  /\ \A j \in Joins : join[j].day <= today
  /\ \A j \in Joins : join[j].day # 0 /\ join[j].day >= today - 1 => join[j].ticket <= counter[join[j].day]
  /\ \A j \in Joins : join[j].at \in {"idle", "incr"} => join[j].ticket = 0
  /\ \A d \in Days : expiry[d] # 0 => expiry[d] >= d + 2

IInv == TypeOK /\ TicketsBelowCounter /\ TicketsUnique

=============================================================================
