---------------------------- MODULE ShopRecords ----------------------------
(***************************************************************************)
(* The records of one shop and the calls of the API that keep them:        *)
(* barbers.service.ts, services.service.ts, appointments.service.ts,       *)
(* reports.service.ts, and joinQueue as far as it looks at a barber.  A    *)
(* call takes one step per await.  The database refuses a row that names a *)
(* missing one, refuses to delete a barber or a service that an            *)
(* appointment names, and forgets a deleted barber in the entries.         *)
(***************************************************************************)
EXTENDS QueueEngine

CONSTANTS
  Barbers,
  Services,
  People,       \* phone numbers and e-mail addresses
  Asked,        \* bound: the barbers and services that calls name
  Guests,       \* bound: the people who book
  Calls,        \* the calls that may be under way at one time
  MaxEntries,   \* bound: entries that join
  MaxBookings,  \* bound: appointments that calls insert
  LastDay,      \* bound: the days that pass
  Nobody

ASSUME ShopRecordsAssumption ==
  /\ Asked \subseteq Barbers \cup Services
  /\ Guests \subseteq People
  /\ Nobody \notin Barbers \cup Services \cup People
  /\ MaxEntries \in Nat /\ MaxBookings \in Nat /\ LastDay \in Nat

VARIABLES
  uuids,      \* the shop's ids are UUIDs
  day,        \* the server's day
  offer,      \* for each barber and service: what its row says, or none
  known,      \* for each person: who made their row in users, or none
  entries,    \* rows of queue_entries
  bookings,   \* rows of appointments
  call        \* the calls under way

records == <<offer, known, entries, bookings>>

\* paused: active, but not queueAccepting.
Offers == {"none", "hidden", "paused", "open"}

\* login: signed in with the address; visitor: came with the phone number.
Makers == {"none", "visitor", "login", "seed"}

\* Rows that calls insert have the ids <<0, n>>; served is the day of servedAt, 0 for none.
EntryRows == [id : Nat \X Nat, barber : Barbers \cup {Nobody}, status : Statuses, served : Nat]

BookingStatuses == {"PENDING", "CONFIRMED", "COMPLETED", "CANCELLED"}

BookingRows ==
  [id : Nat \X Nat, barber : Barbers, service : Services, customer : People, status : BookingStatuses]

NextId(rows) == <<0, Cardinality({r \in rows : r.id[1] = 0}) + 1>>

Counted == {"WAITING", "SERVING", "SERVED"}

\* Whether a count under a status includes the entry: of the customers who
\* were served, those since the midnight before the given day.
Counts(e, s, from) == e.status = s /\ (s = "SERVED" => e.served >= from)

\* withdrawn: what the call is about was changed since it began.  For a report,
\* from is the day it was asked on, got what it has counted, stayed the rows
\* that are as they were then, passed all that there were since.
Idle == [op |-> "none", at |-> "idle", barber |-> Nobody, service |-> Nobody, guest |-> Nobody,
         withdrawn |-> FALSE, from |-> 0, got |-> [s \in {} |-> 0], stayed |-> {}, passed |-> {}]

At(c, op, step) == call[c].op = op /\ call[c].at = step

Go(c, step) == call' = [call EXCEPT ![c].at = step]

End(c) == call' = [call EXCEPT ![c] = Idle]

Begin(c, new) == call[c] = Idle /\ call' = [call EXCEPT ![c] = new]

Offered(x, offers) == offer[x] \in offers

\* The ids that a validated input may name: the ValidationPipe of main.ts and
\* the @IsUUID of the inputs refuse all others.
Valid(x) == uuids /\ x \in Asked

\* Every call about x has it withdrawn.
Withdraw(x) ==
  call' = [c \in Calls |-> IF x \in {call[c].barber, call[c].service}
                           THEN [call[c] EXCEPT !.withdrawn = TRUE] ELSE call[c]]

-----------------------------------------------------------------------------
(* Barbers and services.                                                   *)

\* upsertBarber, with an id or without one.
UpsertBarber(b, to) ==
  /\ Valid(b) /\ to # "none"
  /\ offer' = [offer EXCEPT ![b] = to]
  /\ Withdraw(b)
  /\ UNCHANGED <<uuids, day, known, entries, bookings>>

UpsertService(s, to) ==
  /\ Valid(s) /\ to \in {"hidden", "open"}
  /\ offer' = [offer EXCEPT ![s] = to]
  /\ Withdraw(s)
  /\ UNCHANGED <<uuids, day, known, entries, bookings>>

Booked(x) == \E a \in bookings : x \in {a.barber, a.service}

\* deleteBarber and deleteService take any id.
DeleteBarber(b) ==
  /\ b \in Asked /\ offer[b] # "none" /\ ~Booked(b)
  /\ offer' = [offer EXCEPT ![b] = "none"]
  /\ entries' = {IF e.barber = b THEN [e EXCEPT !.barber = Nobody] ELSE e : e \in entries}
  /\ Withdraw(b)
  /\ UNCHANGED <<uuids, day, known, bookings>>

DeleteService(s) ==
  /\ s \in Asked /\ offer[s] # "none" /\ ~Booked(s)
  /\ offer' = [offer EXCEPT ![s] = "none"]
  /\ Withdraw(s)
  /\ UNCHANGED <<uuids, day, known, entries, bookings>>

-----------------------------------------------------------------------------
(* The queue's entries.                                                    *)

\* joinQueue looks at the barber, if one is named, then goes to Redis.
AskToJoin(c, b) ==
  /\ uuids
  /\ b # Nobody => Valid(b) /\ Offered(b, {"open"})
  /\ Begin(c, [Idle EXCEPT !.op = "join", !.at = "insert", !.barber = b])
  /\ UNCHANGED <<uuids, day, records>>

\* What a report under way sees of a change of the entries.
Watch(rows, calls) ==
  [c \in Calls |-> [calls[c] EXCEPT !.stayed = @ \cap rows,
                                    !.passed = IF calls[c].op = "report" THEN @ \cup rows ELSE @]]

\* The row is inserted, or refused when its barber is gone.
InsertEntry(c) ==
  LET b == call[c].barber
      row == [id |-> NextId(entries), barber |-> b, status |-> "WAITING", served |-> 0]
  IN /\ At(c, "join", "insert")
     /\ NextId(entries)[2] <= MaxEntries
     /\ entries' = IF b # Nobody /\ offer[b] = "none" THEN entries ELSE entries \cup {row}
     /\ call' = Watch(entries', [call EXCEPT ![c] = Idle])
     /\ UNCHANGED <<uuids, day, offer, known, bookings>>

\* updateQueueStatus, whose own steps are in QueueService.tla.
MoveEntry(e, to) ==
  LET row == [e EXCEPT !.status = to, !.served = IF to = "SERVED" THEN day ELSE @] IN
  /\ IsValidTransition(e.status, to)
  /\ entries' = (entries \ {e}) \cup {row}
  /\ call' = Watch(entries', call)
  /\ UNCHANGED <<uuids, day, offer, known, bookings>>

-----------------------------------------------------------------------------
(* Appointments.                                                           *)

\* The barber is looked up among all of the shop.
FindAnyBarber(c) ==
  /\ At(c, "book", "barber")
  /\ IF offer[call[c].barber] # "none" THEN Go(c, "service") ELSE End(c)
  /\ UNCHANGED <<uuids, day, records>>

BookAsGuest(c, b, s, g) ==
  /\ Valid(b) /\ Valid(s)
  /\ Begin(c, [Idle EXCEPT !.op = "book", !.at = "barber", !.barber = b, !.service = s, !.guest = g])
  /\ UNCHANGED <<uuids, day, records>>

FindBarber(c) ==
  /\ At(c, "book", "barber")
  /\ IF Offered(call[c].barber, {"paused", "open"}) THEN Go(c, "service") ELSE End(c)
  /\ UNCHANGED <<uuids, day, records>>

\* The service is found and the time is not past.
FindService(c) ==
  /\ At(c, "book", "service")
  /\ \/ Offered(call[c].service, {"open"}) /\ Go(c, "user")
     \/ End(c)
  /\ UNCHANGED <<uuids, day, records>>

\* The user is found and renamed, or to be created.
FindGuest(c) ==
  /\ At(c, "book", "user")
  /\ Go(c, IF known[call[c].guest] = "none" THEN "create" ELSE "insert")
  /\ UNCHANGED <<uuids, day, records>>

\* Two bookings of one new guest: the second insert throws.
CreateGuest(c) ==
  LET g == call[c].guest IN
  /\ At(c, "book", "create")
  /\ IF known[g] = "none"
       THEN known' = [known EXCEPT ![g] = "visitor"] /\ Go(c, "insert")
       ELSE End(c) /\ UNCHANGED known
  /\ UNCHANGED <<uuids, day, offer, entries, bookings>>

Bookable(b, s) == offer[b] # "none" /\ offer[s] # "none"

Book(b, s, g) ==
  bookings' = bookings \cup
    {[id |-> NextId(bookings), barber |-> b, service |-> s, customer |-> g, status |-> "PENDING"]}

InsertBooking(c) ==
  LET b == call[c].barber
      s == call[c].service
  IN /\ At(c, "book", "insert")
     /\ NextId(bookings)[2] <= MaxBookings
     /\ IF Bookable(b, s) THEN Book(b, s, call[c].guest) ELSE UNCHANGED bookings
     /\ End(c)
     /\ UNCHANGED <<uuids, day, offer, known, entries>>

\* createAppointment checks nothing but the shop.
CreateAppointment(b, s, g) ==
  /\ Valid(b) /\ Valid(s) /\ Bookable(b, s) /\ known[g] # "none"
  /\ NextId(bookings)[2] <= MaxBookings
  /\ Book(b, s, g)
  /\ UNCHANGED <<uuids, day, offer, known, entries, call>>

\* cancelAppointment, whatever the status was.
CancelAppointment(a) ==
  /\ bookings' = (bookings \ {a}) \cup {[a EXCEPT !.status = "CANCELLED"]}
  /\ UNCHANGED <<uuids, day, offer, known, entries, call>>

-----------------------------------------------------------------------------
(* dailyQueueStats: three counts sent together, then the average.  The     *)
(* server's midnight is taken before they are sent.                        *)

NewDay ==
  /\ day < LastDay
  /\ day' = day + 1
  /\ UNCHANGED <<uuids, records, call>>

\* Bound: one report at a time, as reports change nothing.
AskStats(c) ==
  /\ \A d \in Calls : call[d].op # "report"
  /\ Begin(c, [Idle EXCEPT !.op = "report", !.at = "count", !.from = day, !.stayed = entries, !.passed = entries])
  /\ UNCHANGED <<uuids, day, records>>

\* Whoever was served, on whatever day.
CountEver(s, from) == Cardinality({e \in entries : e.status = s})

CountOf(s, from) == Cardinality({e \in entries : Counts(e, s, from)})

ReadCount(c, s) ==
  /\ At(c, "report", "count")
  /\ s \notin DOMAIN call[c].got
  /\ call' = [call EXCEPT ![c].got =
                [t \in DOMAIN @ \cup {s} |-> IF t = s THEN CountOf(s, call[c].from) ELSE @[t]]]
  /\ UNCHANGED <<uuids, day, records>>

AnswerStats(c) ==
  /\ At(c, "report", "count")
  /\ DOMAIN call[c].got = Counted
  /\ End(c)
  /\ UNCHANGED <<uuids, day, records>>

-----------------------------------------------------------------------------

\* A call stops where Redis or the database fails.
FailCall(c) ==
  /\ call[c] # Idle
  /\ End(c)
  /\ UNCHANGED <<uuids, day, records>>

Desk ==
  \/ \E b \in Barbers, to \in Offers : UpsertBarber(b, to)
  \/ \E s \in Services, to \in Offers : UpsertService(s, to)
  \/ \E b \in Barbers : DeleteBarber(b)
  \/ \E s \in Services : DeleteService(s)
  \/ \E e \in entries, to \in Statuses : MoveEntry(e, to)
  \/ \E b \in Barbers, s \in Services, g \in Guests : CreateAppointment(b, s, g)
  \/ \E a \in bookings : CancelAppointment(a)
  \/ NewDay

CallStep(c) ==
  \/ \E b \in Barbers \cup {Nobody} : AskToJoin(c, b)
  \/ InsertEntry(c)
  \/ \E b \in Barbers, s \in Services, g \in Guests : BookAsGuest(c, b, s, g)
  \/ FindBarber(c) \/ FindService(c) \/ FindGuest(c) \/ CreateGuest(c) \/ InsertBooking(c)
  \/ AskStats(c) \/ AnswerStats(c)
  \/ \E s \in Counted : ReadCount(c, s)
  \/ FailCall(c)

-----------------------------------------------------------------------------
(* Properties.                                                             *)

\* A guest gets a place or an appointment only with a barber (and of a
\* service) that is offered, or that was withdrawn while the call was under
\* way: joinQueue and bookAppointmentAsGuest look before they insert.
PlacedWhereOffered ==
  [][\A c \in Calls :
       LET b == call[c].barber IN
       /\ At(c, "join", "insert") /\ entries' # entries /\ b # Nobody /\ call'[c] = Idle
            => call[c].withdrawn \/ offer[b] = "open"
       /\ At(c, "book", "insert") /\ bookings' # bookings /\ call'[c] = Idle
            => call[c].withdrawn \/ (offer[b] \in {"paused", "open"} /\ offer[call[c].service] = "open")
    ]_<<records, call>>

IdsWith(set, s, from) == {e.id : e \in {r \in set : Counts(r, s, from)}}

\* What a report counts under a status lies between the entries that were in
\* it all the while and those that were at some time (dailyQueueStats): its
\* three counts are not of one moment, but each of some moment.  Who was served
\* before the day on which the report was asked for is never in it, who was
\* served on that day always, even when midnight comes between two counts.
StatsAreOfTheWhile ==
  \A c \in Calls : \A s \in DOMAIN call[c].got :
    /\ Cardinality(IdsWith(call[c].stayed, s, call[c].from)) <= call[c].got[s]
    /\ call[c].got[s] <= Cardinality(IdsWith(call[c].passed, s, call[c].from))

-----------------------------------------------------------------------------
(* The inductive invariant behind both.                                    *)

CallRecords ==
  [op : {"none", "join", "book", "report"},
   at : {"idle", "barber", "service", "user", "create", "insert", "count"},
   barber : Barbers \cup {Nobody}, service : Services \cup {Nobody}, guest : People \cup {Nobody},
   withdrawn : BOOLEAN, from : Nat, got : UNION {[S -> 0..MaxEntries] : S \in SUBSET Counted},
   stayed : SUBSET EntryRows, passed : SUBSET EntryRows]

RecordsTypeOK ==
  /\ uuids \in BOOLEAN /\ day \in Nat
  /\ offer \in [Barbers \cup Services -> Offers]
  /\ call \in [Calls -> CallRecords]

\* What a call has looked up is so still, or it has been withdrawn.
StillOffered(c) ==
  LET b == call[c].barber
      s == call[c].service
  IN /\ call[c].op = "book" => b # Nobody /\ s # Nobody
     /\ At(c, "join", "insert") => b = Nobody \/ call[c].withdrawn \/ offer[b] = "open"
     /\ At(c, "book", "service") => call[c].withdrawn \/ offer[b] \in {"paused", "open"}
     /\ \A step \in {"user", "create", "insert"} : At(c, "book", step) =>
          call[c].withdrawn \/ (offer[b] \in {"paused", "open"} /\ offer[s] = "open")

OneRowEach(set) == \A d, e \in set : d.id = e.id => d = e

\* The entries that calls inserted are numbered, and none is deleted.
EntriesNumbered ==
  /\ IsFiniteSet(entries) /\ Cardinality(entries) <= MaxEntries
  /\ entries \subseteq EntryRows /\ OneRowEach(entries)
  /\ \A e \in entries : e.id[1] = 0 /\ e.id[2] \in 1..Cardinality(entries)

\* The report knows between which sets of entries the present ones lie; a
\* deleted barber changes rows, but neither their ids nor what they count for.
Between(c) ==
  /\ IsFiniteSet(call[c].stayed) /\ IsFiniteSet(call[c].passed) /\ OneRowEach(call[c].stayed)
  /\ IF call[c].op = "report"
       THEN \A s \in Statuses :
              /\ IdsWith(call[c].stayed, s, call[c].from) \subseteq IdsWith(entries, s, call[c].from)
              /\ IdsWith(entries, s, call[c].from) \subseteq IdsWith(call[c].passed, s, call[c].from)
       ELSE DOMAIN call[c].got = {}

ShopInv ==
  /\ RecordsTypeOK
  /\ uuids => /\ EntriesNumbered
              /\ \A c \in Calls : StillOffered(c) /\ Between(c)
              /\ StatsAreOfTheWhile
  /\ ~uuids => \A c \in Calls : call[c] = Idle
=============================================================================
