----------------------------- MODULE ShopProofs -----------------------------
(***************************************************************************)
(* Theorems about the records of a shop, ShopRecords, and the script that  *)
(* fills the demo shop, DemoSeed, for any barbers, services, people, calls *)
(* and bounds.                                                             *)
(***************************************************************************)
EXTENDS DemoSeed, FiniteSetTheorems, SequenceTheorems, TLAPS

-----------------------------------------------------------------------------
(* Counting rows by their ids.                                             *)

LEMMA RowsAndIds ==
  ASSUME NEW set, NEW s, NEW from, IsFiniteSet(set), OneRowEach(set)
  PROVE  /\ IsFiniteSet({r \in set : Counts(r, s, from)}) /\ IsFiniteSet(IdsWith(set, s, from))
         /\ Cardinality(IdsWith(set, s, from)) = Cardinality({r \in set : Counts(r, s, from)})
<1> DEFINE rs == {r \in set : Counts(r, s, from)}
           f == [r \in rs |-> r.id]
<1>1. IsFiniteSet(rs)
  BY FS_Subset
<1>2. f \in Bijection(rs, IdsWith(set, s, from))
  <2>1. \A r \in rs : f[r] = r.id /\ r.id \in IdsWith(set, s, from)
    BY DEF IdsWith
  <2>2. \A q, r \in rs : f[q] = f[r] => q = r
    BY DEF OneRowEach
  <2>3. \A i \in IdsWith(set, s, from) : \E r \in rs : f[r] = i
    BY DEF IdsWith
  <2>4. f \in [rs -> IdsWith(set, s, from)]
    BY <2>1
  <2> HIDE DEF f, rs
  <2>5. QED
    BY <2>2, <2>3, <2>4 DEF Bijection, Injection, IsInjective, Surjection
<1>3. QED
  BY <1>1, <1>2, FS_Bijection DEF ExistsBijection

LEMMA IdsAreFinite ==
  ASSUME NEW set, NEW s, NEW from, IsFiniteSet(set)
  PROVE  IsFiniteSet(IdsWith(set, s, from))
<1> DEFINE rs == {r \in set : Counts(r, s, from)}
           f == [r \in rs |-> r.id]
<1>1. IsFiniteSet(rs)
  BY FS_Subset
<1>2. f \in Surjection(rs, IdsWith(set, s, from))
  <2>1. \A r \in rs : f[r] = r.id /\ r.id \in IdsWith(set, s, from)
    BY DEF IdsWith
  <2>3. \A i \in IdsWith(set, s, from) : \E r \in rs : f[r] = i
    BY DEF IdsWith
  <2>4. f \in [rs -> IdsWith(set, s, from)]
    BY <2>1
  <2> HIDE DEF f, rs
  <2>5. QED
    BY <2>3, <2>4 DEF Surjection
<1>3. QED
  BY <1>1, <1>2, FS_Surjection

-----------------------------------------------------------------------------
(* The record of a call.                                                   *)

\* What StatsAreOfTheWhile says of one call.
StatsOf(c) ==
  \A s \in DOMAIN call[c].got :
    /\ Cardinality(IdsWith(call[c].stayed, s, call[c].from)) <= call[c].got[s]
    /\ call[c].got[s] <= Cardinality(IdsWith(call[c].passed, s, call[c].from))

LEMMA IdleCall ==
  /\ Idle \in CallRecords
  /\ Idle.op = "none" /\ Idle.at = "idle" /\ Idle.barber = Nobody /\ Idle.service = Nobody
  /\ DOMAIN Idle.got = {} /\ Idle.stayed = {} /\ Idle.passed = {}
<1> DEFINE none == [s \in {} |-> 0]
<1>1. none \in [{} -> 0..MaxEntries] /\ {} \in SUBSET Counted
  OBVIOUS
<1>2. none \in UNION {[S -> 0..MaxEntries] : S \in SUBSET Counted} /\ DOMAIN none = {}
  BY <1>1
<1>3. Idle = [op |-> "none", at |-> "idle", barber |-> Nobody, service |-> Nobody, guest |-> Nobody,
              withdrawn |-> FALSE, from |-> 0, got |-> none, stayed |-> {}, passed |-> {}]
  BY DEF Idle
<1> HIDE DEF none
<1>4. QED
  BY <1>2, <1>3 DEF CallRecords

\* An idle call has nothing to answer for.
LEMMA IdleIsQuiet ==
  ASSUME NEW c \in Calls, call[c] = Idle
  PROVE  StillOffered(c) /\ Between(c) /\ StatsOf(c)
BY IdleCall, FS_EmptySet DEF StillOffered, Between, StatsOf, At, OneRowEach

(* One call goes on, the records stay.                                     *)
LEMMA OneCallMoves ==
  ASSUME ShopInv, uuids, NEW c \in Calls, NEW r \in CallRecords,
         call' = [call EXCEPT ![c] = r], UNCHANGED <<uuids, day, offer, entries>>,
         StillOffered(c)', Between(c)', StatsOf(c)'
  PROVE  ShopInv'
<1>1. call' \in [Calls -> CallRecords] /\ \A d \in Calls : d # c => call'[d] = call[d]
  BY DEF ShopInv, RecordsTypeOK
<1>2. EntriesNumbered' /\ RecordsTypeOK'
  BY <1>1 DEF ShopInv, RecordsTypeOK, EntriesNumbered
<1>3. ASSUME NEW d \in Calls
      PROVE  StillOffered(d)' /\ Between(d)' /\ StatsOf(d)'
  <2>1. CASE d = c
    BY <2>1
  <2>2. CASE d # c
    <3>1. StillOffered(d) /\ Between(d) /\ StatsOf(d)
      BY DEF ShopInv, StatsAreOfTheWhile, StatsOf
    <3>2. call'[d] = call[d]
      BY <1>1, <2>2
    <3>3. StillOffered(d)'
      BY <3>1, <3>2 DEF StillOffered, At
    <3>4. Between(d)'
      BY <3>1, <3>2 DEF Between
    <3>5. StatsOf(d)'
      BY <3>1, <3>2 DEF StatsOf
    <3>6. QED
      BY <3>3, <3>4, <3>5
  <2>3. QED
    BY <2>1, <2>2
<1>4. StatsAreOfTheWhile'
  BY <1>3 DEF StatsOf, StatsAreOfTheWhile
<1>5. QED
  BY <1>2, <1>3, <1>4 DEF ShopInv

LEMMA CallEnds ==
  ASSUME ShopInv, uuids, NEW c \in Calls, End(c), UNCHANGED <<uuids, day, offer, entries>>
  PROVE  ShopInv'
<1>1. call' = [call EXCEPT ![c] = Idle] /\ call'[c] = Idle
  BY DEF End, ShopInv, RecordsTypeOK
<1>2. StillOffered(c)' /\ Between(c)' /\ StatsOf(c)'
  BY <1>1, IdleCall, FS_EmptySet DEF StillOffered, Between, StatsOf, At, OneRowEach
<1>3. QED
  BY <1>1, <1>2, IdleCall, OneCallMoves

\* A call that is not a report goes to its next step.
LEMMA CallGoesOn ==
  ASSUME ShopInv, uuids, NEW c \in Calls, NEW step \in {"service", "user", "create", "insert"},
         call[c].op = "book", Go(c, step), UNCHANGED <<uuids, day, offer, entries>>,
         StillOffered(c)'
  PROVE  ShopInv'
<1> DEFINE r == [call[c] EXCEPT !.at = step]
<1>1. call[c] \in CallRecords /\ Between(c) /\ StatsOf(c)
  BY DEF ShopInv, RecordsTypeOK, StatsOf, StatsAreOfTheWhile
<1>2. /\ r \in CallRecords /\ r.op = call[c].op /\ r.got = call[c].got /\ r.stayed = call[c].stayed
      /\ r.passed = call[c].passed /\ r.from = call[c].from
  BY <1>1 DEF CallRecords
<1>3. call' = [call EXCEPT ![c] = r] /\ call'[c] = r
  BY DEF Go, ShopInv, RecordsTypeOK
<1> HIDE DEF r
<1>4. Between(c)' /\ StatsOf(c)'
  BY <1>1, <1>2, <1>3 DEF Between, StatsOf
<1>5. QED
  BY <1>2, <1>3, <1>4, OneCallMoves

-----------------------------------------------------------------------------
(* The calls of joinQueue, bookAppointmentAsGuest and dailyQueueStats.     *)

\* A call that begins has no figures yet.
LEMMA CallBegins ==
  ASSUME ShopInv, uuids, NEW c \in Calls, NEW r \in CallRecords,
         Begin(c, r), UNCHANGED <<uuids, day, offer, entries>>,
         r.op # "report" => r.stayed = {} /\ r.passed = {},
         r.op = "report" => r.stayed = entries /\ r.passed = entries,
         DOMAIN r.got = {}, StillOffered(c)'
  PROVE  ShopInv'
<1>1. call' = [call EXCEPT ![c] = r] /\ call'[c] = r
  BY DEF Begin, ShopInv, RecordsTypeOK
<1>2. StatsOf(c)'
  BY <1>1 DEF StatsOf
<1>3. Between(c)'
  <2>1. CASE r.op = "report"
    BY <1>1, <2>1 DEF Between, ShopInv, EntriesNumbered
  <2>2. CASE r.op # "report"
    BY <1>1, <2>2, FS_EmptySet DEF Between, OneRowEach
  <2>3. QED
    BY <2>1, <2>2
<1>4. QED
  BY <1>1, <1>2, <1>3, OneCallMoves

LEMMA JoinAsked ==
  ASSUME ShopInv, NEW c \in Calls, NEW b \in Barbers \cup {Nobody}, AskToJoin(c, b)
  PROVE  ShopInv'
<1> DEFINE r == [Idle EXCEPT !.op = "join", !.at = "insert", !.barber = b]
<1>1. /\ r \in CallRecords /\ r.op = "join" /\ r.at = "insert" /\ r.barber = b
      /\ r.stayed = {} /\ r.passed = {} /\ DOMAIN r.got = {}
  BY IdleCall DEF CallRecords
<1> HIDE DEF r
<1>2. uuids /\ Begin(c, r) /\ UNCHANGED <<uuids, day, offer, entries>> /\ (b # Nobody => offer[b] = "open")
  BY DEF AskToJoin, records, Offered, r
<1>3. call'[c] = r
  BY <1>2 DEF Begin, ShopInv, RecordsTypeOK
<1>4. StillOffered(c)'
  BY <1>1, <1>2, <1>3 DEF StillOffered, At
<1>5. QED
  BY <1>1, <1>2, <1>4, CallBegins

LEMMA BookingAsked ==
  ASSUME ShopInv, NEW c \in Calls, NEW b \in Barbers, NEW s \in Services, NEW g \in Guests,
         BookAsGuest(c, b, s, g)
  PROVE  ShopInv'
<1> DEFINE r == [Idle EXCEPT !.op = "book", !.at = "barber", !.barber = b, !.service = s, !.guest = g]
<1>0. g \in People /\ b # Nobody /\ s # Nobody
  BY ShopRecordsAssumption
<1>1. /\ r \in CallRecords /\ r.op = "book" /\ r.at = "barber" /\ r.barber = b /\ r.service = s
      /\ r.stayed = {} /\ r.passed = {} /\ DOMAIN r.got = {}
  BY IdleCall, <1>0 DEF CallRecords
<1> HIDE DEF r
<1>2. uuids /\ Begin(c, r) /\ UNCHANGED <<uuids, day, offer, entries>>
  BY DEF BookAsGuest, records, Valid, r
<1>3. call'[c] = r
  BY <1>2 DEF Begin, ShopInv, RecordsTypeOK
<1>4. StillOffered(c)'
  BY <1>0, <1>1, <1>2, <1>3 DEF StillOffered, At
<1>5. QED
  BY <1>1, <1>2, <1>4, CallBegins

LEMMA StatsAsked ==
  ASSUME ShopInv, uuids, NEW c \in Calls, AskStats(c)
  PROVE  ShopInv'
<1> DEFINE r == [Idle EXCEPT !.op = "report", !.at = "count", !.from = day, !.stayed = entries, !.passed = entries]
<1>0. entries \in SUBSET EntryRows /\ day \in Nat
  BY DEF ShopInv, RecordsTypeOK, EntriesNumbered
<1>1. /\ r \in CallRecords /\ r.op = "report" /\ r.at = "count"
      /\ r.stayed = entries /\ r.passed = entries /\ DOMAIN r.got = {}
  BY IdleCall, <1>0 DEF CallRecords
<1> HIDE DEF r
<1>2. uuids /\ Begin(c, r) /\ UNCHANGED <<uuids, day, offer, entries>>
  BY DEF AskStats, records, r
<1>3. call'[c] = r
  BY <1>2 DEF Begin, ShopInv, RecordsTypeOK
<1>4. StillOffered(c)'
  BY <1>1, <1>2, <1>3 DEF StillOffered, At
<1>5. QED
  BY <1>1, <1>2, <1>4, CallBegins

\* findFirst on the barber, then on the service, then findUnique on the guest.
LEMMA BookingLooksUp ==
  ASSUME ShopInv, uuids, NEW c \in Calls,
         FindBarber(c) \/ FindService(c) \/ FindGuest(c)
  PROVE  ShopInv'
<1>u. UNCHANGED <<uuids, day, offer, entries>>
  BY DEF FindBarber, FindService, FindGuest, records
<1>t. call[c] \in CallRecords /\ StillOffered(c) /\ c \in DOMAIN call
  BY DEF ShopInv, RecordsTypeOK
<1>1. CASE End(c)
  BY <1>1, <1>u, CallEnds
<1>2. CASE At(c, "book", "barber") /\ Offered(call[c].barber, {"paused", "open"}) /\ Go(c, "service")
  <2>0. call'[c] = [call[c] EXCEPT !.at = "service"]
    BY <1>2, <1>t DEF Go
  <2>1. /\ call'[c].op = "book" /\ call'[c].at = "service" /\ call'[c].barber = call[c].barber
        /\ call'[c].service = call[c].service
    BY <1>2, <2>0, <1>t DEF At, CallRecords
  <2>2. StillOffered(c)'
    BY <2>1, <1>2, <1>t, <1>u DEF StillOffered, At, Offered
  <2>3. QED
    BY <2>2, <1>2, <1>u, CallGoesOn DEF At
<1>3. CASE At(c, "book", "service") /\ Offered(call[c].service, {"open"}) /\ Go(c, "user")
  <2>0. call'[c] = [call[c] EXCEPT !.at = "user"]
    BY <1>3, <1>t DEF Go
  <2>1. /\ call'[c].op = "book" /\ call'[c].at = "user" /\ call'[c].barber = call[c].barber
        /\ call'[c].service = call[c].service /\ call'[c].withdrawn = call[c].withdrawn
    BY <1>3, <2>0, <1>t DEF At, CallRecords
  <2>2. call[c].withdrawn \/ (offer[call[c].barber] \in {"paused", "open"} /\ offer[call[c].service] = "open")
    BY <1>3, <1>t DEF StillOffered, Offered
  <2>3. StillOffered(c)'
    BY <2>1, <2>2, <1>3, <1>t, <1>u DEF StillOffered, At
  <2>4. QED
    BY <2>3, <1>3, <1>u, CallGoesOn DEF At
<1>4. CASE FindGuest(c)
  <2>1. PICK step \in {"create", "insert"} : At(c, "book", "user") /\ Go(c, step)
    BY <1>4 DEF FindGuest
  <2>0. call'[c] = [call[c] EXCEPT !.at = step]
    BY <2>1, <1>t DEF Go
  <2>2. /\ call'[c].op = "book" /\ call'[c].at = step /\ call'[c].barber = call[c].barber
        /\ call'[c].service = call[c].service /\ call'[c].withdrawn = call[c].withdrawn
    BY <2>1, <2>0, <1>t DEF At, CallRecords
  <2>3. call[c].withdrawn \/ (offer[call[c].barber] \in {"paused", "open"} /\ offer[call[c].service] = "open")
    BY <2>1, <1>t DEF StillOffered
  <2>4. StillOffered(c)'
    BY <2>1, <2>2, <2>3, <1>t, <1>u DEF StillOffered, At
  <2>5. QED
    BY <2>1, <2>4, <1>u, CallGoesOn DEF At
<1>5. QED
  BY <1>1, <1>2, <1>3, <1>4 DEF FindBarber, FindService

LEMMA GuestCreated ==
  ASSUME ShopInv, uuids, NEW c \in Calls, CreateGuest(c)
  PROVE  ShopInv'
<1>u. UNCHANGED <<uuids, day, offer, entries>> /\ At(c, "book", "create")
  BY DEF CreateGuest
<1>t. call[c] \in CallRecords /\ StillOffered(c) /\ c \in DOMAIN call
  BY DEF ShopInv, RecordsTypeOK
<1>1. CASE End(c)
  BY <1>1, <1>u, CallEnds
<1>2. CASE Go(c, "insert")
  <2>1. call'[c] = [call[c] EXCEPT !.at = "insert"]
    BY <1>2, <1>t DEF Go
  <2>2. /\ call'[c].op = "book" /\ call'[c].at = "insert" /\ call'[c].barber = call[c].barber
        /\ call'[c].service = call[c].service /\ call'[c].withdrawn = call[c].withdrawn
    BY <2>1, <1>u, <1>t DEF At, CallRecords
  <2>3. call[c].withdrawn \/ (offer[call[c].barber] \in {"paused", "open"} /\ offer[call[c].service] = "open")
    BY <1>u, <1>t DEF StillOffered
  <2>4. StillOffered(c)'
    BY <2>2, <2>3, <1>t, <1>u DEF StillOffered, At
  <2>5. QED
    BY <1>2, <2>4, <1>u, CallGoesOn DEF At
<1>3. QED
  BY <1>1, <1>2 DEF CreateGuest

\* count() on one status, while the rows are what they are.
LEMMA StatsCounted ==
  ASSUME ShopInv, uuids, NEW c \in Calls, NEW s \in Counted, ReadCount(c, s)
  PROVE  ShopInv'
<1> DEFINE from == call[c].from
           got == [t \in DOMAIN call[c].got \cup {s} |-> IF t = s THEN CountOf(s, from) ELSE call[c].got[t]]
           r == [call[c] EXCEPT !.got = got]
           count == {e \in entries : Counts(e, s, from)}
<1>1. /\ call[c] \in CallRecords /\ StillOffered(c) /\ Between(c) /\ StatsOf(c) /\ c \in DOMAIN call
      /\ call[c].op = "report" /\ call[c].at = "count" /\ EntriesNumbered
      /\ UNCHANGED <<uuids, day, offer, entries>>
  BY DEF ShopInv, RecordsTypeOK, StatsOf, StatsAreOfTheWhile, ReadCount, At, records
<1>2. PICK S \in SUBSET Counted : call[c].got \in [S -> 0..MaxEntries]
  BY <1>1 DEF CallRecords
<1>3. CountOf(s, from) \in 0..MaxEntries
  <2>1. IsFiniteSet(entries) /\ count \in SUBSET entries /\ Cardinality(entries) <= MaxEntries
    BY <1>1 DEF EntriesNumbered
  <2> HIDE DEF count
  <2>2. IsFiniteSet(count) /\ Cardinality(count) <= Cardinality(entries)
    BY <2>1, FS_Subset
  <2>3. Cardinality(count) \in Nat /\ Cardinality(entries) \in Nat /\ MaxEntries \in Nat
    BY <2>1, <2>2, FS_CardinalityType, ShopRecordsAssumption
  <2>4. Cardinality(count) \in 0..MaxEntries
    BY <2>1, <2>2, <2>3
  <2>5. QED
    BY <2>4 DEF CountOf, count
<1>4. got \in [S \cup {s} -> 0..MaxEntries] /\ S \cup {s} \in SUBSET Counted /\ DOMAIN got = S \cup {s}
  BY <1>2, <1>3
<1>5. got \in UNION {[T -> 0..MaxEntries] : T \in SUBSET Counted}
  BY <1>4
<1> HIDE DEF got
<1>6. /\ r \in CallRecords /\ r.op = call[c].op /\ r.at = call[c].at /\ r.got = got
      /\ r.stayed = call[c].stayed /\ r.passed = call[c].passed /\ r.from = from
  BY <1>1, <1>5 DEF CallRecords
<1>7. call' = [call EXCEPT ![c] = r] /\ call'[c] = r
  BY <1>1 DEF ReadCount, got
<1> HIDE DEF r
<1>8. StillOffered(c)'
  BY <1>1, <1>6, <1>7 DEF StillOffered, At
<1>9. Between(c)'
  BY <1>1, <1>6, <1>7 DEF Between
<1>10. StatsOf(c)'
  <2> SUFFICES ASSUME NEW t \in DOMAIN got
               PROVE  /\ Cardinality(IdsWith(call[c].stayed, t, from)) <= got[t]
                      /\ got[t] <= Cardinality(IdsWith(call[c].passed, t, from))
    BY <1>6, <1>7 DEF StatsOf, IdsWith
  <2>1. CASE t # s
    <3>1. t \in DOMAIN call[c].got /\ got[t] = call[c].got[t]
      BY <1>2, <1>4, <2>1 DEF got
    <3>2. QED
      BY <1>1, <3>1 DEF StatsOf, IdsWith
  <2>2. CASE t = s
    <3>1. got[t] = CountOf(s, from)
      BY <1>4, <2>2 DEF got
    <3>2. s \in Statuses
      BY DEF Counted, Statuses
    <3>3. /\ IdsWith(call[c].stayed, s, from) \in SUBSET IdsWith(entries, s, from)
          /\ IdsWith(entries, s, from) \in SUBSET IdsWith(call[c].passed, s, from)
      BY <1>1, <3>2 DEF Between
    <3>4. IsFiniteSet(IdsWith(entries, s, from))
      BY <1>1, IdsAreFinite DEF EntriesNumbered
    <3>5. Cardinality(IdsWith(entries, s, from)) = CountOf(s, from)
      BY <1>1, RowsAndIds DEF EntriesNumbered, CountOf
    <3>6. IsFiniteSet(IdsWith(call[c].passed, s, from))
      BY <1>1, IdsAreFinite DEF Between
    <3>7. Cardinality(IdsWith(call[c].stayed, s, from)) <= Cardinality(IdsWith(entries, s, from))
      BY <3>3, <3>4, FS_Subset
    <3>8. Cardinality(IdsWith(entries, s, from)) <= Cardinality(IdsWith(call[c].passed, s, from))
      BY <3>3, <3>6, FS_Subset
    <3>9. QED
      BY <2>2, <3>1, <3>5, <3>7, <3>8
  <2>3. QED
    BY <2>1, <2>2
<1>11. QED
  BY <1>1, <1>6, <1>7, <1>8, <1>9, <1>10, OneCallMoves

-----------------------------------------------------------------------------
(* The desk's changes of what is offered, and of the entries.              *)

LEMMA CallsWithdrawn ==
  ASSUME ShopInv, NEW x \in Barbers \cup Services, Withdraw(x)
  PROVE  /\ call' \in [Calls -> CallRecords]
         /\ \A c \in Calls :
              /\ call'[c].op = call[c].op /\ call'[c].at = call[c].at
              /\ call'[c].barber = call[c].barber /\ call'[c].service = call[c].service
              /\ call'[c].got = call[c].got /\ call'[c].from = call[c].from
              /\ call'[c].stayed = call[c].stayed /\ call'[c].passed = call[c].passed
              /\ IF x \in {call[c].barber, call[c].service} THEN call'[c].withdrawn ELSE call'[c] = call[c]
<1>1. ASSUME NEW c \in Calls
      PROVE  /\ call'[c] \in CallRecords
             /\ call'[c].op = call[c].op /\ call'[c].at = call[c].at
             /\ call'[c].barber = call[c].barber /\ call'[c].service = call[c].service
             /\ call'[c].got = call[c].got /\ call'[c].from = call[c].from
             /\ call'[c].stayed = call[c].stayed /\ call'[c].passed = call[c].passed
             /\ IF x \in {call[c].barber, call[c].service} THEN call'[c].withdrawn ELSE call'[c] = call[c]
  <2>1. call[c] \in CallRecords
    BY DEF ShopInv, RecordsTypeOK
  <2>2. CASE x \in {call[c].barber, call[c].service}
    <3>1. call'[c] = [call[c] EXCEPT !.withdrawn = TRUE]
      BY <2>2 DEF Withdraw
    <3>2. QED
      BY <2>1, <2>2, <3>1 DEF CallRecords
  <2>3. CASE x \notin {call[c].barber, call[c].service}
    <3>1. call'[c] = call[c]
      BY <2>3 DEF Withdraw
    <3>2. QED
      BY <2>1, <2>3, <3>1
  <2>4. QED
    BY <2>2, <2>3
<1>2. call' = [c \in Calls |-> call'[c]]
  BY DEF Withdraw
<1>3. QED
  BY <1>1, <1>2

\* A row is written, or deleted: the calls about it are withdrawn.
LEMMA OffersChange ==
  ASSUME ShopInv, uuids, UNCHANGED <<uuids, day>>, NEW x \in Barbers \cup Services, NEW to \in Offers,
         offer' = [offer EXCEPT ![x] = to], Withdraw(x),
         EntriesNumbered', \A s \in Statuses, from \in Nat : IdsWith(entries', s, from) = IdsWith(entries, s, from)
  PROVE  ShopInv'
<1>1. RecordsTypeOK'
  BY CallsWithdrawn DEF ShopInv, RecordsTypeOK
<1>2. ASSUME NEW c \in Calls
      PROVE  StillOffered(c)' /\ Between(c)' /\ StatsOf(c)'
  <2>1. /\ call[c] \in CallRecords /\ StillOffered(c) /\ Between(c) /\ StatsOf(c)
        /\ offer \in [Barbers \cup Services -> Offers]
    BY DEF ShopInv, RecordsTypeOK, StatsOf, StatsAreOfTheWhile
  <2>2. /\ call'[c].op = call[c].op /\ call'[c].at = call[c].at
        /\ call'[c].barber = call[c].barber /\ call'[c].service = call[c].service
        /\ call'[c].got = call[c].got /\ call'[c].from = call[c].from
        /\ call'[c].stayed = call[c].stayed /\ call'[c].passed = call[c].passed
    BY CallsWithdrawn
  <2>3. StatsOf(c)'
    BY <2>1, <2>2 DEF StatsOf
  <2>a. call[c].from \in Nat
    BY <2>1 DEF CallRecords
  <2>b. \A s \in Statuses : IdsWith(entries', s, call[c].from) = IdsWith(entries, s, call[c].from)
    BY <2>a
  <2>4. Between(c)'
    BY <2>1, <2>2, <2>b DEF Between
  <2>5. StillOffered(c)'
    <3>1. CASE x \in {call[c].barber, call[c].service}
      <4>1. call'[c].withdrawn
        BY <3>1, CallsWithdrawn
      <4>2. QED
        BY <4>1, <2>1, <2>2 DEF StillOffered, At
    <3>2. CASE x \notin {call[c].barber, call[c].service}
      <4>1. call'[c] = call[c]
        BY <3>2, CallsWithdrawn
      <4>2. /\ call[c].barber # Nobody => offer'[call[c].barber] = offer[call[c].barber]
            /\ call[c].service # Nobody => offer'[call[c].service] = offer[call[c].service]
        BY <3>2, <2>1 DEF CallRecords
      <4>3. QED
        BY <4>1, <4>2, <2>1 DEF StillOffered, At
    <3>3. QED
      BY <3>1, <3>2
  <2>6. QED
    BY <2>3, <2>4, <2>5
<1>3. StatsAreOfTheWhile'
  BY <1>2 DEF StatsOf, StatsAreOfTheWhile
<1>4. QED
  BY <1>1, <1>2, <1>3 DEF ShopInv

LEMMA OfferWritten ==
  ASSUME ShopInv, uuids,
         \/ \E b \in Barbers, to \in Offers : UpsertBarber(b, to)
         \/ \E s \in Services, to \in Offers : UpsertService(s, to)
         \/ \E s \in Services : DeleteService(s)
  PROVE  ShopInv'
<1>1. PICK x \in Barbers \cup Services, to \in Offers :
        offer' = [offer EXCEPT ![x] = to] /\ Withdraw(x) /\ UNCHANGED <<uuids, day, entries>>
  BY DEF UpsertBarber, UpsertService, DeleteService, Offers
<1>2. EntriesNumbered' /\ \A s \in Statuses, from \in Nat : IdsWith(entries', s, from) = IdsWith(entries, s, from)
  BY <1>1 DEF ShopInv, EntriesNumbered
<1>3. QED
  BY <1>1, <1>2, OffersChange

\* The foreign key of an entry is set to null: its id and status stay.
LEMMA BarberDeleted ==
  ASSUME ShopInv, uuids, NEW b \in Barbers, DeleteBarber(b)
  PROVE  ShopInv'
<1> DEFINE New(e) == IF e.barber = b THEN [e EXCEPT !.barber = Nobody] ELSE e
           f == [e \in entries |-> New(e)]
<1>1. /\ offer' = [offer EXCEPT ![b] = "none"] /\ Withdraw(b) /\ UNCHANGED <<uuids, day>>
      /\ entries' = {New(e) : e \in entries} /\ "none" \in Offers
  BY DEF DeleteBarber, Offers
<1>2. EntriesNumbered
  BY DEF ShopInv
<1>3. ASSUME NEW e \in entries
      PROVE  /\ New(e) \in EntryRows /\ New(e).id = e.id
             /\ New(e).status = e.status /\ New(e).served = e.served
  <2>1. e \in EntryRows
    BY <1>2 DEF EntriesNumbered
  <2>2. QED
    BY <2>1 DEF EntryRows
<1>4. f \in Bijection(entries, entries')
  <2>1. \A e \in entries : f[e] = New(e) /\ f[e] \in entries' /\ f[e].id = e.id
    BY <1>1, <1>3
  <2>3. \A r \in entries' : \E e \in entries : f[e] = r
    BY <1>1
  <2>4. f \in [entries -> entries']
    BY <2>1
  <2> HIDE DEF f, New
  <2>2. \A d, e \in entries : f[d] = f[e] => d = e
    BY <2>1, <1>2 DEF EntriesNumbered, OneRowEach
  <2>5. QED
    BY <2>2, <2>3, <2>4 DEF Bijection, Injection, IsInjective, Surjection
<1>5. IsFiniteSet(entries') /\ Cardinality(entries') = Cardinality(entries)
  BY <1>2, <1>4, FS_Bijection DEF EntriesNumbered, ExistsBijection
<1>6. \A r \in entries' : \E e \in entries : r = New(e) /\ r \in EntryRows /\ r.id = e.id
                                         /\ r.status = e.status /\ r.served = e.served
  BY <1>1, <1>3
<1>7. EntriesNumbered'
  <2>1. entries' \subseteq EntryRows
    BY <1>6
  <2>2. OneRowEach(entries')
    <3> SUFFICES ASSUME NEW q \in entries', NEW r \in entries', q.id = r.id
                 PROVE  q = r
      BY DEF OneRowEach
    <3>1. PICK d \in entries, e \in entries : q = New(d) /\ r = New(e) /\ q.id = d.id /\ r.id = e.id
      BY <1>6
    <3>2. d = e
      BY <3>1, <1>2 DEF EntriesNumbered, OneRowEach
    <3>3. QED
      BY <3>1, <3>2
  <2>3. \A r \in entries' : r.id[1] = 0 /\ r.id[2] \in 1..Cardinality(entries')
    BY <1>2, <1>5, <1>6 DEF EntriesNumbered
  <2>4. QED
    BY <1>2, <1>5, <2>1, <2>2, <2>3 DEF EntriesNumbered
<1>8. \A s \in Statuses, from \in Nat : IdsWith(entries', s, from) = IdsWith(entries, s, from)
  <2> SUFFICES ASSUME NEW s \in Statuses, NEW from \in Nat
               PROVE  IdsWith(entries', s, from) = IdsWith(entries, s, from)
    OBVIOUS
  <2>1. \A i : i \in IdsWith(entries', s, from) => i \in IdsWith(entries, s, from)
    BY <1>6 DEF IdsWith, Counts
  <2>2. ASSUME NEW e \in entries, Counts(e, s, from)
        PROVE  e.id \in IdsWith(entries', s, from)
    <3>1. New(e) \in entries' /\ New(e).id = e.id /\ Counts(New(e), s, from)
      BY <1>1, <1>3, <2>2 DEF Counts
    <3> HIDE DEF New
    <3>2. QED
      BY <3>1 DEF IdsWith
  <2>3. QED
    BY <2>1, <2>2 DEF IdsWith
<1>9. QED
  BY <1>1, <1>7, <1>8, OffersChange

(* What a report sees of a change of the entries.                          *)
LEMMA EntriesWatched ==
  ASSUME ShopInv, uuids, UNCHANGED <<uuids, day, offer>>, EntriesNumbered',
         NEW calls \in [Calls -> CallRecords],
         \A c \in Calls : calls[c] = call[c] \/ calls[c] = Idle,
         call' = Watch(entries', calls)
  PROVE  ShopInv'
<1>f. IsFiniteSet(entries') /\ entries' \subseteq EntryRows /\ OneRowEach(entries')
  BY DEF EntriesNumbered
<1>1. ASSUME NEW c \in Calls
      PROVE  /\ call'[c] \in CallRecords
             /\ call'[c].op = calls[c].op /\ call'[c].at = calls[c].at
             /\ call'[c].barber = calls[c].barber /\ call'[c].service = calls[c].service
             /\ call'[c].withdrawn = calls[c].withdrawn
             /\ call'[c].got = calls[c].got /\ call'[c].from = calls[c].from
             /\ call'[c].stayed = calls[c].stayed \cap entries'
             /\ call'[c].passed = IF calls[c].op = "report" THEN calls[c].passed \cup entries'
                                  ELSE calls[c].passed
  <2>1. calls[c] \in CallRecords
    OBVIOUS
  <2>2. call'[c] = [calls[c] EXCEPT !.stayed = calls[c].stayed \cap entries',
                                    !.passed = IF calls[c].op = "report" THEN calls[c].passed \cup entries'
                                               ELSE calls[c].passed]
    BY <2>1 DEF Watch, CallRecords
  <2>3. QED
    BY <2>1, <2>2, <1>f DEF CallRecords
<1>2. call' \in [Calls -> CallRecords]
  BY <1>1 DEF Watch
<1>3. ASSUME NEW c \in Calls
      PROVE  StillOffered(c)' /\ Between(c)' /\ StatsOf(c)'
  <2>1. CASE calls[c] = Idle
    <3>1. /\ call'[c].op = "none" /\ DOMAIN call'[c].got = {}
          /\ call'[c].stayed = {} /\ call'[c].passed = {}
      BY <1>1, <2>1, IdleCall
    <3>2. QED
      BY <3>1, FS_EmptySet DEF StillOffered, Between, StatsOf, At, OneRowEach
  <2>2. CASE calls[c] = call[c]
    <3>1. /\ call[c] \in CallRecords /\ StillOffered(c) /\ Between(c) /\ StatsOf(c)
      BY DEF ShopInv, RecordsTypeOK, StatsOf, StatsAreOfTheWhile
    <3>0. /\ call'[c].op = call[c].op /\ call'[c].got = call[c].got /\ call'[c].from = call[c].from
          /\ call'[c].stayed = call[c].stayed \cap entries'
          /\ call[c].op = "report" => call'[c].passed = call[c].passed \cup entries'
          /\ call[c].op # "report" => call'[c].passed = call[c].passed
      BY <1>1, <2>2
    <3>b. IsFiniteSet(call[c].stayed) /\ IsFiniteSet(call[c].passed) /\ OneRowEach(call[c].stayed)
      BY <3>1 DEF Between
    <3>2. StillOffered(c)'
      BY <1>1, <2>2, <3>1 DEF StillOffered, At
    <3>3. Between(c)'
      <4>a. IsFiniteSet(call[c].stayed \cap entries')
        BY <3>b, FS_Intersection
      <4>b. IsFiniteSet(call[c].passed \cup entries')
        BY <3>b, <1>f, FS_Union
      <4>1. IsFiniteSet(call'[c].stayed) /\ IsFiniteSet(call'[c].passed)
        BY <3>0, <3>b, <4>a, <4>b
      <4>2. OneRowEach(call'[c].stayed)
        BY <1>1, <2>2, <3>1 DEF Between, OneRowEach
      <4>3. CASE call[c].op = "report"
        <5>1. \A s, from : IdsWith(call'[c].stayed, s, from) \subseteq IdsWith(entries', s, from)
                           /\ IdsWith(entries', s, from) \subseteq IdsWith(call'[c].passed, s, from)
          BY <1>1, <2>2, <4>3 DEF IdsWith
        <5>2. QED
          BY <1>1, <2>2, <4>1, <4>2, <4>3, <5>1 DEF Between
      <4>4. CASE call[c].op # "report"
        <5>1. DOMAIN call'[c].got = {}
          BY <3>0, <3>1, <4>4 DEF Between
        <5>2. QED
          BY <3>0, <4>1, <4>2, <4>4, <5>1 DEF Between
      <4>5. QED
        BY <4>3, <4>4
    <3>4. StatsOf(c)'
      <4> DEFINE from == call[c].from
      <4> SUFFICES ASSUME NEW s \in DOMAIN call[c].got
                   PROVE  /\ Cardinality(IdsWith(call'[c].stayed, s, from)) <= call[c].got[s]
                          /\ call[c].got[s] <= Cardinality(IdsWith(call'[c].passed, s, from))
        BY <3>0 DEF StatsOf
      <4>1. /\ IdsWith(call'[c].stayed, s, from) \in SUBSET IdsWith(call[c].stayed, s, from)
            /\ IdsWith(call[c].passed, s, from) \in SUBSET IdsWith(call'[c].passed, s, from)
        BY <1>1, <2>2 DEF IdsWith
      <4>2. /\ IsFiniteSet(IdsWith(call[c].stayed, s, from)) /\ IsFiniteSet(IdsWith(call[c].passed, s, from))
            /\ IsFiniteSet(IdsWith(call'[c].stayed, s, from)) /\ IsFiniteSet(IdsWith(call'[c].passed, s, from))
        BY <3>b, <3>3, IdsAreFinite DEF Between
      <4>3. call[c].got[s] \in Int
        <5>1. PICK S \in SUBSET Counted : call[c].got \in [S -> 0..MaxEntries]
          BY <3>1 DEF CallRecords
        <5>2. QED
          BY <5>1
      <4>4. /\ Cardinality(IdsWith(call[c].stayed, s, from)) <= call[c].got[s]
            /\ call[c].got[s] <= Cardinality(IdsWith(call[c].passed, s, from))
        BY <3>1 DEF StatsOf
      <4>5. /\ Cardinality(IdsWith(call'[c].stayed, s, from)) <= Cardinality(IdsWith(call[c].stayed, s, from))
            /\ Cardinality(IdsWith(call[c].passed, s, from)) <= Cardinality(IdsWith(call'[c].passed, s, from))
        BY <4>1, <4>2, FS_Subset
      <4>6. /\ Cardinality(IdsWith(call[c].stayed, s, from)) \in Nat
            /\ Cardinality(IdsWith(call'[c].stayed, s, from)) \in Nat
            /\ Cardinality(IdsWith(call[c].passed, s, from)) \in Nat
            /\ Cardinality(IdsWith(call'[c].passed, s, from)) \in Nat
        BY <4>2, FS_CardinalityType
      <4>7. QED
        BY <4>3, <4>4, <4>5, <4>6
    <3>5. QED
      BY <3>2, <3>3, <3>4
  <2>3. QED
    BY <2>1, <2>2
<1>4. RecordsTypeOK'
  BY <1>2 DEF ShopInv, RecordsTypeOK
<1>5. StatsAreOfTheWhile'
  BY <1>3 DEF StatsOf, StatsAreOfTheWhile
<1>6. QED
  BY <1>3, <1>4, <1>5 DEF ShopInv

LEMMA EntryInserted ==
  ASSUME ShopInv, uuids, NEW c \in Calls, InsertEntry(c)
  PROVE  ShopInv'
<1> DEFINE n == Cardinality(entries)
           b == call[c].barber
           row == [id |-> <<0, n + 1>>, barber |-> b, status |-> "WAITING", served |-> 0]
           calls == [call EXCEPT ![c] = Idle]
<1>1. EntriesNumbered /\ call \in [Calls -> CallRecords]
  BY DEF ShopInv, RecordsTypeOK
<1>2. n \in Nat /\ n <= MaxEntries
  BY <1>1, FS_CardinalityType DEF EntriesNumbered
<1>3. {r \in entries : r.id[1] = 0} = entries
  BY <1>1 DEF EntriesNumbered
<1>4. NextId(entries) = <<0, n + 1>>
  BY <1>3 DEF NextId
<1>5. /\ entries' = entries \/ (n + 1 <= MaxEntries /\ entries' = entries \cup {row})
      /\ UNCHANGED <<uuids, day, offer>> /\ call' = Watch(entries', calls)
  BY <1>4 DEF InsertEntry
<1>6. row \in EntryRows /\ row.id[1] = 0 /\ row.id[2] = n + 1
  <2>1. b \in Barbers \cup {Nobody} /\ <<0, n + 1>> \in Nat \X Nat /\ "WAITING" \in Statuses
    BY <1>1, <1>2 DEF CallRecords, Statuses
  <2> HIDE DEF b, n
  <2>2. QED
    BY <2>1 DEF EntryRows
<1>7. EntriesNumbered'
  <2>1. CASE entries' = entries
    BY <1>1, <2>1 DEF EntriesNumbered
  <2>2. CASE n + 1 <= MaxEntries /\ entries' = entries \cup {row}
    <3>1. \A e \in entries : e.id[1] = 0 /\ e.id[2] \in 1..n /\ e.id # row.id
      BY <1>1, <1>2, <1>6 DEF EntriesNumbered
    <3>2. row \notin entries
      BY <3>1
    <3> HIDE DEF row
    <3>3. IsFiniteSet(entries') /\ Cardinality(entries') = n + 1
      BY <1>1, <2>2, <3>2, FS_AddElement DEF EntriesNumbered
    <3>4. \A e \in entries' : e.id[1] = 0 /\ e.id[2] \in 1..(n + 1)
      BY <1>2, <1>6, <2>2, <3>1
    <3>5. OneRowEach(entries')
      BY <1>1, <2>2, <3>1 DEF EntriesNumbered, OneRowEach
    <3>6. entries' \subseteq EntryRows
      BY <1>1, <1>6, <2>2 DEF EntriesNumbered
    <3>7. QED
      BY <2>2, <3>3, <3>4, <3>5, <3>6 DEF EntriesNumbered
  <2>3. QED
    BY <1>5, <2>1, <2>2
<1>8. calls \in [Calls -> CallRecords] /\ \A d \in Calls : calls[d] = call[d] \/ calls[d] = Idle
  BY <1>1, IdleCall
<1> HIDE DEF calls
<1>9. QED
  BY <1>5, <1>7, <1>8, EntriesWatched

LEMMA EntryMoved ==
  ASSUME ShopInv, uuids, NEW e \in entries, NEW to \in Statuses, MoveEntry(e, to)
  PROVE  ShopInv'
<1> DEFINE row == [e EXCEPT !.status = to, !.served = IF to = "SERVED" THEN day ELSE @]
<1>1. EntriesNumbered /\ call \in [Calls -> CallRecords] /\ e \in EntryRows /\ day \in Nat
  BY DEF ShopInv, RecordsTypeOK, EntriesNumbered
<1>2. entries' = (entries \ {e}) \cup {row} /\ UNCHANGED <<uuids, day, offer>> /\ call' = Watch(entries', call)
  BY DEF MoveEntry
<1>3. row \in EntryRows /\ row.id = e.id
  BY <1>1 DEF EntryRows
<1> HIDE DEF row
<1>4. EntriesNumbered'
  <2>1. \A d \in entries \ {e} : d.id # row.id
    BY <1>1, <1>3 DEF EntriesNumbered, OneRowEach
  <2>2. row \notin entries \ {e}
    BY <2>1
  <2>3. IsFiniteSet(entries \ {e}) /\ Cardinality(entries \ {e}) = Cardinality(entries) - 1
    BY <1>1, FS_RemoveElement DEF EntriesNumbered
  <2>4. IsFiniteSet(entries') /\ Cardinality(entries') = (Cardinality(entries) - 1) + 1
    BY <1>2, <2>2, <2>3, FS_AddElement
  <2>5. Cardinality(entries) \in Nat
    BY <1>1, FS_CardinalityType DEF EntriesNumbered
  <2>6. Cardinality(entries') = Cardinality(entries)
    BY <2>4, <2>5
  <2>7. \A d \in entries' : d.id[1] = 0 /\ d.id[2] \in 1..Cardinality(entries')
    BY <1>1, <1>2, <1>3, <2>6 DEF EntriesNumbered
  <2>8. OneRowEach(entries')
    BY <1>1, <1>2, <2>1 DEF EntriesNumbered, OneRowEach
  <2>9. entries' \subseteq EntryRows
    BY <1>1, <1>2, <1>3 DEF EntriesNumbered
  <2>10. QED
    BY <1>1, <2>4, <2>6, <2>7, <2>8, <2>9 DEF EntriesNumbered
<1>5. QED
  BY <1>1, <1>2, <1>4, EntriesWatched

-----------------------------------------------------------------------------
(* The invariant.                                                          *)

LEMMA SeedInvInit == Init => SeedInv
<1> SUFFICES ASSUME Init
             PROVE  SeedInv
  OBVIOUS
<1>1. \A c \in Calls : call[c] = Idle
  BY DEF Init
<1>2. RecordsTypeOK
  <2>1. "open" \in Offers /\ "none" \in Offers
    BY DEF Offers
  <2>2. QED
    BY <2>1, IdleCall DEF Init, RecordsTypeOK
<1>3. EntriesNumbered
  <2>1. entries = {} /\ Cardinality(entries) = 0 /\ IsFiniteSet(entries) /\ 0 <= MaxEntries
    BY FS_EmptySet, ShopRecordsAssumption DEF Init
  <2>2. QED
    BY <2>1 DEF EntriesNumbered, OneRowEach
<1>4. \A c \in Calls : StillOffered(c) /\ Between(c) /\ StatsOf(c)
  BY <1>1, IdleIsQuiet
<1>5. at = 0
  BY DEF Init
<1>6. QED
  BY <1>1, <1>2, <1>3, <1>4, <1>5 DEF SeedInv, ShopInv, StatsAreOfTheWhile, StatsOf

(* What the shop's own calls do.                                           *)
LEMMA ShopSteps ==
  ASSUME ShopInv, uuids, Desk \/ \E c \in Calls : CallStep(c)
  PROVE  ShopInv' /\ uuids' = uuids
<1>1. uuids' = uuids
  BY DEF Desk, CallStep, NewDay, UpsertBarber, UpsertService, DeleteBarber, DeleteService, MoveEntry,
         CreateAppointment, CancelAppointment, AskToJoin, InsertEntry, BookAsGuest, FindBarber,
         FindService, FindGuest, CreateGuest, InsertBooking, AskStats, AnswerStats, ReadCount, FailCall
<1>2. CASE \/ \E b \in Barbers, to \in Offers : UpsertBarber(b, to)
           \/ \E s \in Services, to \in Offers : UpsertService(s, to)
           \/ \E s \in Services : DeleteService(s)
  BY <1>1, <1>2, OfferWritten
<1>3. CASE \E b \in Barbers : DeleteBarber(b)
  BY <1>1, <1>3, BarberDeleted
<1>4. CASE \E e \in entries, to \in Statuses : MoveEntry(e, to)
  BY <1>1, <1>4, EntryMoved
<1>5. CASE \/ \E b \in Barbers, s \in Services, g \in Guests : CreateAppointment(b, s, g)
           \/ \E a \in bookings : CancelAppointment(a)
  <2>1. UNCHANGED <<uuids, day, offer, entries, call>>
    BY <1>5 DEF CreateAppointment, CancelAppointment
  <2>2. QED
    BY <2>1 DEF ShopInv, RecordsTypeOK, EntriesNumbered, StillOffered, Between, At, StatsAreOfTheWhile
<1>6. ASSUME NEW c \in Calls, CallStep(c)
      PROVE  ShopInv'
  <2>1. CASE \E b \in Barbers \cup {Nobody} : AskToJoin(c, b)
    BY <2>1, JoinAsked
  <2>2. CASE InsertEntry(c)
    BY <2>2, EntryInserted
  <2>3. CASE \E b \in Barbers, s \in Services, g \in Guests : BookAsGuest(c, b, s, g)
    BY <2>3, BookingAsked
  <2>4. CASE FindBarber(c) \/ FindService(c) \/ FindGuest(c)
    BY <2>4, BookingLooksUp
  <2>5. CASE CreateGuest(c)
    BY <2>5, GuestCreated
  <2>6. CASE InsertBooking(c) \/ AnswerStats(c) \/ FailCall(c)
    <3>1. End(c) /\ UNCHANGED <<uuids, day, offer, entries>>
      BY <2>6 DEF InsertBooking, AnswerStats, FailCall, records
    <3>2. QED
      BY <3>1, CallEnds
  <2>7. CASE AskStats(c)
    BY <2>7, StatsAsked
  <2>8. CASE \E s \in Counted : ReadCount(c, s)
    BY <2>8, StatsCounted
  <2>9. QED
    BY <1>6, <2>1, <2>2, <2>3, <2>4, <2>5, <2>6, <2>7, <2>8 DEF CallStep
<1>7. CASE NewDay
  <2>1. UNCHANGED <<uuids, offer, entries, call>> /\ day' \in Nat
    BY <1>7 DEF NewDay, records, ShopInv, RecordsTypeOK
  <2>2. QED
    BY <2>1 DEF ShopInv, RecordsTypeOK, EntriesNumbered, StillOffered, Between, At, StatsAreOfTheWhile
<1>8. QED
  BY <1>1, <1>2, <1>3, <1>4, <1>5, <1>6, <1>7 DEF Desk

(* The script, and the desk while the shop is the demo's: no call of a     *)
(* visitor is under way.                                                   *)
LEMMA DemoSteps ==
  ASSUME SeedInv, ~uuids,
         \/ SeedStart \/ SeedStep \/ SeedDies
         \/ \E p \in Strangers : StrangerComes(p)
         \/ \E x \in Asked : DeskDeletes(x)
  PROVE  SeedInv'
<1>t. /\ uuids \in BOOLEAN /\ offer \in [Barbers \cup Services -> Offers]
      /\ call \in [Calls -> CallRecords] /\ \A c \in Calls : call[c] = Idle
      /\ "open" \in Offers /\ "none" \in Offers
  BY DEF SeedInv, ShopInv, RecordsTypeOK, Offers
<1>d. UNCHANGED <<uuids, day>>
  BY DEF SeedStart, SeedStep, SeedDies, StrangerComes, DeskDeletes, DeleteBarber, DeleteService
<1> SUFFICES /\ uuids' = uuids /\ offer' \in [Barbers \cup Services -> Offers]
             /\ call' \in [Calls -> CallRecords] /\ \A c \in Calls : call'[c] = Idle
  BY <1>t, <1>d DEF SeedInv, ShopInv, RecordsTypeOK
<1>1. CASE SeedStart \/ SeedDies \/ \E p \in Strangers : StrangerComes(p)
  BY <1>t, <1>1 DEF SeedStart, SeedDies, StrangerComes, records
<1>2. CASE SeedStep
  <2>1. uuids' = uuids /\ call' = call
    BY <1>2 DEF SeedStep
  <2>2. offer' = offer \/ \E x : offer' = [offer EXCEPT ![x] = "open"]
    BY <1>2 DEF SeedStep, UpsertRow, CreateRow, WipeTable, records
  <2>3. offer' \in [Barbers \cup Services -> Offers]
    BY <2>2, <1>t
  <2>4. QED
    BY <2>1, <2>3, <1>t
<1>3. ASSUME NEW x \in Asked, DeskDeletes(x)
      PROVE  /\ uuids' = uuids /\ offer' \in [Barbers \cup Services -> Offers]
             /\ call' \in [Calls -> CallRecords] /\ \A c \in Calls : call'[c] = Idle
  <2>1. x \in Barbers \cup Services /\ x # Nobody
    BY ShopRecordsAssumption
  <2>2. uuids' = uuids /\ offer' = [offer EXCEPT ![x] = "none"] /\ Withdraw(x)
    BY <1>3 DEF DeskDeletes, DeleteBarber, DeleteService
  <2>3. \A c \in Calls : x \notin {call[c].barber, call[c].service}
    BY <1>t, <2>1, IdleCall
  <2>4. call' \in [Calls -> CallRecords] /\ \A c \in Calls : call'[c] = call[c]
    BY <2>1, <2>2, <2>3, CallsWithdrawn DEF SeedInv
  <2>5. QED
    BY <1>t, <2>2, <2>4
<1>4. QED
  BY <1>1, <1>2, <1>3

LEMMA SeedInvNext == SeedInv /\ [Next]_seedVars => SeedInv'
<1> SUFFICES ASSUME SeedInv, [Next]_seedVars
             PROVE  SeedInv'
  OBVIOUS
<1>1. CASE uuids /\ (Desk \/ \E c \in Calls : CallStep(c)) /\ UNCHANGED script
  BY <1>1, ShopSteps DEF SeedInv, script
<1>2. CASE \/ SeedStart \/ SeedStep \/ SeedDies
           \/ \E p \in Strangers : StrangerComes(p)
           \/ \E x \in Asked : DeskDeletes(x)
  <2>1. ~uuids
    BY <1>2 DEF SeedInv, SeedStart, SeedStep, SeedDies, StrangerComes, DeskDeletes
  <2>2. QED
    BY <1>2, <2>1, DemoSteps
<1>3. CASE UNCHANGED seedVars
  BY <1>3 DEF seedVars, records, script, SeedInv, ShopInv, RecordsTypeOK, EntriesNumbered,
              StillOffered, Between, At, StatsAreOfTheWhile
<1>4. QED
  BY <1>1, <1>2, <1>3 DEF Next

LEMMA SeedInvariant == Spec => []SeedInv
BY SeedInvInit, SeedInvNext, PTL DEF Spec

(* joinQueue (queue.service.ts) and bookAppointmentAsGuest                 *)
(* (appointments.service.ts) insert rows of the barber and the service     *)
(* that they looked up: no guest is placed where nothing was offered, but  *)
(* for what the desk withdrew in between.                                  *)
THEOREM PlacesAreOffered == Spec => PlacedWhereOffered
<1>1. SeedInv /\ [Next]_seedVars =>
        [\A c \in Calls :
           LET b == call[c].barber IN
           /\ At(c, "join", "insert") /\ entries' # entries /\ b # Nobody /\ call'[c] = Idle
                => call[c].withdrawn \/ offer[b] = "open"
           /\ At(c, "book", "insert") /\ bookings' # bookings /\ call'[c] = Idle
                => call[c].withdrawn \/ (offer[b] \in {"paused", "open"} /\ offer[call[c].service] = "open")
        ]_<<records, call>>
  <2> SUFFICES ASSUME SeedInv, NEW c \in Calls
               PROVE  /\ At(c, "join", "insert") /\ call[c].barber # Nobody
                           => call[c].withdrawn \/ offer[call[c].barber] = "open"
                      /\ At(c, "book", "insert") => call[c].withdrawn \/
                           (offer[call[c].barber] \in {"paused", "open"} /\ offer[call[c].service] = "open")
    OBVIOUS
  <2>1. CASE uuids
    BY <2>1 DEF SeedInv, ShopInv, StillOffered
  <2>2. CASE ~uuids
    BY <2>2, IdleCall DEF SeedInv, ShopInv, At
  <2>3. QED
    BY <2>1, <2>2
<1>2. QED
  BY <1>1, SeedInvariant, PTL DEF Spec, PlacedWhereOffered

(* reports.service.ts, dailyQueueStats: three counts taken while customers *)
(* join and move, and while barbers are deleted, are each the count of     *)
(* some moment of the call.                                                *)
THEOREM StatsOfTheWhile == Spec => []StatsAreOfTheWhile
<1>1. SeedInv => StatsAreOfTheWhile
  <2>1. ASSUME SeedInv, ~uuids
        PROVE  StatsAreOfTheWhile
    BY <2>1, IdleCall DEF SeedInv, ShopInv, StatsAreOfTheWhile
  <2>2. QED
    BY <2>1 DEF SeedInv, ShopInv
<1>2. QED
  BY <1>1, SeedInvariant, PTL

-----------------------------------------------------------------------------
(* The parts of the script, and where they are in it.                      *)

\* A sequence of n elements.
IsSeq(s, n) == s = [i \in 1..n |-> s[i]]

\* The second sequence appended to the first.
Joins(c, a, b) == c = a \o b

LEMMA Appended ==
  ASSUME NEW m \in Nat, NEW n \in Nat, NEW a, IsSeq(a, m), NEW b, IsSeq(b, n),
         NEW c, Joins(c, a, b), NEW k, k = m + n
  PROVE  /\ IsSeq(c, k)
         /\ \A i \in 1..m : c[i] = a[i]
         /\ \A i \in 1..n : c[m + i] = b[i]
<1> DEFINE S == {a[i] : i \in 1..m} \cup {b[i] : i \in 1..n}
<1>1. a \in [1..m -> S] /\ b \in [1..n -> S]
  BY DEF IsSeq
<1> HIDE DEF S
<1>2. a \in Seq(S) /\ b \in Seq(S) /\ Len(a) = m /\ Len(b) = n
  BY <1>1
<1>3. /\ c \in Seq(S) /\ Len(c) = m + n
      /\ \A i \in 1..(m + n) : c[i] = IF i <= m THEN a[i] ELSE b[i - m]
  <2> DEFINE t == a \o b
  <2>1. /\ t \in Seq(S) /\ Len(t) = m + n
        /\ \A i \in 1..(m + n) : t[i] = IF i <= m THEN a[i] ELSE b[i - m]
    BY <1>2, ConcatProperties
  <2>2. c = t
    BY DEF Joins
  <2> HIDE DEF t
  <2>3. QED
    BY <2>1, <2>2
<1>4. c \in [1..(m + n) -> S]
  BY <1>3
<1>5. IsSeq(c, k)
  BY <1>4 DEF IsSeq
<1>6. QED
  BY <1>3, <1>5

\* A part of the script whose n statements do the same to these tables.
Part(s, n, do, tables) == IsSeq(s, n) /\ \A i \in 1..n : s[i].do = do /\ s[i].table \in tables

LEMMA PartsAppended ==
  ASSUME NEW m \in Nat, NEW n \in Nat, NEW do, NEW tables, NEW a, Part(a, m, do, tables),
         NEW b, Part(b, n, do, tables), NEW c, Joins(c, a, b)
  PROVE  Part(c, m + n, do, tables)
<1>0. IsSeq(a, m) /\ IsSeq(b, n)
  BY DEF Part
<1>1. /\ IsSeq(c, m + n)
      /\ \A i \in 1..m : c[i] = a[i]
      /\ \A i \in 1..n : c[m + i] = b[i]
  BY <1>0, Appended
<1>2. ASSUME NEW i \in 1..(m + n)
      PROVE  c[i].do = do /\ c[i].table \in tables
  <2>1. CASE i <= m
    <3>1. i \in 1..m
      BY <2>1
    <3>2. QED
      BY <1>1, <3>1 DEF Part
  <2>2. CASE ~(i <= m)
    <3>1. i - m \in 1..n /\ m + (i - m) = i
      BY <2>2
    <3>2. QED
      BY <1>1, <3>1 DEF Part
  <2>3. QED
    BY <2>1, <2>2
<1>3. QED
  BY <1>1, <1>2 DEF Part

LEMMA AllUpserted ==
  ASSUME NEW tables, NEW table \in tables, NEW n \in Nat, NEW keys, IsSeq(keys, n)
  PROVE  /\ Part(UpsertAll(table, keys), n, "upsert", tables)
         /\ \A i \in 1..n : UpsertAll(table, keys)[i] = Upsert(table, keys[i])
<1>1. \A i \in 1..n : UpsertAll(table, keys)[i] = Upsert(table, keys[i])
  BY DEF UpsertAll, IsSeq
<1>2. \A k : Upsert(table, k).do = "upsert" /\ Upsert(table, k).table = table
  BY DEF Upsert
<1>3. IsSeq(UpsertAll(table, keys), n)
  BY DEF UpsertAll, IsSeq
<1>4. QED
  BY <1>1, <1>2, <1>3 DEF Part

LEMMA AllCreated ==
  ASSUME NEW tables, NEW table \in tables, NEW n \in Nat, NEW keys, IsSeq(keys, n)
  PROVE  /\ Part(CreateAll(table, keys), n, "create", tables)
         /\ \A i \in 1..n : CreateAll(table, keys)[i] = Create(table, keys[i], {})
<1>1. \A i \in 1..n : CreateAll(table, keys)[i] = Create(table, keys[i], {})
  BY DEF CreateAll, IsSeq
<1>2. \A k : Create(table, k, {}).do = "create" /\ Create(table, k, {}).table = table
  BY DEF Create
<1>3. IsSeq(CreateAll(table, keys), n)
  BY DEF CreateAll, IsSeq
<1>4. QED
  BY <1>1, <1>2, <1>3 DEF Part

\* The shop itself: rows that name no barber.
OpeningTables == {"plans", "users", "shop", "hours"}

Opening == Plans \o Owners \o Shop \o Branch \o Subscription

LEMMA OpeningPart == Part(Opening, 17, "upsert", OpeningTables)
<1>1. Part(Plans, 3, "upsert", OpeningTables)
  <2>1. IsSeq(<<"Free", "Pro", "Enterprise">>, 3)
    BY DEF IsSeq
  <2>2. QED
    BY <2>1, AllUpserted DEF Plans, OpeningTables
<1>2. Part(Owners, 2, "upsert", OpeningTables)
  <2>1. IsSeq(<<"owner", "admin">>, 2)
    BY DEF IsSeq
  <2>2. QED
    BY <2>1, AllUpserted DEF Owners, OpeningTables
<1>3. Part(Shop, 3, "upsert", OpeningTables)
  <2>1. IsSeq(<<"shop", "ownerRole", "adminRole">>, 3)
    BY DEF IsSeq
  <2>2. QED
    BY <2>1, AllUpserted DEF Shop, OpeningTables
<1>4. Part(Branch, 8, "upsert", OpeningTables)
  <2>1. Part(<<Upsert("shop", "branch")>>, 1, "upsert", OpeningTables)
    BY DEF Part, IsSeq, Upsert, OpeningTables
  <2>2. IsSeq(<<0, 1, 2, 3, 4, 5, 6>>, 7)
    BY DEF IsSeq
  <2>3. Part(UpsertAll("hours", <<0, 1, 2, 3, 4, 5, 6>>), 7, "upsert", OpeningTables)
    BY <2>2, AllUpserted DEF OpeningTables
  <2>4. 1 + 7 = 8 /\ 1 \in Nat /\ 7 \in Nat
    OBVIOUS
  <2>5. QED
    BY <2>1, <2>3, <2>4, PartsAppended DEF Branch, Joins
<1>5. Part(Subscription, 1, "upsert", OpeningTables)
  BY DEF Subscription, Part, IsSeq, Upsert, OpeningTables
<1> DEFINE first == Plans \o Owners
           second == Plans \o Owners \o Shop
           third == Plans \o Owners \o Shop \o Branch
<1>6. Joins(first, Plans, Owners) /\ Joins(second, first, Shop) /\ Joins(third, second, Branch)
      /\ Joins(Opening, third, Subscription)
  BY DEF Joins, Opening
<1> HIDE DEF first, second, third
<1>7. Part(first, 3 + 2, "upsert", OpeningTables)
  BY <1>1, <1>2, <1>6, PartsAppended
<1>8. Part(second, 5 + 3, "upsert", OpeningTables)
  BY <1>3, <1>6, <1>7, PartsAppended
<1>9. Part(third, 8 + 8, "upsert", OpeningTables)
  BY <1>4, <1>6, <1>8, PartsAppended
<1>10. Part(Opening, 16 + 1, "upsert", OpeningTables)
  BY <1>5, <1>6, <1>9, PartsAppended
<1>11. QED
  BY <1>10

DemoBarbers == {"Arjun", "Karthik", "Rahim", "Vijay"}

DemoServices == {"Haircut", "Beard", "Combo", "Spa"}

LEMMA ServicePart ==
  /\ Part(ServiceRows, 4, "upsert", {"services"})
  /\ \A i \in 1..4 : ServiceRows[i].key = ServiceList[i] /\ ServiceList[i] \in DemoServices
  /\ \A s \in DemoServices : \E i \in 1..4 : ServiceList[i] = s
<1>1. IsSeq(ServiceList, 4)
  BY DEF IsSeq, ServiceList
<1>2. /\ \A i \in 1..4 : ServiceList[i] \in DemoServices
      /\ \A s \in DemoServices : \E i \in 1..4 : ServiceList[i] = s
  BY DEF ServiceList, DemoServices
<1>3. \A k : Upsert("services", k).key = k
  BY DEF Upsert
<1>4. /\ Part(ServiceRows, 4, "upsert", {"services"})
      /\ \A i \in 1..4 : ServiceRows[i] = Upsert("services", ServiceList[i])
  BY <1>1, AllUpserted DEF ServiceRows
<1>5. QED
  BY <1>2, <1>3, <1>4

\* The third row on of a barber links the barber, who is there by then, to a
\* service.
LEMMA BarberPart ==
  ASSUME NEW b
  PROVE  /\ Part(BarberRows(b), 7, "upsert", {"users", "barbers", "roles", "barberServices"})
         /\ BarberRows(b)[2].table = "barbers" /\ BarberRows(b)[2].key = b
         /\ \A i \in 1..7 : BarberRows(b)[i].table = "barbers" => i = 2
         /\ \A i \in 1..7 : BarberRows(b)[i].table = "barberServices" =>
              i > 2 /\ \E s \in DemoServices : BarberRows(b)[i].key = <<b, s>>
<1> DEFINE head == <<Upsert("users", b), Upsert("barbers", b), Upsert("roles", b)>>
           tail == [i \in 1..4 |-> Upsert("barberServices", <<b, ServiceList[i]>>)]
           tables == {"users", "barbers", "roles", "barberServices"}
<1>1. /\ Part(head, 3, "upsert", tables)
      /\ head[1].table = "users" /\ head[2].table = "barbers" /\ head[2].key = b /\ head[3].table = "roles"
  BY DEF Part, IsSeq, Upsert
<1>2. /\ Part(tail, 4, "upsert", tables)
      /\ \A i \in 1..4 : tail[i].table = "barberServices" /\ tail[i].key = <<b, ServiceList[i]>>
  BY DEF Part, IsSeq, Upsert
<1>3. Joins(BarberRows(b), head, tail)
  BY DEF Joins, BarberRows
<1> HIDE DEF head, tail
<1>4. Part(BarberRows(b), 3 + 4, "upsert", tables)
  BY <1>1, <1>2, <1>3, PartsAppended
<1>5. /\ \A i \in 1..3 : BarberRows(b)[i] = head[i]
      /\ \A i \in 1..4 : BarberRows(b)[3 + i] = tail[i]
  <2>1. IsSeq(head, 3) /\ IsSeq(tail, 4)
    BY <1>1, <1>2 DEF Part
  <2>2. QED
    BY <1>3, <2>1, Appended
<1>6. ASSUME NEW i \in 1..7
      PROVE  \/ i \in 1..3 /\ BarberRows(b)[i] = head[i]
             \/ i - 3 \in 1..4 /\ BarberRows(b)[i] = tail[i - 3]
  <2>1. i \in 1..3 \/ (i - 3 \in 1..4 /\ 3 + (i - 3) = i)
    OBVIOUS
  <2>2. QED
    BY <1>5, <2>1
<1>7. 2 \in 1..3 /\ BarberRows(b)[2] = head[2]
  BY <1>5
<1>8. \A i \in 1..7 : BarberRows(b)[i].table = "barbers" => i = 2
  BY <1>1, <1>2, <1>6
<1>9. ASSUME NEW i \in 1..7, BarberRows(b)[i].table = "barberServices"
      PROVE  i > 2 /\ \E s \in DemoServices : BarberRows(b)[i].key = <<b, s>>
  <2>1. ~(i \in 1..3 /\ BarberRows(b)[i] = head[i])
    BY <1>1, <1>9
  <2>2. i - 3 \in 1..4 /\ BarberRows(b)[i] = tail[i - 3]
    BY <1>6, <2>1
  <2>3. BarberRows(b)[i].key = <<b, ServiceList[i - 3]>> /\ ServiceList[i - 3] \in DemoServices
    BY <1>2, <2>2, ServicePart
  <2>4. QED
    BY <2>2, <2>3
<1>10. QED
  BY <1>1, <1>4, <1>7, <1>8, <1>9

LEMMA CustomerPart == Part(Customers, 14, "upsert", {"users"})
<1>1. IsSeq(<<"Suresh", "Ramesh", "Priya", "Anand", "Kavitha", "Ravi", "Deepa", "Murugan",
              "Lakshmi", "Selvam", "Nithya", "Balaji", "Kishore", "Meera">>, 14)
  BY DEF IsSeq
<1>2. QED
  BY <1>1, AllUpserted DEF Customers

WipedTables == {"reviews", "entries", "bookings", "analytics", "payments"}

LEMMA WipePart ==
  /\ Part(Wipes, 5, "wipe", WipedTables)
  /\ \A table \in WipedTables : \E i \in 1..5 : Wipes[i].table = table
<1>1. Part(Wipes, 5, "wipe", WipedTables)
  BY DEF Part, IsSeq, Wipes, Wipe, WipedTables
<1>2. \A table \in WipedTables : \E i \in 1..5 : Wipes[i].table = table
  BY DEF Wipes, Wipe, WipedTables
<1>3. QED
  BY <1>1, <1>2

LEMMA EntryPart ==
  /\ Part(Entries, 11, "create", {"entries"})
  /\ \A i \in 1..11 : Entries[i].row.barber \in DemoBarbers /\ Entries[i].row.service \in DemoServices
<1>1. Part(Entries, 11, "create", {"entries"})
  BY DEF Part, IsSeq, Entries, Entry, Create
<1>2. \A i \in 1..11 : Entries[i].row.barber \in DemoBarbers /\ Entries[i].row.service \in DemoServices
  BY DEF Entries, Entry, Create, DemoBarbers, DemoServices
<1>3. QED
  BY <1>1, <1>2

LEMMA AppointmentPart ==
  /\ Part(Appointments, 10, "create", {"bookings"})
  /\ \A i \in 1..10 : Appointments[i].row.barber \in DemoBarbers /\ Appointments[i].row.service \in DemoServices
  /\ \A b \in DemoBarbers : \E i \in 1..10 : Appointments[i].row.barber = b
  /\ \A s \in DemoServices : \E i \in 1..10 : Appointments[i].row.service = s
<1>1. Part(Appointments, 10, "create", {"bookings"})
  BY DEF Part, IsSeq, Appointments, Appointment, Create
<1>2. \A i \in 1..10 : Appointments[i].row.barber \in DemoBarbers /\ Appointments[i].row.service \in DemoServices
  BY DEF Appointments, Appointment, Create, DemoBarbers, DemoServices
<1>3. \A b \in DemoBarbers : \E i \in 1..10 : Appointments[i].row.barber = b
  <2>1. /\ Appointments[1].row.barber = "Arjun" /\ Appointments[2].row.barber = "Karthik"
        /\ Appointments[3].row.barber = "Rahim" /\ Appointments[6].row.barber = "Vijay"
    BY DEF Appointments, Appointment, Create
  <2>2. QED
    BY <2>1 DEF DemoBarbers
<1>4. \A s \in DemoServices : \E i \in 1..10 : Appointments[i].row.service = s
  <2>1. /\ Appointments[1].row.service = "Haircut" /\ Appointments[2].row.service = "Spa"
        /\ Appointments[3].row.service = "Combo" /\ Appointments[5].row.service = "Beard"
    BY DEF Appointments, Appointment, Create
  <2>2. QED
    BY <2>1 DEF DemoServices
<1>5. QED
  BY <1>1, <1>2, <1>3, <1>4

LEMMA ReviewAndPaymentPart ==
  Part(Reviews, 6, "create", {"reviews"}) /\ Part(Payments, 6, "create", {"payments"})
<1>1. /\ IsSeq(<<1, 2, 3, 10, 11, 0>>, 6)
      /\ IsSeq(<<"Suresh", "Ramesh", "Anand", "Priya", "Lakshmi", "Murugan">>, 6)
  BY DEF IsSeq
<1>2. Part(Reviews, 6, "create", {"reviews"})
  BY <1>1, AllCreated DEF Reviews
<1>3. Part(Payments, 6, "create", {"payments"})
  BY <1>1, AllCreated DEF Payments
<1>4. QED
  BY <1>2, <1>3

Days == {"-7", "-6", "-5", "-4", "-3", "-2", "-1"}

\* The shop's days and the barbers' have different keys.
LEMMA AnalyticsPart ==
  /\ IsSeq(Analytics, 11)
  /\ \A i \in 1..11 : /\ Analytics[i].table = "analytics"
                      /\ \/ Analytics[i].do = "create" /\ Analytics[i].key \in Days
                         \/ Analytics[i].do = "upsert" /\ Analytics[i].key \in DemoBarbers
<1> DEFINE days == <<"-7", "-6", "-5", "-4", "-3", "-2", "-1">>
           names == <<"Arjun", "Karthik", "Rahim", "Vijay">>
           a == CreateAll("analytics", days)
           b == UpsertAll("analytics", names)
<1>1. /\ IsSeq(days, 7) /\ \A i \in 1..7 : days[i] \in Days
      /\ IsSeq(names, 4) /\ \A i \in 1..4 : names[i] \in DemoBarbers
  BY DEF IsSeq, Days, DemoBarbers
<1> HIDE DEF days, names
<1>2. /\ Part(a, 7, "create", {"analytics"})
      /\ \A i \in 1..7 : a[i] = Create("analytics", days[i], {})
  <2>1. IsSeq(days, 7)
    BY <1>1
  <2>2. QED
    BY <2>1, AllCreated
<1>3. /\ Part(b, 4, "upsert", {"analytics"})
      /\ \A i \in 1..4 : b[i] = Upsert("analytics", names[i])
  <2>1. IsSeq(names, 4)
    BY <1>1
  <2>2. QED
    BY <2>1, AllUpserted
<1>4. Joins(Analytics, a, b)
  BY DEF Joins, Analytics, days, names
<1> HIDE DEF a, b
<1>5. \A k : Create("analytics", k, {}).key = k /\ Upsert("analytics", k).key = k
  BY DEF Create, Upsert
<1>6. IsSeq(a, 7) /\ IsSeq(b, 4)
  BY <1>2, <1>3 DEF Part
<1>7. /\ IsSeq(Analytics, 7 + 4)
      /\ \A i \in 1..7 : Analytics[i] = a[i]
      /\ \A i \in 1..4 : Analytics[7 + i] = b[i]
  BY <1>4, <1>6, Appended
<1>8. \A i \in 1..7 : a[i].table = "analytics" /\ a[i].do = "create" /\ a[i].key \in Days
  BY <1>1, <1>2, <1>5 DEF Part
<1>9. \A i \in 1..4 : b[i].table = "analytics" /\ b[i].do = "upsert" /\ b[i].key \in DemoBarbers
  BY <1>1, <1>3, <1>5 DEF Part
<1>10. \A i \in 1..11 : i \in 1..7 \/ (i - 7 \in 1..4 /\ 7 + (i - 7) = i)
  OBVIOUS
<1>11. QED
  BY <1>7, <1>8, <1>9, <1>10

LEMMA QrPart == Part(QrCode, 1, "upsert", {"shop"})
BY DEF Part, IsSeq, QrCode, Upsert

\* The four barbers, one after the other.
LEMMA AllBarbersPart ==
  /\ IsSeq(AllBarbers, 28)
  /\ \A i \in 1..7 : /\ AllBarbers[i] = BarberRows("Arjun")[i]
                     /\ AllBarbers[7 + i] = BarberRows("Karthik")[i]
                     /\ AllBarbers[14 + i] = BarberRows("Rahim")[i]
                     /\ AllBarbers[21 + i] = BarberRows("Vijay")[i]
<1> DEFINE two == BarberRows("Arjun") \o BarberRows("Karthik")
           three == BarberRows("Arjun") \o BarberRows("Karthik") \o BarberRows("Rahim")
<1>1. \A b : IsSeq(BarberRows(b), 7)
  BY BarberPart DEF Part
<1>2. /\ Joins(two, BarberRows("Arjun"), BarberRows("Karthik")) /\ Joins(three, two, BarberRows("Rahim"))
      /\ Joins(AllBarbers, three, BarberRows("Vijay"))
  BY DEF Joins, AllBarbers
<1> HIDE DEF two, three
<1>3. /\ IsSeq(two, 7 + 7)
      /\ \A i \in 1..7 : two[i] = BarberRows("Arjun")[i]
      /\ \A i \in 1..7 : two[7 + i] = BarberRows("Karthik")[i]
  BY <1>1, <1>2, Appended
<1>4. /\ IsSeq(three, 14 + 7)
      /\ \A i \in 1..14 : three[i] = two[i]
      /\ \A i \in 1..7 : three[14 + i] = BarberRows("Rahim")[i]
  BY <1>1, <1>2, <1>3, Appended
<1>5. /\ IsSeq(AllBarbers, 21 + 7)
      /\ \A i \in 1..21 : AllBarbers[i] = three[i]
      /\ \A i \in 1..7 : AllBarbers[21 + i] = BarberRows("Vijay")[i]
  BY <1>1, <1>2, <1>4, Appended
<1>6. \A i \in 1..7 : i \in 1..14 /\ i \in 1..21 /\ 7 + i \in 1..14 /\ 7 + i \in 1..21 /\ 14 + i \in 1..21
  OBVIOUS
<1>7. \A i \in 1..7 : /\ AllBarbers[i] = BarberRows("Arjun")[i]
                      /\ AllBarbers[7 + i] = BarberRows("Karthik")[i]
                      /\ AllBarbers[14 + i] = BarberRows("Rahim")[i]
                      /\ AllBarbers[21 + i] = BarberRows("Vijay")[i]
  BY <1>3, <1>4, <1>5, <1>6
<1>8. QED
  BY <1>5, <1>7

\* How many statements of the script come before each of its parts.
ServicesFrom == 17
BarbersFrom == 21
CustomersFrom == 49
WipesFrom == 63
EntriesFrom == 68
BookingsFrom == 79
ReviewsFrom == 89
PaymentsFrom == 95
AnalyticsFrom == 101
QrFrom == 112
ScriptEnd == 113

LEMMA PartBounds ==
  /\ ServicesFrom \in Nat /\ ServicesFrom + 4 = BarbersFrom
  /\ BarbersFrom \in Nat /\ BarbersFrom + 28 = CustomersFrom
  /\ CustomersFrom \in Nat /\ CustomersFrom + 14 = WipesFrom
  /\ WipesFrom \in Nat /\ WipesFrom + 5 = EntriesFrom
  /\ EntriesFrom \in Nat /\ EntriesFrom + 11 = BookingsFrom
  /\ BookingsFrom \in Nat /\ BookingsFrom + 10 = ReviewsFrom
  /\ ReviewsFrom \in Nat /\ ReviewsFrom + 6 = PaymentsFrom
  /\ PaymentsFrom \in Nat /\ PaymentsFrom + 6 = AnalyticsFrom
  /\ AnalyticsFrom \in Nat /\ AnalyticsFrom + 11 = QrFrom
  /\ QrFrom \in Nat /\ QrFrom + 1 = ScriptEnd
  /\ ScriptEnd \in Nat /\ ServicesFrom > 0
BY DEF ServicesFrom, BarbersFrom, CustomersFrom, WipesFrom, EntriesFrom, BookingsFrom, ReviewsFrom,
      PaymentsFrom, AnalyticsFrom, QrFrom, ScriptEnd

\* The parts of the script, each at its place.
LEMMA ScriptParts ==
  /\ IsSeq(Script, ScriptEnd)
  /\ \A i \in 1..ServicesFrom : Script[i] = Opening[i]
  /\ \A i \in 1..4 : Script[ServicesFrom + i] = ServiceRows[i]
  /\ \A i \in 1..28 : Script[BarbersFrom + i] = AllBarbers[i]
  /\ \A i \in 1..14 : Script[CustomersFrom + i] = Customers[i]
  /\ \A i \in 1..5 : Script[WipesFrom + i] = Wipes[i]
  /\ \A i \in 1..11 : Script[EntriesFrom + i] = Entries[i]
  /\ \A i \in 1..10 : Script[BookingsFrom + i] = Appointments[i]
  /\ \A i \in 1..6 : Script[ReviewsFrom + i] = Reviews[i]
  /\ \A i \in 1..6 : Script[PaymentsFrom + i] = Payments[i]
  /\ \A i \in 1..11 : Script[AnalyticsFrom + i] = Analytics[i]
  /\ \A i \in 1..1 : Script[QrFrom + i] = QrCode[i]
<1> DEFINE s1 == Opening \o ServiceRows
           s2 == s1 \o AllBarbers
           s3 == s2 \o Customers
           s4 == s3 \o Wipes
           s5 == s4 \o Entries
           s6 == s5 \o Appointments
           s7 == s6 \o Reviews
           s8 == s7 \o Payments
           s9 == s8 \o Analytics
<1>1. /\ Joins(s1, Opening, ServiceRows) /\ Joins(s2, s1, AllBarbers) /\ Joins(s3, s2, Customers)
      /\ Joins(s4, s3, Wipes) /\ Joins(s5, s4, Entries) /\ Joins(s6, s5, Appointments)
      /\ Joins(s7, s6, Reviews) /\ Joins(s8, s7, Payments) /\ Joins(s9, s8, Analytics)
      /\ Joins(Script, s9, QrCode)
  BY DEF Joins, Script, Opening
<1> HIDE DEF s1, s2, s3, s4, s5, s6, s7, s8, s9
<1>2. /\ IsSeq(Opening, ServicesFrom) /\ IsSeq(ServiceRows, 4) /\ IsSeq(AllBarbers, 28) /\ IsSeq(Customers, 14)
      /\ IsSeq(Wipes, 5) /\ IsSeq(Entries, 11) /\ IsSeq(Appointments, 10) /\ IsSeq(Reviews, 6)
      /\ IsSeq(Payments, 6) /\ IsSeq(Analytics, 11) /\ IsSeq(QrCode, 1)
  BY OpeningPart, ServicePart, AllBarbersPart, CustomerPart, WipePart, EntryPart, AppointmentPart,
     ReviewAndPaymentPart, AnalyticsPart, QrPart DEF Part, ServicesFrom
<1>3. /\ IsSeq(s1, BarbersFrom)
      /\ \A i \in 1..ServicesFrom : s1[i] = Opening[i]
      /\ \A i \in 1..4 : s1[ServicesFrom + i] = ServiceRows[i]
  <2>1. /\ IsSeq(Opening, ServicesFrom) /\ IsSeq(ServiceRows, 4) /\ Joins(s1, Opening, ServiceRows)
        /\ ServicesFrom \in Nat /\ 4 \in Nat /\ BarbersFrom = ServicesFrom + 4
    BY <1>1, <1>2, PartBounds
  <2>2. QED
    BY <2>1, Appended
<1>4. /\ IsSeq(s2, CustomersFrom)
      /\ \A i \in 1..BarbersFrom : s2[i] = s1[i]
      /\ \A i \in 1..28 : s2[BarbersFrom + i] = AllBarbers[i]
  <2>1. /\ IsSeq(s1, BarbersFrom) /\ IsSeq(AllBarbers, 28) /\ Joins(s2, s1, AllBarbers)
        /\ BarbersFrom \in Nat /\ 28 \in Nat /\ CustomersFrom = BarbersFrom + 28
    BY <1>1, <1>2, <1>3, PartBounds
  <2>2. QED
    BY <2>1, Appended
<1>5. /\ IsSeq(s3, WipesFrom)
      /\ \A i \in 1..CustomersFrom : s3[i] = s2[i]
      /\ \A i \in 1..14 : s3[CustomersFrom + i] = Customers[i]
  <2>1. /\ IsSeq(s2, CustomersFrom) /\ IsSeq(Customers, 14) /\ Joins(s3, s2, Customers)
        /\ CustomersFrom \in Nat /\ 14 \in Nat /\ WipesFrom = CustomersFrom + 14
    BY <1>1, <1>2, <1>4, PartBounds
  <2>2. QED
    BY <2>1, Appended
<1>6. /\ IsSeq(s4, EntriesFrom)
      /\ \A i \in 1..WipesFrom : s4[i] = s3[i]
      /\ \A i \in 1..5 : s4[WipesFrom + i] = Wipes[i]
  <2>1. /\ IsSeq(s3, WipesFrom) /\ IsSeq(Wipes, 5) /\ Joins(s4, s3, Wipes)
        /\ WipesFrom \in Nat /\ 5 \in Nat /\ EntriesFrom = WipesFrom + 5
    BY <1>1, <1>2, <1>5, PartBounds
  <2>2. QED
    BY <2>1, Appended
<1>7. /\ IsSeq(s5, BookingsFrom)
      /\ \A i \in 1..EntriesFrom : s5[i] = s4[i]
      /\ \A i \in 1..11 : s5[EntriesFrom + i] = Entries[i]
  <2>1. /\ IsSeq(s4, EntriesFrom) /\ IsSeq(Entries, 11) /\ Joins(s5, s4, Entries)
        /\ EntriesFrom \in Nat /\ 11 \in Nat /\ BookingsFrom = EntriesFrom + 11
    BY <1>1, <1>2, <1>6, PartBounds
  <2>2. QED
    BY <2>1, Appended
<1>8. /\ IsSeq(s6, ReviewsFrom)
      /\ \A i \in 1..BookingsFrom : s6[i] = s5[i]
      /\ \A i \in 1..10 : s6[BookingsFrom + i] = Appointments[i]
  <2>1. /\ IsSeq(s5, BookingsFrom) /\ IsSeq(Appointments, 10) /\ Joins(s6, s5, Appointments)
        /\ BookingsFrom \in Nat /\ 10 \in Nat /\ ReviewsFrom = BookingsFrom + 10
    BY <1>1, <1>2, <1>7, PartBounds
  <2>2. QED
    BY <2>1, Appended
<1>9. /\ IsSeq(s7, PaymentsFrom)
      /\ \A i \in 1..ReviewsFrom : s7[i] = s6[i]
      /\ \A i \in 1..6 : s7[ReviewsFrom + i] = Reviews[i]
  <2>1. /\ IsSeq(s6, ReviewsFrom) /\ IsSeq(Reviews, 6) /\ Joins(s7, s6, Reviews)
        /\ ReviewsFrom \in Nat /\ 6 \in Nat /\ PaymentsFrom = ReviewsFrom + 6
    BY <1>1, <1>2, <1>8, PartBounds
  <2>2. QED
    BY <2>1, Appended
<1>10. /\ IsSeq(s8, AnalyticsFrom)
       /\ \A i \in 1..PaymentsFrom : s8[i] = s7[i]
       /\ \A i \in 1..6 : s8[PaymentsFrom + i] = Payments[i]
  <2>1. /\ IsSeq(s7, PaymentsFrom) /\ IsSeq(Payments, 6) /\ Joins(s8, s7, Payments)
        /\ PaymentsFrom \in Nat /\ 6 \in Nat /\ AnalyticsFrom = PaymentsFrom + 6
    BY <1>1, <1>2, <1>9, PartBounds
  <2>2. QED
    BY <2>1, Appended
<1>11. /\ IsSeq(s9, QrFrom)
       /\ \A i \in 1..AnalyticsFrom : s9[i] = s8[i]
       /\ \A i \in 1..11 : s9[AnalyticsFrom + i] = Analytics[i]
  <2>1. /\ IsSeq(s8, AnalyticsFrom) /\ IsSeq(Analytics, 11) /\ Joins(s9, s8, Analytics)
        /\ AnalyticsFrom \in Nat /\ 11 \in Nat /\ QrFrom = AnalyticsFrom + 11
    BY <1>1, <1>2, <1>10, PartBounds
  <2>2. QED
    BY <2>1, Appended
<1>12. /\ IsSeq(Script, ScriptEnd)
       /\ \A i \in 1..QrFrom : Script[i] = s9[i]
       /\ \A i \in 1..1 : Script[QrFrom + i] = QrCode[i]
  <2>1. /\ IsSeq(s9, QrFrom) /\ IsSeq(QrCode, 1) /\ Joins(Script, s9, QrCode)
        /\ QrFrom \in Nat /\ 1 \in Nat /\ ScriptEnd = QrFrom + 1
    BY <1>1, <1>2, <1>11, PartBounds
  <2>2. QED
    BY <2>1, Appended
<1>13. /\ \A i \in 1..AnalyticsFrom : Script[i] = s8[i]
       /\ \A i \in 1..11 : Script[AnalyticsFrom + i] = Analytics[i]
  <2>1. /\ \A i \in 1..AnalyticsFrom : i \in 1..QrFrom
        /\ \A i \in 1..11 : AnalyticsFrom + i \in 1..QrFrom
    BY PartBounds
  <2>2. QED
    BY <1>11, <1>12, <2>1
<1>14. /\ \A i \in 1..PaymentsFrom : Script[i] = s7[i]
       /\ \A i \in 1..6 : Script[PaymentsFrom + i] = Payments[i]
  <2>1. /\ \A i \in 1..PaymentsFrom : i \in 1..AnalyticsFrom
        /\ \A i \in 1..6 : PaymentsFrom + i \in 1..AnalyticsFrom
    BY PartBounds
  <2>2. QED
    BY <1>10, <1>13, <2>1
<1>15. /\ \A i \in 1..ReviewsFrom : Script[i] = s6[i]
       /\ \A i \in 1..6 : Script[ReviewsFrom + i] = Reviews[i]
  <2>1. /\ \A i \in 1..ReviewsFrom : i \in 1..PaymentsFrom
        /\ \A i \in 1..6 : ReviewsFrom + i \in 1..PaymentsFrom
    BY PartBounds
  <2>2. QED
    BY <1>9, <1>14, <2>1
<1>16. /\ \A i \in 1..BookingsFrom : Script[i] = s5[i]
       /\ \A i \in 1..10 : Script[BookingsFrom + i] = Appointments[i]
  <2>1. /\ \A i \in 1..BookingsFrom : i \in 1..ReviewsFrom
        /\ \A i \in 1..10 : BookingsFrom + i \in 1..ReviewsFrom
    BY PartBounds
  <2>2. QED
    BY <1>8, <1>15, <2>1
<1>17. /\ \A i \in 1..EntriesFrom : Script[i] = s4[i]
       /\ \A i \in 1..11 : Script[EntriesFrom + i] = Entries[i]
  <2>1. /\ \A i \in 1..EntriesFrom : i \in 1..BookingsFrom
        /\ \A i \in 1..11 : EntriesFrom + i \in 1..BookingsFrom
    BY PartBounds
  <2>2. QED
    BY <1>7, <1>16, <2>1
<1>18. /\ \A i \in 1..WipesFrom : Script[i] = s3[i]
       /\ \A i \in 1..5 : Script[WipesFrom + i] = Wipes[i]
  <2>1. /\ \A i \in 1..WipesFrom : i \in 1..EntriesFrom
        /\ \A i \in 1..5 : WipesFrom + i \in 1..EntriesFrom
    BY PartBounds
  <2>2. QED
    BY <1>6, <1>17, <2>1
<1>19. /\ \A i \in 1..CustomersFrom : Script[i] = s2[i]
       /\ \A i \in 1..14 : Script[CustomersFrom + i] = Customers[i]
  <2>1. /\ \A i \in 1..CustomersFrom : i \in 1..WipesFrom
        /\ \A i \in 1..14 : CustomersFrom + i \in 1..WipesFrom
    BY PartBounds
  <2>2. QED
    BY <1>5, <1>18, <2>1
<1>20. /\ \A i \in 1..BarbersFrom : Script[i] = s1[i]
       /\ \A i \in 1..28 : Script[BarbersFrom + i] = AllBarbers[i]
  <2>1. /\ \A i \in 1..BarbersFrom : i \in 1..CustomersFrom
        /\ \A i \in 1..28 : BarbersFrom + i \in 1..CustomersFrom
    BY PartBounds
  <2>2. QED
    BY <1>4, <1>19, <2>1
<1>21. /\ \A i \in 1..ServicesFrom : Script[i] = Opening[i]
       /\ \A i \in 1..4 : Script[ServicesFrom + i] = ServiceRows[i]
  <2>1. /\ \A i \in 1..ServicesFrom : i \in 1..BarbersFrom
        /\ \A i \in 1..4 : ServicesFrom + i \in 1..BarbersFrom
    BY PartBounds
  <2>2. QED
    BY <1>3, <1>20, <2>1
<1>22. QED
  BY <1>12, <1>13, <1>14, <1>15, <1>16, <1>17, <1>18, <1>19, <1>20, <1>21

\* The places of the parts.
OpeningAt == 1..ServicesFrom
ServicesAt == (ServicesFrom + 1)..BarbersFrom
BarbersAt == (BarbersFrom + 1)..CustomersFrom
CustomersAt == (CustomersFrom + 1)..WipesFrom
WipesAt == (WipesFrom + 1)..EntriesFrom
EntriesAt == (EntriesFrom + 1)..BookingsFrom
BookingsAt == (BookingsFrom + 1)..ReviewsFrom
ReviewsAt == (ReviewsFrom + 1)..PaymentsFrom
PaymentsAt == (PaymentsFrom + 1)..AnalyticsFrom
AnalyticsAt == (AnalyticsFrom + 1)..QrFrom
QrAt == {ScriptEnd}

BeforeWipes == OpeningAt \cup ServicesAt \cup BarbersAt \cup CustomersAt

AfterWipes == EntriesAt \cup BookingsAt \cup ReviewsAt \cup PaymentsAt \cup AnalyticsAt \cup QrAt

LEMMA SeqLength ==
  ASSUME NEW n \in Nat, NEW s, IsSeq(s, n)
  PROVE  DOMAIN s = 1..n /\ Len(s) = n
<1> DEFINE S == {s[i] : i \in 1..n}
<1>1. s \in [1..n -> S]
  BY DEF IsSeq
<1> HIDE DEF S
<1>2. s \in Seq(S) /\ DOMAIN s = 1..n
  BY <1>1
<1>3. QED
  BY <1>2, LenProperties

LEMMA ScriptLength == DOMAIN Script = 1..ScriptEnd /\ Len(Script) = ScriptEnd
BY ScriptParts, PartBounds, SeqLength

LEMMA Places ==
  /\ 1..ScriptEnd = BeforeWipes \cup WipesAt \cup AfterWipes
  /\ \A i \in BeforeWipes, j \in WipesAt : i < j
  /\ \A i \in WipesAt, j \in AfterWipes : i < j
  /\ \A i \in ServicesAt, j \in BarbersAt : i < j
BY PartBounds DEF BeforeWipes, AfterWipes, OpeningAt, ServicesAt, BarbersAt, CustomersAt, WipesAt, EntriesAt,
      BookingsAt, ReviewsAt, PaymentsAt, AnalyticsAt, QrAt

\* Where the rows of a barber begin, less one.
Place(b) ==
  BarbersFrom + (CASE b = "Arjun" -> 0 [] b = "Karthik" -> 7 [] b = "Rahim" -> 14 [] b = "Vijay" -> 21)

LEMMA BarberPlaces ==
  /\ \A b \in DemoBarbers : /\ Place(b) \in Nat /\ Place(b) >= BarbersFrom /\ Place(b) + 7 <= CustomersFrom
                            /\ \A c \in DemoBarbers : \/ b = c
                                                      \/ Place(b) + 7 <= Place(c) \/ Place(c) + 7 <= Place(b)
                            /\ \A i \in 1..7 : Script[Place(b) + i] = BarberRows(b)[i]
  /\ \A i \in BarbersAt : \E b \in DemoBarbers, j \in 1..7 : i = Place(b) + j
<1>1. /\ Place("Arjun") = BarbersFrom /\ Place("Karthik") = BarbersFrom + 7
      /\ Place("Rahim") = BarbersFrom + 14 /\ Place("Vijay") = BarbersFrom + 21
  BY PartBounds DEF Place
<1>2. ASSUME NEW b \in DemoBarbers, NEW c \in DemoBarbers
      PROVE  /\ Place(b) \in Nat /\ Place(b) >= BarbersFrom /\ Place(b) + 7 <= CustomersFrom
             /\ b = c \/ Place(b) + 7 <= Place(c) \/ Place(c) + 7 <= Place(b)
  BY <1>1, PartBounds DEF DemoBarbers
<1>3. ASSUME NEW i \in BarbersAt
      PROVE  \E b \in DemoBarbers, j \in 1..7 : i = Place(b) + j
  <2>1. PICK k \in 1..28 : i = BarbersFrom + k
    <3>1. i - BarbersFrom \in 1..28 /\ i = BarbersFrom + (i - BarbersFrom)
      BY PartBounds DEF BarbersAt
    <3>2. QED
      BY <3>1
  <2>2. k \in 1..7 \/ k - 7 \in 1..7 \/ k - 14 \in 1..7 \/ k - 21 \in 1..7
    OBVIOUS
  <2>3. /\ i = Place("Arjun") + k /\ i = Place("Karthik") + (k - 7)
        /\ i = Place("Rahim") + (k - 14) /\ i = Place("Vijay") + (k - 21)
    BY <1>1, <2>1, PartBounds
  <2>4. "Arjun" \in DemoBarbers /\ "Karthik" \in DemoBarbers /\ "Rahim" \in DemoBarbers /\ "Vijay" \in DemoBarbers
    BY DEF DemoBarbers
  <2>5. QED
    BY <2>2, <2>3, <2>4
<1>4. ASSUME NEW i \in 1..7
      PROVE  /\ Script[Place("Arjun") + i] = BarberRows("Arjun")[i]
             /\ Script[Place("Karthik") + i] = BarberRows("Karthik")[i]
             /\ Script[Place("Rahim") + i] = BarberRows("Rahim")[i]
             /\ Script[Place("Vijay") + i] = BarberRows("Vijay")[i]
  <2>1. i \in 1..28 /\ 7 + i \in 1..28 /\ 14 + i \in 1..28 /\ 21 + i \in 1..28
    OBVIOUS
  <2>2. /\ Script[BarbersFrom + i] = AllBarbers[i]
        /\ Script[BarbersFrom + (7 + i)] = AllBarbers[7 + i]
        /\ Script[BarbersFrom + (14 + i)] = AllBarbers[14 + i]
        /\ Script[BarbersFrom + (21 + i)] = AllBarbers[21 + i]
    BY <2>1, ScriptParts
  <2>3. /\ Place("Arjun") + i = BarbersFrom + i /\ Place("Karthik") + i = BarbersFrom + (7 + i)
        /\ Place("Rahim") + i = BarbersFrom + (14 + i) /\ Place("Vijay") + i = BarbersFrom + (21 + i)
    BY <1>1, PartBounds
  <2>4. QED
    BY <2>2, <2>3, AllBarbersPart
<1>5. ASSUME NEW b \in DemoBarbers, NEW i \in 1..7
      PROVE  Script[Place(b) + i] = BarberRows(b)[i]
  BY <1>4 DEF DemoBarbers
<1>6. QED
  BY <1>2, <1>3, <1>5

BarberTables == {"users", "barbers", "roles", "barberServices"}

\* What the statements of the script do, by their places.
LEMMA ScriptPlaces ==
  /\ \A i \in OpeningAt : Script[i].do = "upsert" /\ Script[i].table \in OpeningTables
  /\ \A i \in ServicesAt : Script[i].do = "upsert" /\ Script[i].table = "services"
  /\ \A i \in BarbersAt : Script[i].do = "upsert" /\ Script[i].table \in BarberTables
  /\ \A i \in CustomersAt : Script[i].do = "upsert" /\ Script[i].table = "users"
  /\ \A i \in WipesAt : Script[i].do = "wipe" /\ Script[i].table \in WipedTables
  /\ \A i \in EntriesAt : /\ Script[i].do = "create" /\ Script[i].table = "entries"
                          /\ Script[i].row.barber \in DemoBarbers /\ Script[i].row.service \in DemoServices
  /\ \A i \in BookingsAt : /\ Script[i].do = "create" /\ Script[i].table = "bookings"
                           /\ Script[i].row.barber \in DemoBarbers /\ Script[i].row.service \in DemoServices
  /\ \A i \in ReviewsAt : Script[i].do = "create" /\ Script[i].table = "reviews"
  /\ \A i \in PaymentsAt : Script[i].do = "create" /\ Script[i].table = "payments"
  /\ \A i \in AnalyticsAt : /\ Script[i].table = "analytics"
                            /\ \/ Script[i].do = "create" /\ Script[i].key \in Days
                               \/ Script[i].do = "upsert" /\ Script[i].key \in DemoBarbers
  /\ \A i \in QrAt : Script[i].do = "upsert" /\ Script[i].table = "shop"
<1>1. \A i \in OpeningAt : Script[i].do = "upsert" /\ Script[i].table \in OpeningTables
  BY ScriptParts, OpeningPart DEF Part, OpeningAt, ServicesFrom
<1>2. ASSUME NEW i \in BarbersAt
      PROVE  Script[i].do = "upsert" /\ Script[i].table \in BarberTables
  <2>1. PICK b \in DemoBarbers, j \in 1..7 : i = Place(b) + j
    BY BarberPlaces
  <2>2. Script[i] = BarberRows(b)[j]
    BY <2>1, BarberPlaces
  <2>3. QED
    BY <2>2, BarberPart DEF Part, BarberTables
<1>3. \A i \in ServicesAt : \E j \in 1..4 : Script[i] = ServiceRows[j]
  <2>1. \A i \in ServicesAt : i - ServicesFrom \in 1..4 /\ i = ServicesFrom + (i - ServicesFrom)
    BY PartBounds DEF ServicesAt
  <2>2. QED
    BY <2>1, ScriptParts
<1>4. \A i \in CustomersAt : \E j \in 1..14 : Script[i] = Customers[j]
  <2>1. \A i \in CustomersAt : i - CustomersFrom \in 1..14 /\ i = CustomersFrom + (i - CustomersFrom)
    BY PartBounds DEF CustomersAt
  <2>2. QED
    BY <2>1, ScriptParts
<1>5. \A i \in WipesAt : \E j \in 1..5 : Script[i] = Wipes[j]
  <2>1. \A i \in WipesAt : i - WipesFrom \in 1..5 /\ i = WipesFrom + (i - WipesFrom)
    BY PartBounds DEF WipesAt
  <2>2. QED
    BY <2>1, ScriptParts
<1>6. \A i \in EntriesAt : \E j \in 1..11 : Script[i] = Entries[j]
  <2>1. \A i \in EntriesAt : i - EntriesFrom \in 1..11 /\ i = EntriesFrom + (i - EntriesFrom)
    BY PartBounds DEF EntriesAt
  <2>2. QED
    BY <2>1, ScriptParts
<1>7. \A i \in BookingsAt : \E j \in 1..10 : Script[i] = Appointments[j]
  <2>1. \A i \in BookingsAt : i - BookingsFrom \in 1..10 /\ i = BookingsFrom + (i - BookingsFrom)
    BY PartBounds DEF BookingsAt
  <2>2. QED
    BY <2>1, ScriptParts
<1>8. \A i \in ReviewsAt : \E j \in 1..6 : Script[i] = Reviews[j]
  <2>1. \A i \in ReviewsAt : i - ReviewsFrom \in 1..6 /\ i = ReviewsFrom + (i - ReviewsFrom)
    BY PartBounds DEF ReviewsAt
  <2>2. QED
    BY <2>1, ScriptParts
<1>9. \A i \in PaymentsAt : \E j \in 1..6 : Script[i] = Payments[j]
  <2>1. \A i \in PaymentsAt : i - PaymentsFrom \in 1..6 /\ i = PaymentsFrom + (i - PaymentsFrom)
    BY PartBounds DEF PaymentsAt
  <2>2. QED
    BY <2>1, ScriptParts
<1>10. \A i \in AnalyticsAt : \E j \in 1..11 : Script[i] = Analytics[j]
  <2>1. \A i \in AnalyticsAt : i - AnalyticsFrom \in 1..11 /\ i = AnalyticsFrom + (i - AnalyticsFrom)
    BY PartBounds DEF AnalyticsAt
  <2>2. QED
    BY <2>1, ScriptParts
<1>11. \A i \in QrAt : Script[i].do = "upsert" /\ Script[i].table = "shop"
  <2>1. QrFrom + 1 = ScriptEnd /\ 1 \in 1..1
    BY PartBounds
  <2>2. Script[ScriptEnd] = QrCode[1]
    BY <2>1, ScriptParts
  <2>3. QED
    BY <2>1, <2>2, QrPart DEF Part, QrAt
<1>12. \A i \in ServicesAt : Script[i].do = "upsert" /\ Script[i].table = "services"
  BY <1>3, ServicePart DEF Part
<1>13. \A i \in CustomersAt : Script[i].do = "upsert" /\ Script[i].table = "users"
  BY <1>4, CustomerPart DEF Part
<1>14. \A i \in WipesAt : Script[i].do = "wipe" /\ Script[i].table \in WipedTables
  BY <1>5, WipePart DEF Part
<1>15. \A i \in EntriesAt : /\ Script[i].do = "create" /\ Script[i].table = "entries"
                            /\ Script[i].row.barber \in DemoBarbers /\ Script[i].row.service \in DemoServices
  BY <1>6, EntryPart DEF Part
<1>16. \A i \in BookingsAt : /\ Script[i].do = "create" /\ Script[i].table = "bookings"
                             /\ Script[i].row.barber \in DemoBarbers /\ Script[i].row.service \in DemoServices
  BY <1>7, AppointmentPart DEF Part
<1>17. \A i \in ReviewsAt : Script[i].do = "create" /\ Script[i].table = "reviews"
  BY <1>8, ReviewAndPaymentPart DEF Part
<1>18. \A i \in PaymentsAt : Script[i].do = "create" /\ Script[i].table = "payments"
  BY <1>9, ReviewAndPaymentPart DEF Part
<1>19. \A i \in AnalyticsAt : /\ Script[i].table = "analytics"
                              /\ \/ Script[i].do = "create" /\ Script[i].key \in Days
                                 \/ Script[i].do = "upsert" /\ Script[i].key \in DemoBarbers
  BY <1>10, AnalyticsPart
<1>20. QED
  BY <1>1, <1>2, <1>11, <1>12, <1>13, <1>14, <1>15, <1>16, <1>17, <1>18, <1>19

LEMMA StatementKinds ==
  ASSUME NEW i \in 1..ScriptEnd
  PROVE  /\ Script[i].do \in {"upsert", "create", "wipe"}
         /\ Script[i].do = "wipe" <=> i \in WipesAt
         /\ Script[i].do = "create" => i \in AfterWipes
         /\ Script[i].table = "users" => i \in BeforeWipes
         /\ Script[i].table = "services" => i \in ServicesAt
         /\ Script[i].table \in {"barbers", "barberServices"} => i \in BarbersAt
         /\ Script[i].do # "wipe" /\ Script[i].table = "entries" => i \in EntriesAt
         /\ Script[i].do # "wipe" /\ Script[i].table = "bookings" => i \in BookingsAt
         /\ Script[i].do # "wipe" /\ Script[i].table = "analytics" => i \in AnalyticsAt
         /\ i \in BeforeWipes => Script[i].do = "upsert" /\ Script[i].table \notin WipedTables
         /\ i \in AfterWipes /\ Script[i].table # "analytics" =>
              (Script[i].do = "create" <=> Script[i].table \in WipedTables)
         /\ i \notin BeforeWipes =>
              Script[i].table \in {"reviews", "entries", "bookings", "analytics", "payments", "shop"}
<1> USE DEF OpeningTables, BarberTables, WipedTables
<1>1. /\ i \in BeforeWipes \/ i \in WipesAt \/ i \in AfterWipes
      /\ i \in WipesAt => i \notin BeforeWipes /\ i \notin AfterWipes
      /\ i \in BeforeWipes => i \notin AfterWipes
  <2>1. WipesFrom + 1 \in WipesAt
    BY PartBounds DEF WipesAt
  <2>2. i \in Nat
    OBVIOUS
  <2>3. QED
    BY <2>1, <2>2, Places, PartBounds
<1>2. CASE i \in BeforeWipes
  <2>1. CASE i \in OpeningAt
    BY <1>1, <1>2, <2>1, ScriptPlaces
  <2>2. CASE i \in ServicesAt
    BY <1>1, <1>2, <2>2, ScriptPlaces
  <2>3. CASE i \in BarbersAt
    BY <1>1, <1>2, <2>3, ScriptPlaces
  <2>4. CASE i \in CustomersAt
    BY <1>1, <1>2, <2>4, ScriptPlaces
  <2>5. QED
    BY <1>2, <2>1, <2>2, <2>3, <2>4 DEF BeforeWipes
<1>3. CASE i \in WipesAt
  BY <1>1, <1>3, ScriptPlaces
<1>4. CASE i \in AfterWipes
  <2>1. CASE i \in EntriesAt
    BY <1>1, <1>4, <2>1, ScriptPlaces
  <2>2. CASE i \in BookingsAt
    BY <1>1, <1>4, <2>2, ScriptPlaces
  <2>3. CASE i \in ReviewsAt
    BY <1>1, <1>4, <2>3, ScriptPlaces
  <2>4. CASE i \in PaymentsAt
    BY <1>1, <1>4, <2>4, ScriptPlaces
  <2>5. CASE i \in AnalyticsAt
    BY <1>1, <1>4, <2>5, ScriptPlaces
  <2>6. CASE i \in QrAt
    BY <1>1, <1>4, <2>6, ScriptPlaces
  <2>7. QED
    BY <1>4, <2>1, <2>2, <2>3, <2>4, <2>5, <2>6 DEF AfterWipes
<1>5. QED
  BY <1>1, <1>2, <1>3, <1>4

\* The kinds of statements that there are.
LEMMA KindsOfTables ==
  ASSUME NEW i \in DOMAIN Script
  PROVE  /\ Script[i].do \in {"upsert", "create", "wipe"}
         /\ Script[i].do = "upsert" => Script[i].table \notin {"entries", "bookings"}
         /\ Script[i].do # "upsert" => Script[i].table \notin {"barberServices", "barbers", "services", "users"}
<1>1. i \in 1..ScriptEnd
  BY ScriptLength
<1>2. i \in BeforeWipes \/ i \in WipesAt \/ i \in AfterWipes
  BY <1>1, Places
<1>3. QED
  BY <1>1, <1>2, StatementKinds DEF WipedTables

\* Every person is upserted before the first wipe.
LEMMA UsersFirst ==
  ASSUME NEW j \in DOMAIN Script, Script[j].table = "users", NEW i \in 1..j
  PROVE  Script[i].do # "wipe"
<1>1. j \in 1..ScriptEnd
  BY ScriptLength
<1>2. i \in 1..ScriptEnd
  BY <1>1, PartBounds
<1>3. j \in BeforeWipes
  BY <1>1, StatementKinds
<1>4. i \notin WipesAt
  BY <1>1, <1>3, Places, PartBounds
<1>5. QED
  BY <1>2, <1>4, StatementKinds

\* What is created is created after its table was wiped.
LEMMA WipedBefore ==
  ASSUME NEW i \in DOMAIN Script, Script[i].do = "create"
  PROVE  \E j \in 1..(i - 1) : Script[j].do = "wipe" /\ Script[j].table = Script[i].table
<1>1. i \in 1..ScriptEnd
  BY ScriptLength
<1>2. i \in AfterWipes
  BY <1>1, StatementKinds
<1>3. Script[i].table \in WipedTables
  BY <1>1, <1>2, StatementKinds DEF WipedTables
<1>4. PICK k \in 1..5 : Wipes[k].table = Script[i].table
  BY <1>3, WipePart
<1>5. Script[WipesFrom + k] = Wipes[k] /\ Wipes[k].do = "wipe"
  BY ScriptParts, WipePart DEF Part
<1>6. WipesFrom + k \in WipesAt
  BY PartBounds DEF WipesAt
<1>7. WipesFrom + k \in 1..(i - 1)
  BY <1>1, <1>2, <1>6, Places, PartBounds
<1>8. QED
  BY <1>4, <1>5, <1>7

\* Nothing is written to a table before it is wiped.
LEMMA WipedFirst ==
  ASSUME NEW j \in DOMAIN Script, Script[j].do = "wipe", NEW i \in 1..(j - 1)
  PROVE  Script[i].table # Script[j].table
<1>1. j \in 1..ScriptEnd
  BY ScriptLength
<1>2. i \in 1..ScriptEnd
  BY <1>1, PartBounds
<1>3. j \in WipesAt
  BY <1>1, StatementKinds
<1>4. Script[j].table \in WipedTables
  BY <1>3, ScriptPlaces
<1>5. i \notin AfterWipes
  BY <1>1, <1>3, Places, PartBounds
<1>6. CASE i \in BeforeWipes
  BY <1>2, <1>4, <1>6, StatementKinds
<1>7. CASE i \in WipesAt
  <2>1. /\ i - WipesFrom \in 1..5 /\ i = WipesFrom + (i - WipesFrom)
        /\ j - WipesFrom \in 1..5 /\ j = WipesFrom + (j - WipesFrom) /\ i - WipesFrom # j - WipesFrom
    BY <1>1, <1>3, <1>7, PartBounds DEF WipesAt
  <2>2. Script[i] = Wipes[i - WipesFrom] /\ Script[j] = Wipes[j - WipesFrom]
    BY <2>1, ScriptParts
  <2>3. \A m, n \in 1..5 : m # n => Wipes[m].table # Wipes[n].table
    BY DEF Wipes, Wipe
  <2>4. QED
    BY <2>1, <2>2, <2>3
<1>8. QED
  BY <1>2, <1>5, <1>6, <1>7, Places

\* Rows of one table with one key are written in one way.
LEMMA OneWayOfWriting ==
  ASSUME NEW i \in DOMAIN Script, NEW j \in DOMAIN Script,
         Script[i].do # "wipe", Script[j].do # "wipe",
         Script[i].table = Script[j].table, Script[i].key = Script[j].key
  PROVE  Script[i].do = Script[j].do
<1>1. i \in 1..ScriptEnd /\ j \in 1..ScriptEnd
  BY ScriptLength
<1>2. CASE Script[i].table = "analytics"
  <2>1. i \in AnalyticsAt /\ j \in AnalyticsAt
    BY <1>1, <1>2, StatementKinds
  <2>2. \A k \in Days : k \notin DemoBarbers
    BY DEF Days, DemoBarbers
  <2>3. QED
    BY <2>1, <2>2, ScriptPlaces
<1>3. CASE Script[i].table # "analytics"
  <2>1. \A k \in {i, j} : Script[k].do = IF Script[k].table \in WipedTables THEN "create" ELSE "upsert"
    BY <1>1, <1>3, StatementKinds, Places
  <2>2. QED
    BY <2>1
<1>4. QED
  BY <1>2, <1>3

\* A row of barber_services: where it is, and what it links.
LEMMA LinkPlaces ==
  ASSUME NEW i \in DOMAIN Script, Script[i].table = "barberServices"
  PROVE  /\ i \in BarbersAt
         /\ \E b \in DemoBarbers, s \in DemoServices :
              Script[i].key = <<b, s>> /\ Place(b) + 2 < i /\ i <= Place(b) + 7
<1>1. i \in BarbersAt
  BY ScriptLength, StatementKinds
<1>2. PICK b \in DemoBarbers, j \in 1..7 : i = Place(b) + j
  BY <1>1, BarberPlaces
<1>3. Script[i] = BarberRows(b)[j]
  BY <1>2, BarberPlaces
<1>4. PICK s \in DemoServices : Script[i].key = <<b, s>> /\ j > 2
  BY <1>3, BarberPart
<1>5. QED
  BY <1>1, <1>2, <1>4, BarberPlaces

LEMMA BarberUpserts ==
  /\ \A b \in DemoBarbers :
       Place(b) + 2 \in BarbersAt /\ Script[Place(b) + 2].table = "barbers" /\ Script[Place(b) + 2].key = b
  /\ \A j \in DOMAIN Script : Script[j].table = "barbers" =>
       \E b \in DemoBarbers : j = Place(b) + 2 /\ Script[j].key = b
<1>1. ASSUME NEW b \in DemoBarbers
      PROVE  Place(b) + 2 \in BarbersAt /\ Script[Place(b) + 2].table = "barbers" /\ Script[Place(b) + 2].key = b
  <2>1. 2 \in 1..7 /\ Script[Place(b) + 2] = BarberRows(b)[2]
    BY BarberPlaces
  <2>2. Place(b) + 2 \in BarbersAt
    BY BarberPlaces, PartBounds DEF BarbersAt
  <2>3. QED
    BY <2>1, <2>2, BarberPart
<1>2. ASSUME NEW j \in DOMAIN Script, Script[j].table = "barbers"
      PROVE  \E b \in DemoBarbers : j = Place(b) + 2 /\ Script[j].key = b
  <2>1. j \in BarbersAt
    BY <1>2, ScriptLength, StatementKinds
  <2>2. PICK b \in DemoBarbers, k \in 1..7 : j = Place(b) + k
    BY <2>1, BarberPlaces
  <2>3. Script[j] = BarberRows(b)[k]
    BY <2>2, BarberPlaces
  <2>4. QED
    BY <1>2, <2>2, <2>3, BarberPart
<1>3. QED
  BY <1>1, <1>2

LEMMA ServiceUpserts ==
  \A s \in DemoServices : \E j \in ServicesAt : Script[j].table = "services" /\ Script[j].key = s
<1>1. SUFFICES ASSUME NEW s \in DemoServices
               PROVE  \E j \in ServicesAt : Script[j].table = "services" /\ Script[j].key = s
  OBVIOUS
<1>2. PICK i \in 1..4 : ServiceList[i] = s
  BY ServicePart
<1>3. Script[ServicesFrom + i] = ServiceRows[i] /\ ServicesFrom + i \in ServicesAt
  BY ScriptParts, PartBounds DEF ServicesAt
<1>4. QED
  BY <1>2, <1>3, ServicePart DEF Part

\* The barber and the service that a statement names.
Names(stmt, b, s) ==
  \/ stmt.do = "create" /\ stmt.table \in {"entries", "bookings"} /\ b = stmt.row.barber /\ s = stmt.row.service
  \/ stmt.table = "barberServices" /\ b = stmt.key[1] /\ s = stmt.key[2]

\* Whom a statement names has been upserted.
LEMMA NamedAfterwards ==
  ASSUME NEW i \in DOMAIN Script, NEW b, NEW s, Names(Script[i], b, s)
  PROVE  \E j, k \in 1..(i - 1) : /\ Script[j].table = "barbers" /\ Script[j].key = b
                                  /\ Script[k].table = "services" /\ Script[k].key = s
<1>1. i \in 1..ScriptEnd
  BY ScriptLength
<1>2. b \in DemoBarbers /\ s \in DemoServices /\ Place(b) + 2 < i /\ i \in BarbersAt \cup AfterWipes
  <2>1. CASE Script[i].table = "barberServices"
    <3>1. PICK c \in DemoBarbers, t \in DemoServices : Script[i].key = <<c, t>> /\ Place(c) + 2 < i
      BY <2>1, LinkPlaces
    <3>2. Script[i].key[1] = c /\ Script[i].key[2] = t
      BY <3>1
    <3>3. b = c /\ s = t
      BY <2>1, <3>2 DEF Names
    <3>4. QED
      BY <2>1, <3>1, <3>3, LinkPlaces
  <2>2. CASE Script[i].table # "barberServices"
    <3>1. /\ Script[i].do = "create" /\ Script[i].table \in {"entries", "bookings"}
          /\ b = Script[i].row.barber /\ s = Script[i].row.service
      BY <2>2 DEF Names
    <3>2. i \in EntriesAt \cup BookingsAt
      BY <1>1, <3>1, StatementKinds
    <3>3. b \in DemoBarbers /\ s \in DemoServices
      BY <3>1, <3>2, ScriptPlaces
    <3>4. Place(b) + 2 \in BarbersAt
      BY <3>3, BarberUpserts
    <3>5. \A m \in BarbersAt : m < i
      BY <3>2, PartBounds DEF BarbersAt, EntriesAt, BookingsAt
    <3>6. QED
      BY <3>2, <3>3, <3>4, <3>5 DEF AfterWipes
  <2>3. QED
    BY <2>1, <2>2
<1>3. /\ Script[Place(b) + 2].table = "barbers" /\ Script[Place(b) + 2].key = b
      /\ Place(b) \in Nat
  BY <1>2, BarberUpserts, BarberPlaces
<1>4. PICK k \in ServicesAt : Script[k].table = "services" /\ Script[k].key = s
  BY <1>2, ServiceUpserts
<1>5. k \in 1..(i - 1)
  <2>1. i > BarbersFrom
    BY <1>2, PartBounds DEF BarbersAt, AfterWipes, EntriesAt, BookingsAt, ReviewsAt, PaymentsAt, AnalyticsAt, QrAt
  <2>2. QED
    BY <1>1, <2>1, PartBounds DEF ServicesAt
<1>6. Place(b) + 2 \in 1..(i - 1)
  BY <1>1, <1>2, <1>3
<1>7. QED
  BY <1>3, <1>4, <1>5, <1>6

\* A barber and a service that are linked are not put on offer once more.
LEMMA LinkedLast ==
  ASSUME NEW i \in DOMAIN Script, Script[i].table = "barberServices",
         NEW j \in DOMAIN Script, i <= j, Script[j].table \in {"barbers", "services"}
  PROVE  Script[j].key \notin {Script[i].key[1], Script[i].key[2]}
<1>1. i \in 1..ScriptEnd /\ j \in 1..ScriptEnd
  BY ScriptLength
<1>2. PICK b \in DemoBarbers, s \in DemoServices :
        Script[i].key = <<b, s>> /\ Place(b) + 2 < i /\ i <= Place(b) + 7
  BY LinkPlaces
<1>3. Script[i].key[1] = b /\ Script[i].key[2] = s
  BY <1>2
<1>4. Script[j].table = "barbers"
  <2>1. j \notin ServicesAt
    BY <1>1, LinkPlaces, Places
  <2>2. QED
    BY <1>1, <2>1, StatementKinds
<1>5. PICK c \in DemoBarbers : j = Place(c) + 2 /\ Script[j].key = c
  BY <1>4, BarberUpserts
<1>6. c # b
  BY <1>1, <1>2, <1>5, BarberPlaces
<1>7. c # s
  BY DEF DemoBarbers, DemoServices
<1>8. QED
  BY <1>3, <1>5, <1>6, <1>7

\* What is linked has an appointment.
LEMMA LinksAreBooked ==
  ASSUME NEW i \in DOMAIN Script, Script[i].table = "barberServices"
  PROVE  \E j, k \in BookingsAt : Script[j].row.barber = Script[i].key[1] /\ Script[k].row.service = Script[i].key[2]
<1>1. PICK b \in DemoBarbers, s \in DemoServices : Script[i].key = <<b, s>>
  BY LinkPlaces
<1>2. Script[i].key[1] = b /\ Script[i].key[2] = s
  BY <1>1
<1>3. PICK m \in 1..10 : Appointments[m].row.barber = b
  BY AppointmentPart
<1>4. PICK n \in 1..10 : Appointments[n].row.service = s
  BY AppointmentPart
<1>5. Script[BookingsFrom + m] = Appointments[m] /\ Script[BookingsFrom + n] = Appointments[n]
  BY ScriptParts
<1>6. BookingsFrom + m \in BookingsAt /\ BookingsFrom + n \in BookingsAt
  BY PartBounds DEF BookingsAt
<1>7. QED
  BY <1>2, <1>3, <1>4, <1>5, <1>6

-----------------------------------------------------------------------------
(* The script is carried out, statement by statement.                      *)

\* What a statement has left stays, unless its table is emptied.
LEMMA LeftStays ==
  ASSUME NEW stmt, Left(stmt), run' = run,
         stmt.table = "entries" => \A e \in entries : \E d \in entries' : d.id = e.id,
         stmt.table = "bookings" => bookings \subseteq bookings',
         stmt.table \notin {"entries", "bookings", "barberServices"} =>
           \A r \in rows : r[1] = stmt.table => r \in rows',
         stmt.table = "barberServices" =>
           /\ <<stmt.table, stmt.key, 0>> \in rows =>
                \/ <<stmt.table, stmt.key, 0>> \in rows'
                \/ ~Bookable(stmt.key[1], stmt.key[2])'
           /\ ~Bookable(stmt.key[1], stmt.key[2]) => ~Bookable(stmt.key[1], stmt.key[2])'
  PROVE  Left(stmt)'
<1>1. CASE stmt.table = "entries"
  BY <1>1 DEF Left
<1>2. CASE stmt.table = "bookings"
  BY <1>2 DEF Left
<1>3. CASE stmt.table = "barberServices"
  BY <1>3 DEF Left
<1>4. CASE stmt.table \notin {"entries", "bookings", "barberServices"}
  <2> DEFINE k == IF stmt.do = "upsert" THEN 0 ELSE run
             r == <<stmt.table, stmt.key, k>>
  <2>1. r \in rows /\ r[1] = stmt.table
    BY <1>4 DEF Left
  <2>2. r \in rows'
    BY <1>4, <2>1
  <2>3. QED
    BY <1>4, <2>2 DEF Left
<1>5. QED
  BY <1>1, <1>2, <1>3, <1>4

\* An emptied table has rows of this run only, as long as no others are
\* written.
LEMMA EmptiedStays ==
  ASSUME NEW table, Emptied(table), run' = run,
         table = "entries" => \A e \in entries' : e.id[1] = run \/ \E d \in entries : d.id = e.id,
         table = "bookings" => \A a \in bookings' : a.id[1] = run \/ a \in bookings,
         \A r \in rows' : r[1] = table => r[3] \in {0, run} \/ r \in rows
  PROVE  Emptied(table)'
BY DEF Emptied

\* A statement of this run done: all up to it are carried out.
LEMMA UpsertDone ==
  ASSUME RecordsTypeOK, ScriptInOrder, NEW n \in DOMAIN Script, at = n, run' = run,
         ~NamesMissing(Script[n]), UpsertRow(Script[n])
  PROVE  CarriedOut(n)' /\ BookingsHaveNames' /\ RowsAreOfTheScript'
<1> DEFINE stmt == Script[n]
<1>1. /\ stmt.do = "upsert" /\ rows' = rows \cup {<<stmt.table, stmt.key, 0>>}
      /\ offer' = IF stmt.table \in {"barbers", "services"} THEN [offer EXCEPT ![stmt.key] = "open"] ELSE offer
      /\ entries' = entries /\ bookings' = bookings
  BY DEF UpsertRow
<1>2. n \in 1..ScriptEnd /\ DOMAIN Script = 1..ScriptEnd
  BY ScriptLength
<1>3. run \in Nat /\ CarriedOut(n - 1) /\ BookingsHaveNames /\ RowsAreOfTheScript
  BY DEF ScriptInOrder
<1>4. \A b, s : Bookable(b, s) => Bookable(b, s)'
  BY <1>1 DEF Bookable, RecordsTypeOK
<1>5. ASSUME NEW i \in 1..(n - 1), Script[i].do # "wipe"
      PROVE  Left(Script[i])'
  <2>1. Left(Script[i])
    BY <1>3, <1>5 DEF CarriedOut
  <2>2. ASSUME Script[i].table = "barberServices", ~Bookable(Script[i].key[1], Script[i].key[2])
        PROVE  ~Bookable(Script[i].key[1], Script[i].key[2])'
    <3>1. i \in DOMAIN Script /\ i <= n
      BY <1>2, PartBounds
    <3>2. CASE stmt.table \in {"barbers", "services"}
      <4>1. stmt.key \notin {Script[i].key[1], Script[i].key[2]}
        BY <2>2, <3>1, <3>2, LinkedLast
      <4>2. offer' = [offer EXCEPT ![stmt.key] = "open"]
        BY <1>1, <3>2
      <4>3. \A x : x # stmt.key => offer'[x] = offer[x]
        BY <4>2 DEF RecordsTypeOK
      <4>4. QED
        BY <2>2, <4>1, <4>3 DEF Bookable
    <3>3. CASE stmt.table \notin {"barbers", "services"}
      BY <1>1, <2>2, <3>3 DEF Bookable
    <3>4. QED
      BY <3>2, <3>3
  <2>3. QED
    BY <1>1, <2>1, <2>2, LeftStays
<1>6. ASSUME NEW i \in 1..(n - 1), Script[i].do = "wipe"
      PROVE  Emptied(Script[i].table)'
  <2>1. Emptied(Script[i].table)
    BY <1>3, <1>6 DEF CarriedOut
  <2>2. QED
    BY <1>1, <2>1 DEF Emptied
<1>7. Left(stmt)'
  <2>1. stmt.table \notin {"entries", "bookings"}
    BY <1>1, KindsOfTables
  <2>2. <<stmt.table, stmt.key, 0>> \in rows'
    BY <1>1
  <2>3. QED
    BY <1>1, <2>1, <2>2 DEF Left
<1>8. CarriedOut(n)'
  <2>1. \A i \in 1..n : i \in 1..(n - 1) \/ i = n
    BY <1>2
  <2>2. QED
    BY <1>1, <1>5, <1>6, <1>7, <2>1 DEF CarriedOut
<1>9. BookingsHaveNames'
  BY <1>1, <1>3, <1>4 DEF BookingsHaveNames
<1>10. RowsAreOfTheScript'
  <2>1. ASSUME NEW r \in rows'
        PROVE  \E i \in DOMAIN Script, k \in 0..run' :
                 /\ Script[i].do = IF k = 0 THEN "upsert" ELSE "create"
                 /\ r = <<Script[i].table, Script[i].key, k>>
    <3>1. CASE r \in rows
      BY <1>3, <3>1 DEF RowsAreOfTheScript
    <3>2. CASE r = <<stmt.table, stmt.key, 0>>
      <4>1. 0 \in 0..run'
        BY <1>3
      <4>2. QED
        BY <1>1, <3>2, <4>1
    <3>3. QED
      BY <1>1, <3>1, <3>2
  <2>2. QED
    BY <1>1, <1>3, <2>1 DEF RowsAreOfTheScript
<1>11. QED
  BY <1>8, <1>9, <1>10

LEMMA CreateDone ==
  ASSUME RecordsTypeOK, ScriptInOrder, NEW n \in DOMAIN Script, at = n, run' = run,
         ~NamesMissing(Script[n]), CreateRow(Script[n])
  PROVE  CarriedOut(n)' /\ BookingsHaveNames' /\ RowsAreOfTheScript'
<1> DEFINE stmt == Script[n]
           id == <<run, stmt.key>>
           entry == [id |-> id, barber |-> stmt.row.barber, status |-> stmt.row.status,
                     served |-> IF stmt.row.status = "SERVED" THEN day ELSE 0]
           booking == [id |-> id, barber |-> stmt.row.barber, service |-> stmt.row.service,
                       customer |-> stmt.row.customer, status |-> stmt.row.status]
<1>1. /\ stmt.do = "create" /\ offer' = offer
      /\ entries' = IF stmt.table # "entries" THEN entries ELSE entries \cup {entry}
      /\ bookings' = IF stmt.table # "bookings" THEN bookings ELSE bookings \cup {booking}
      /\ rows' = IF stmt.table \in {"entries", "bookings"} THEN rows
                 ELSE rows \cup {<<stmt.table, stmt.key, run>>}
  BY DEF CreateRow
<1>2. n \in 1..ScriptEnd /\ DOMAIN Script = 1..ScriptEnd
  BY ScriptLength
<1>3. run \in Nat /\ run # 0 /\ CarriedOut(n - 1) /\ BookingsHaveNames /\ RowsAreOfTheScript
  <2>1. at # 0
    BY <1>2
  <2>2. QED
    BY <2>1 DEF ScriptInOrder
<1>4. /\ entry.id = id /\ "id" \in DOMAIN entry /\ id = <<entry.id[1], entry.id[2]>> /\ id[1] = run
      /\ booking.id = id /\ booking.barber = stmt.row.barber /\ booking.service = stmt.row.service
  OBVIOUS
<1>5. stmt.table = "bookings" => Bookable(stmt.row.barber, stmt.row.service)
  BY <1>1 DEF NamesMissing
<1>6. \A b, s : Bookable(b, s)' <=> Bookable(b, s)
  BY <1>1 DEF Bookable
<1> HIDE DEF stmt, id, entry, booking
<1>7. ASSUME NEW i \in 1..(n - 1), Script[i].do # "wipe"
      PROVE  Left(Script[i])'
  <2>1. Left(Script[i])
    BY <1>3, <1>7 DEF CarriedOut
  <2>2. entries \subseteq entries' /\ bookings \subseteq bookings' /\ rows \subseteq rows'
    BY <1>1
  <2>3. QED
    BY <1>6, <2>1, <2>2, LeftStays
<1>8. ASSUME NEW i \in 1..(n - 1), Script[i].do = "wipe"
      PROVE  Emptied(Script[i].table)'
  <2>1. Emptied(Script[i].table)
    BY <1>3, <1>8 DEF CarriedOut
  <2>2. /\ \A e \in entries' : e.id[1] = run \/ e \in entries
        /\ \A a \in bookings' : a.id[1] = run \/ a \in bookings
        /\ \A r \in rows' : r[3] = run \/ r \in rows
    BY <1>1, <1>4
  <2>3. QED
    BY <2>1, <2>2, EmptiedStays
<1>9. Left(stmt)'
  <2>1. stmt.table # "barberServices"
    BY <1>1, KindsOfTables DEF stmt
  <2>2. CASE stmt.table = "entries"
    BY <1>1, <1>4, <2>2 DEF Left, id
  <2>3. CASE stmt.table = "bookings"
    BY <1>1, <1>4, <2>3 DEF Left, id
  <2>4. CASE stmt.table \notin {"entries", "bookings"}
    BY <1>1, <2>1, <2>4 DEF Left
  <2>5. QED
    BY <2>2, <2>3, <2>4
<1>10. CarriedOut(n)'
  <2>1. \A i \in 1..n : i \in 1..(n - 1) \/ i = n
    BY <1>2
  <2>2. QED
    BY <1>1, <1>7, <1>8, <1>9, <2>1 DEF CarriedOut, stmt
<1>11. BookingsHaveNames'
  BY <1>1, <1>3, <1>4, <1>5, <1>6 DEF BookingsHaveNames
<1>12. RowsAreOfTheScript'
  <2>1. ASSUME NEW r \in rows'
        PROVE  \E i \in DOMAIN Script, k \in 0..run' :
                 /\ Script[i].do = IF k = 0 THEN "upsert" ELSE "create"
                 /\ r = <<Script[i].table, Script[i].key, k>>
    <3>1. CASE r \in rows
      BY <1>3, <3>1 DEF RowsAreOfTheScript
    <3>2. CASE r = <<stmt.table, stmt.key, run>>
      <4>1. run \in 0..run'
        BY <1>3
      <4>2. QED
        BY <1>1, <1>3, <3>2, <4>1 DEF stmt
    <3>3. QED
      BY <1>1, <3>1, <3>2
  <2>2. \A e \in entries' : "id" \in DOMAIN e /\ e.id = <<e.id[1], e.id[2]>>
    BY <1>1, <1>3, <1>4 DEF RowsAreOfTheScript
  <2>3. \A a \in bookings' : a.id = <<a.id[1], a.id[2]>>
    BY <1>1, <1>3, <1>4 DEF RowsAreOfTheScript
  <2>4. QED
    BY <2>1, <2>2, <2>3 DEF RowsAreOfTheScript
<1>13. QED
  BY <1>10, <1>11, <1>12

LEMMA WipeDone ==
  ASSUME RecordsTypeOK, ScriptInOrder, NEW n \in DOMAIN Script, at = n, run' = run, WipeTable(Script[n])
  PROVE  CarriedOut(n)' /\ BookingsHaveNames' /\ RowsAreOfTheScript'
<1> DEFINE stmt == Script[n]
<1>1. /\ stmt.do = "wipe" /\ offer' = offer
      /\ entries' = IF stmt.table = "entries" THEN {} ELSE entries
      /\ bookings' = IF stmt.table = "bookings" THEN {} ELSE bookings
      /\ rows' = {r \in rows : r[1] # stmt.table}
  BY DEF WipeTable
<1>2. n \in 1..ScriptEnd /\ DOMAIN Script = 1..ScriptEnd
  BY ScriptLength
<1>3. run \in Nat /\ CarriedOut(n - 1) /\ BookingsHaveNames /\ RowsAreOfTheScript
  BY DEF ScriptInOrder
<1>4. \A b, s : Bookable(b, s)' <=> Bookable(b, s)
  BY <1>1 DEF Bookable
<1>5. entries' \subseteq entries /\ bookings' \subseteq bookings /\ rows' \subseteq rows
  BY <1>1
<1>6. ASSUME NEW i \in 1..(n - 1), Script[i].do # "wipe"
      PROVE  Left(Script[i])'
  <2>1. Left(Script[i])
    BY <1>3, <1>6 DEF CarriedOut
  <2>2. Script[i].table # stmt.table
    BY <1>1, WipedFirst
  <2>3. /\ Script[i].table = "entries" => entries' = entries
        /\ Script[i].table = "bookings" => bookings' = bookings
        /\ \A r \in rows : r[1] = Script[i].table => r \in rows'
    BY <1>1, <2>2
  <2>4. QED
    BY <1>4, <2>1, <2>3, LeftStays
<1>7. ASSUME NEW i \in 1..(n - 1), Script[i].do = "wipe"
      PROVE  Emptied(Script[i].table)'
  <2>1. Emptied(Script[i].table)
    BY <1>3, <1>7 DEF CarriedOut
  <2>2. QED
    BY <1>5, <2>1 DEF Emptied
<1>8. Emptied(stmt.table)'
  BY <1>1 DEF Emptied
<1>9. CarriedOut(n)'
  <2>1. \A i \in 1..n : i \in 1..(n - 1) \/ i = n
    BY <1>2
  <2>2. QED
    BY <1>1, <1>6, <1>7, <1>8, <2>1 DEF CarriedOut
<1>10. BookingsHaveNames'
  BY <1>3, <1>4, <1>5 DEF BookingsHaveNames
<1>11. RowsAreOfTheScript'
  BY <1>3, <1>5 DEF RowsAreOfTheScript
<1>12. QED
  BY <1>9, <1>10, <1>11

LEMMA StatementDone ==
  ASSUME RecordsTypeOK, ScriptInOrder, NEW n \in DOMAIN Script, at = n, run' = run,
         ~NamesMissing(Script[n]),
         UpsertRow(Script[n]) \/ CreateRow(Script[n]) \/ WipeTable(Script[n])
  PROVE  CarriedOut(n)' /\ BookingsHaveNames' /\ RowsAreOfTheScript'
BY UpsertDone, CreateDone, WipeDone

\* What has been put on offer is so still when a statement is done.
LEMMA OfferedBy ==
  ASSUME RecordsTypeOK, ScriptInOrder, NEW n \in DOMAIN Script, at = n, ~removed,
         UpsertRow(Script[n]) \/ CreateRow(Script[n]) \/ WipeTable(Script[n]),
         NEW i \in 1..n, Script[i].table \in {"barbers", "services"}
  PROVE  offer'[Script[i].key] = "open"
<1>1. n \in 1..ScriptEnd /\ DOMAIN Script = 1..ScriptEnd /\ i \in DOMAIN Script
  BY ScriptLength
<1>2. Script[i].key \in DOMAIN offer
  BY <1>1, DemoSeedAssumption DEF RecordsTypeOK
<1>3. i # n => offer[Script[i].key] = "open"
  <2>1. i # n => i \in 1..(n - 1)
    BY <1>1
  <2>2. QED
    BY <2>1 DEF ScriptInOrder, OfferedSoFar
<1>4. CASE UpsertRow(Script[n])
  <2>1. offer' = IF Script[n].table \in {"barbers", "services"}
                 THEN [offer EXCEPT ![Script[n].key] = "open"] ELSE offer
    BY <1>4 DEF UpsertRow
  <2>2. QED
    BY <1>2, <1>3, <2>1
<1>5. CASE CreateRow(Script[n]) \/ WipeTable(Script[n])
  <2>1. offer' = offer /\ Script[n].do # "upsert"
    BY <1>5 DEF CreateRow, WipeTable
  <2>2. i # n
    BY <1>1, <2>1, KindsOfTables
  <2>3. QED
    BY <1>3, <2>1, <2>2
<1>6. QED
  BY <1>4, <1>5

\* The script stops or waits.
LEMMA ScriptStands ==
  ASSUME ScriptInOrder, run' = run, at' = 0, BookingsHaveNames', RowsAreOfTheScript'
  PROVE  ScriptInOrder'
<1>1. run' \in Nat /\ at' \in 0..Len(Script)
  BY ScriptLength DEF ScriptInOrder
<1>2. CarriedOut(at - 1)'
  <2>1. \A i \in 1..(at' - 1) : FALSE
    OBVIOUS
  <2>2. QED
    BY <2>1 DEF CarriedOut
<1>3. OfferedSoFar'
  <2>1. \A i \in 1..(at' - 1) : FALSE
    OBVIOUS
  <2>2. QED
    BY <2>1 DEF OfferedSoFar
<1>4. QED
  BY <1>1, <1>2, <1>3 DEF ScriptInOrder

LEMMA ScriptStarts ==
  ASSUME ScriptInOrder, SeedStart
  PROVE  ScriptInOrder'
<1>1. /\ run' = run + 1 /\ at' = 1 /\ stopped' = "no" /\ rows' = rows
      /\ offer' = offer /\ entries' = entries /\ bookings' = bookings
  BY DEF SeedStart, records
<1>2. run \in Nat /\ run' \in Nat /\ run' # 0 /\ at' \in 0..Len(Script)
  BY <1>1, ScriptLength, PartBounds DEF ScriptInOrder
<1>3. \A i \in 1..(at' - 1) : FALSE
  BY <1>1
<1>4. CarriedOut(at - 1)' /\ OfferedSoFar'
  BY <1>3 DEF CarriedOut, OfferedSoFar
<1>5. BookingsHaveNames'
  BY <1>1 DEF ScriptInOrder, BookingsHaveNames, Bookable
<1>6. RowsAreOfTheScript'
  <2>1. \A k \in 0..run : k \in 0..run'
    BY <1>1, <1>2
  <2>2. QED
    BY <1>1, <2>1 DEF ScriptInOrder, RowsAreOfTheScript
<1>7. QED
  BY <1>1, <1>2, <1>4, <1>5, <1>6 DEF ScriptInOrder

LEMMA ScriptGoesOn ==
  ASSUME RecordsTypeOK, ScriptInOrder, SeedStep
  PROVE  ScriptInOrder'
<1>1. at # 0 /\ run' = run /\ removed' = removed
  BY DEF SeedStep
<1>2. PICK n \in DOMAIN Script : n = at
  BY <1>1, ScriptLength DEF ScriptInOrder
<1>3. CASE at' = 0 /\ UNCHANGED <<records, rows>>
  <2>1. BookingsHaveNames' /\ RowsAreOfTheScript'
    BY <1>1, <1>3 DEF ScriptInOrder, BookingsHaveNames, Bookable, RowsAreOfTheScript, records
  <2>2. QED
    BY <1>1, <1>3, <2>1, ScriptStands
<1>4. CASE /\ ~NamesMissing(Script[n])
           /\ UpsertRow(Script[n]) \/ CreateRow(Script[n]) \/ WipeTable(Script[n])
           /\ SeedGoOn
  <2>1. CarriedOut(n)' /\ BookingsHaveNames' /\ RowsAreOfTheScript'
    BY <1>1, <1>2, <1>4, StatementDone
  <2>2. CASE at = Len(Script)
    <3>1. at' = 0
      BY <1>4, <2>2 DEF SeedGoOn, SeedStop
    <3>2. QED
      BY <1>1, <2>1, <3>1, ScriptStands
  <2>3. CASE at # Len(Script)
    <3>1. at' = n + 1 /\ stopped' = stopped
      BY <1>2, <1>4, <2>3 DEF SeedGoOn
    <3>2. n \in 1..ScriptEnd /\ n # ScriptEnd /\ Len(Script) = ScriptEnd
      BY <1>2, <2>3, ScriptLength
    <3>3. at' \in 0..Len(Script) /\ at' - 1 = n
      BY <3>1, <3>2
    <3>4. CarriedOut(at - 1)'
      BY <2>1, <3>3 DEF CarriedOut
    <3>5. OfferedSoFar'
      <4>1. ASSUME ~removed, NEW i \in 1..n, Script[i].table \in {"barbers", "services"}
            PROVE  offer'[Script[i].key] = "open"
        BY <1>2, <1>4, <4>1, OfferedBy
      <4>2. QED
        BY <1>1, <3>3, <4>1 DEF OfferedSoFar
    <3>6. run' \in Nat /\ run' # 0 /\ stopped' = "no"
      BY <1>1, <3>1 DEF ScriptInOrder
    <3>7. QED
      BY <2>1, <3>3, <3>4, <3>5, <3>6 DEF ScriptInOrder
  <2>4. QED
    BY <2>2, <2>3
<1>5. QED
  BY <1>2, <1>3, <1>4 DEF SeedStep, SeedStop

\* The desk deletes a barber or a service that no appointment names.
LEMMA DeskDisturbs ==
  ASSUME RecordsTypeOK, ScriptInOrder, NEW x, DeskDeletes(x)
  PROVE  ScriptInOrder'
<1>1. /\ offer' = [offer EXCEPT ![x] = "none"] /\ ~Booked(x) /\ bookings' = bookings
      /\ \/ entries' = {IF e.barber = x THEN [e EXCEPT !.barber = Nobody] ELSE e : e \in entries}
         \/ entries' = entries
      /\ x \in Barbers \cup Services
  BY DEF DeskDeletes, DeleteBarber, DeleteService
<1>2. /\ rows' = {r \in rows : r[1] = "barberServices" => x \notin {r[2][1], r[2][2]}}
      /\ removed' = (at # 0) /\ run' = run /\ at' = at /\ stopped' = stopped
  BY DEF DeskDeletes
<1>3. /\ run \in Nat /\ at \in 0..Len(Script) /\ (at # 0 => run # 0 /\ stopped = "no")
      /\ CarriedOut(at - 1) /\ BookingsHaveNames /\ RowsAreOfTheScript
  BY DEF ScriptInOrder
<1>4. offer'[x] = "none" /\ \A y : y # x => offer'[y] = offer[y]
  BY <1>1 DEF RecordsTypeOK
<1> DEFINE freed(e) == [e EXCEPT !.barber = Nobody]
<1>5. \A e \in entries : /\ "id" \in DOMAIN freed(e) /\ freed(e).id = e.id
                         /\ e.id = <<e.id[1], e.id[2]>> /\ "id" \in DOMAIN e
  BY <1>3 DEF RowsAreOfTheScript
<1> HIDE DEF freed
<1>6. /\ \A d \in entries' : "id" \in DOMAIN d /\ \E e \in entries : d.id = e.id
      /\ \A e \in entries : \E d \in entries' : d.id = e.id
  <2>1. CASE entries' = entries
    BY <1>5, <2>1
  <2>2. CASE entries' = {IF e.barber = x THEN freed(e) ELSE e : e \in entries}
    BY <1>5, <2>2
  <2>3. QED
    BY <1>1, <2>1, <2>2 DEF freed
<1>7. BookingsHaveNames'
  <2>1. ASSUME NEW a \in bookings
        PROVE  Bookable(a.barber, a.service)'
    <3>1. a.barber # x /\ a.service # x
      BY <1>1 DEF Booked
    <3>2. QED
      BY <1>3, <1>4, <3>1 DEF BookingsHaveNames, Bookable
  <2>2. QED
    BY <1>1, <2>1 DEF BookingsHaveNames
<1>8. RowsAreOfTheScript'
  <2>1. \A d \in entries' : "id" \in DOMAIN d /\ d.id = <<d.id[1], d.id[2]>>
    BY <1>5, <1>6
  <2>2. rows' \subseteq rows
    BY <1>2
  <2>3. QED
    BY <1>1, <1>2, <1>3, <2>1, <2>2 DEF RowsAreOfTheScript
<1>9. CarriedOut(at - 1)'
  <2>1. ASSUME NEW i \in 1..(at - 1), Script[i].do # "wipe"
        PROVE  Left(Script[i])'
    <3> DEFINE stmt == Script[i]
               link == <<stmt.table, stmt.key, 0>>
    <3>1. Left(stmt)
      BY <1>3, <2>1 DEF CarriedOut
    <3>2. \A r \in rows : r[1] # "barberServices" => r \in rows'
      BY <1>2
    <3>3. ASSUME stmt.table = "barberServices", link \in rows
          PROVE  link \in rows' \/ ~Bookable(stmt.key[1], stmt.key[2])'
      <4>1. link[1] = stmt.table /\ link[2] = stmt.key
        OBVIOUS
      <4>2. CASE x \in {stmt.key[1], stmt.key[2]}
        BY <1>4, <4>2 DEF Bookable
      <4>3. CASE x \notin {stmt.key[1], stmt.key[2]}
        BY <1>2, <3>3, <4>1, <4>3
      <4>4. QED
        BY <4>2, <4>3
    <3>4. ~Bookable(stmt.key[1], stmt.key[2]) => ~Bookable(stmt.key[1], stmt.key[2])'
      BY <1>4 DEF Bookable
    <3>5. QED
      BY <1>1, <1>2, <1>6, <3>1, <3>2, <3>3, <3>4, LeftStays
  <2>2. ASSUME NEW i \in 1..(at - 1), Script[i].do = "wipe"
        PROVE  Emptied(Script[i].table)'
    <3>1. Emptied(Script[i].table)
      BY <1>3, <2>2 DEF CarriedOut
    <3>2. rows' \subseteq rows
      BY <1>2
    <3>3. QED
      BY <1>1, <1>2, <1>6, <3>1, <3>2, EmptiedStays
  <2>3. QED
    BY <1>2, <2>1, <2>2 DEF CarriedOut
<1>10. OfferedSoFar'
  <2>1. CASE at = 0
    <3>1. \A i \in 1..(at' - 1) : FALSE
      BY <1>2, <2>1
    <3>2. QED
      BY <3>1 DEF OfferedSoFar
  <2>2. CASE at # 0
    BY <1>2, <2>2 DEF OfferedSoFar
  <2>3. QED
    BY <2>1, <2>2
<1>11. QED
  BY <1>2, <1>3, <1>7, <1>8, <1>9, <1>10 DEF ScriptInOrder

LEMMA ScriptInvInit == Init => ScriptInv
<1> SUFFICES ASSUME Init
             PROVE  ScriptInv
  OBVIOUS
<1>1. SeedInv
  BY SeedInvInit
<1>2. run = 0 /\ at = 0 /\ rows = {} /\ entries = {} /\ bookings = {}
  BY DEF Init
<1>3. \A i \in 1..(at - 1) : FALSE
  BY <1>2
<1>4. CarriedOut(at - 1) /\ OfferedSoFar
  BY <1>3 DEF CarriedOut, OfferedSoFar
<1>5. BookingsHaveNames /\ RowsAreOfTheScript
  BY <1>2 DEF BookingsHaveNames, RowsAreOfTheScript
<1>6. run \in Nat /\ at \in 0..Len(Script)
  BY <1>2, ScriptLength
<1>7. QED
  BY <1>1, <1>2, <1>4, <1>5, <1>6 DEF ScriptInv, ScriptInOrder

LEMMA ScriptInvNext == ScriptInv /\ [Next]_seedVars => ScriptInv'
<1> SUFFICES ASSUME ScriptInv, [Next]_seedVars
             PROVE  ScriptInv'
  OBVIOUS
<1>1. SeedInv /\ SeedInv' /\ RecordsTypeOK
  BY SeedInvNext DEF ScriptInv, SeedInv, ShopInv
<1>2. CASE uuids
  <2>1. uuids' = uuids
    BY <1>2 DEF Next, Desk, CallStep, NewDay, UpsertBarber, UpsertService, DeleteBarber, DeleteService, MoveEntry,
          CreateAppointment, CancelAppointment, AskToJoin, InsertEntry, BookAsGuest, FindBarber, FindService,
          FindGuest, CreateGuest, InsertBooking, AskStats, AnswerStats, ReadCount, FailCall, SeedStart,
          SeedStep, SeedDies, StrangerComes, DeskDeletes, seedVars
  <2>2. QED
    BY <1>1, <1>2, <2>1 DEF ScriptInv
<1>3. CASE ~uuids
  <2>1. ScriptInOrder
    BY <1>3 DEF ScriptInv
  <2>2. CASE SeedStart
    BY <1>1, <2>1, <2>2, ScriptStarts DEF ScriptInv
  <2>3. CASE SeedStep
    BY <1>1, <2>1, <2>3, ScriptGoesOn DEF ScriptInv
  <2>4. CASE SeedDies
    <3>1. BookingsHaveNames' /\ RowsAreOfTheScript'
      BY <2>1, <2>4 DEF ScriptInOrder, SeedDies, BookingsHaveNames, Bookable, RowsAreOfTheScript, records
    <3>2. run' = run /\ at' = 0
      BY <2>4 DEF SeedDies, SeedStop
    <3>3. QED
      BY <1>1, <2>1, <3>1, <3>2, ScriptStands DEF ScriptInv
  <2>5. CASE (\E p \in Strangers : StrangerComes(p)) \/ UNCHANGED seedVars
    <3>1. UNCHANGED <<offer, entries, bookings, run, at, rows, stopped, removed>>
      BY <2>5 DEF StrangerComes, seedVars, records, script
    <3>2. ScriptInOrder'
      BY <2>1, <3>1 DEF ScriptInOrder, BookingsHaveNames, Bookable, RowsAreOfTheScript, CarriedOut, Left,
            Emptied, OfferedSoFar
    <3>3. QED
      BY <1>1, <3>2 DEF ScriptInv
  <2>6. CASE \E x \in Asked : DeskDeletes(x)
    BY <1>1, <2>1, <2>6, DeskDisturbs DEF ScriptInv
  <2>7. QED
    BY <1>3, <2>2, <2>3, <2>4, <2>5, <2>6 DEF Next
<1>4. QED
  BY <1>2, <1>3

\* A row that another table's row must name is there, as long as the script is
\* carried out.
LEMMA LinksAreThere ==
  ASSUME CarriedOut(ScriptEnd)', BookingsHaveNames', NEW i \in DOMAIN Script, Script[i].table = "barberServices"
  PROVE  Bookable(Script[i].key[1], Script[i].key[2])'
<1>1. PICK j, k \in BookingsAt : Script[j].row.barber = Script[i].key[1] /\ Script[k].row.service = Script[i].key[2]
  BY LinksAreBooked
<1>2. ASSUME NEW m \in BookingsAt
      PROVE  \E a \in bookings' : a.barber = Script[m].row.barber /\ a.service = Script[m].row.service
  <2>1. Script[m].do = "create" /\ Script[m].table = "bookings"
    BY ScriptPlaces
  <2>2. m \in 1..ScriptEnd
    BY PartBounds DEF BookingsAt
  <2>3. Left(Script[m])'
    BY <2>1, <2>2 DEF CarriedOut
  <2>4. QED
    BY <2>1, <2>3 DEF Left
<1>3. PICK a \in bookings' : a.barber = Script[i].key[1]
  BY <1>1, <1>2
<1>4. PICK b \in bookings' : b.service = Script[i].key[2]
  BY <1>1, <1>2
<1>5. QED
  BY <1>3, <1>4 DEF BookingsHaveNames, Bookable

\* When all is carried out, a statement has one row.
LEMMA OneCopy ==
  ASSUME run' \in Nat, run' # 0, CarriedOut(ScriptEnd)', BookingsHaveNames', RowsAreOfTheScript',
         NEW i \in DOMAIN Script, Script[i].do # "wipe"
  PROVE  Cardinality(Copies(Script[i])') = 1
<1> DEFINE stmt == Script[i]
<1>1. i \in 1..ScriptEnd /\ DOMAIN Script = 1..ScriptEnd
  BY ScriptLength
<1>2. Left(stmt)'
  BY <1>1 DEF CarriedOut
<1>3. stmt.do \in {"upsert", "create"}
  BY KindsOfTables
<1>4. stmt.do = "create" => Emptied(stmt.table)'
  <2>1. SUFFICES ASSUME stmt.do = "create"
                 PROVE  Emptied(stmt.table)'
    OBVIOUS
  <2>2. PICK j \in 1..(i - 1) : Script[j].do = "wipe" /\ Script[j].table = stmt.table
    BY <2>1, WipedBefore
  <2>3. j \in 1..ScriptEnd
    BY <1>1, PartBounds
  <2>4. QED
    BY <2>2, <2>3 DEF CarriedOut
<1>5. \E c : Copies(stmt)' = {c}
  <2>1. CASE stmt.table = "entries"
    <3>1. stmt.do = "create"
      BY <1>3, <2>1, KindsOfTables
    <3>2. PICK e \in entries' : e.id = <<run', stmt.key>>
      BY <1>2, <2>1 DEF Left
    <3>3. ASSUME NEW d \in entries', d.id[2] = stmt.key
          PROVE  d.id = <<run', stmt.key>>
      <4>1. d.id[1] = run'
        BY <1>4, <2>1, <3>1 DEF Emptied
      <4>2. d.id = <<d.id[1], d.id[2]>>
        BY DEF RowsAreOfTheScript
      <4>3. QED
        BY <3>3, <4>1, <4>2
    <3>4. e.id[2] = stmt.key
      BY <3>2
    <3>5. Copies(stmt)' = {d.id : d \in {r \in entries' : r.id[2] = stmt.key}}
      BY <2>1 DEF Copies
    <3>6. Copies(stmt)' = {<<run', stmt.key>>}
      BY <3>2, <3>3, <3>4, <3>5
    <3>7. QED
      BY <3>6
  <2>2. CASE stmt.table = "bookings"
    <3>1. stmt.do = "create"
      BY <1>3, <2>2, KindsOfTables
    <3>2. PICK e \in bookings' : e.id = <<run', stmt.key>>
      BY <1>2, <2>2 DEF Left
    <3>3. ASSUME NEW d \in bookings', d.id[2] = stmt.key
          PROVE  d.id = <<run', stmt.key>>
      <4>1. d.id[1] = run'
        BY <1>4, <2>2, <3>1 DEF Emptied
      <4>2. d.id = <<d.id[1], d.id[2]>>
        BY DEF RowsAreOfTheScript
      <4>3. QED
        BY <3>3, <4>1, <4>2
    <3>4. e.id[2] = stmt.key
      BY <3>2
    <3>5. Copies(stmt)' = {d.id : d \in {r \in bookings' : r.id[2] = stmt.key}}
      BY <2>2 DEF Copies
    <3>6. Copies(stmt)' = {<<run', stmt.key>>}
      BY <3>2, <3>3, <3>4, <3>5
    <3>7. QED
      BY <3>6
  <2>3. CASE stmt.table \notin {"entries", "bookings"}
    <3> DEFINE k == IF stmt.do = "upsert" THEN 0 ELSE run'
               row == <<stmt.table, stmt.key, k>>
    <3>1. row \in rows'
      <4>1. CASE stmt.table = "barberServices"
        <5>1. Bookable(stmt.key[1], stmt.key[2])'
          BY <4>1, LinksAreThere
        <5>2. <<stmt.table, stmt.key, 0>> \in rows'
          BY <1>2, <4>1, <5>1 DEF Left
        <5>3. stmt.do = "upsert"
          BY <4>1, KindsOfTables
        <5>4. QED
          BY <5>2, <5>3
      <4>2. CASE stmt.table # "barberServices"
        BY <1>2, <2>3, <4>2 DEF Left
      <4>3. QED
        BY <4>1, <4>2
    <3>2. ASSUME NEW r \in rows', r[1] = stmt.table, r[2] = stmt.key
          PROVE  r = row
      <4>1. PICK j \in DOMAIN Script, m \in 0..run' :
              /\ Script[j].do = IF m = 0 THEN "upsert" ELSE "create"
              /\ r = <<Script[j].table, Script[j].key, m>>
        BY DEF RowsAreOfTheScript
      <4>2. Script[j].table = stmt.table /\ Script[j].key = stmt.key /\ r[3] = m
        BY <3>2, <4>1
      <4>3. Script[j].do # "wipe"
        BY <4>1
      <4>4. Script[j].do = stmt.do
        BY <4>2, <4>3, OneWayOfWriting
      <4>5. CASE stmt.do = "upsert"
        <5>1. m = 0
          BY <4>1, <4>4, <4>5
        <5>2. QED
          BY <4>1, <4>2, <4>5, <5>1
      <4>6. CASE stmt.do = "create"
        <5>1. m # 0
          BY <4>1, <4>4, <4>6
        <5>2. r[3] \in {0, run'}
          BY <1>4, <3>2, <4>6 DEF Emptied
        <5>3. QED
          BY <4>1, <4>2, <4>6, <5>1, <5>2
      <4>7. QED
        BY <1>3, <4>5, <4>6
    <3>3. row[1] = stmt.table /\ row[2] = stmt.key
      OBVIOUS
    <3>4. Copies(stmt)' = {r \in rows' : r[1] = stmt.table /\ r[2] = stmt.key}
      BY <2>3 DEF Copies
    <3> HIDE DEF row, stmt
    <3>5. Copies(stmt)' = {row}
      BY <3>1, <3>2, <3>3, <3>4
    <3>6. QED
      BY <3>5
  <2>4. QED
    BY <2>1, <2>2, <2>3
<1>6. QED
  BY <1>5, FS_Singleton

\* The script reaches its end only by its last statement.
LEMMA EndReached ==
  ASSUME ScriptInv, [Next]_seedVars, at # 0, stopped' = "done"
  PROVE  /\ run' \in Nat /\ run' # 0
         /\ CarriedOut(ScriptEnd)' /\ BookingsHaveNames' /\ RowsAreOfTheScript'
<1>1. ~uuids /\ ScriptInOrder /\ RecordsTypeOK
  BY DEF ScriptInv, SeedInv, ShopInv
<1>2. run \in Nat /\ run # 0 /\ stopped = "no" /\ at \in 0..Len(Script)
  BY <1>1 DEF ScriptInOrder
<1>3. SeedStep
  BY <1>1, <1>2 DEF Next, SeedStart, SeedDies, SeedStop, StrangerComes, DeskDeletes, seedVars, script
<1>4. run' = run
  BY <1>3 DEF SeedStep
<1>5. PICK n \in DOMAIN Script : n = at
  BY <1>2, ScriptLength
<1>6. /\ ~NamesMissing(Script[n])
      /\ UpsertRow(Script[n]) \/ CreateRow(Script[n]) \/ WipeTable(Script[n])
      /\ SeedGoOn
  BY <1>3, <1>5 DEF SeedStep, SeedStop
<1>7. n = ScriptEnd
  BY <1>2, <1>5, <1>6, ScriptLength DEF SeedGoOn
<1>8. CarriedOut(n)' /\ BookingsHaveNames' /\ RowsAreOfTheScript'
  BY <1>1, <1>4, <1>5, <1>6, StatementDone
<1>9. QED
  BY <1>2, <1>4, <1>7, <1>8

LEMMA ScriptInvariant == Spec => []ScriptInv
BY ScriptInvInit, ScriptInvNext, PTL DEF Spec

\* A script that came to its end has left each of its rows exactly once,
\* whatever an earlier run that died had left and whatever the desk deleted
\* meanwhile (main() of seed.ts).
THEOREM FinishedSeedsAreComplete == Spec => FinishedSeedIsComplete
<1>1. ScriptInv /\ [Next]_seedVars =>
        [at # 0 /\ stopped' = "done" =>
           \A i \in {j \in DOMAIN Script : Script[j].do # "wipe"} : Cardinality(Copies(Script[i])') = 1]_seedVars
  BY EndReached, OneCopy
<1>2. QED
  BY <1>1, ScriptInvariant, PTL DEF Spec, FinishedSeedIsComplete

\* A script that stops because somebody has a phone number or an address of
\* its people has not wiped anything yet; one that stops for a missing barber
\* or service was disturbed by the desk (the order of main() in seed.ts).
THEOREM SeedsStopBeforeTheWipe == Spec => SeedStopsBeforeTheWipe
<1>1. ScriptInv /\ [Next]_seedVars =>
        [/\ stopped # "taken" /\ stopped' = "taken" => \A i \in 1..at : Script[i].do # "wipe"
         /\ stopped # "missing" /\ stopped' = "missing" => removed]_seedVars
  <2> SUFFICES ASSUME ScriptInv, [Next]_seedVars
               PROVE  /\ stopped # "taken" /\ stopped' = "taken" => \A i \in 1..at : Script[i].do # "wipe"
                      /\ stopped # "missing" /\ stopped' = "missing" => removed
    OBVIOUS
  <2>1. ASSUME stopped' \in {"taken", "missing"}, stopped' # stopped
        PROVE  SeedStep
    BY <2>1 DEF Next, SeedStart, SeedDies, SeedStop, StrangerComes, DeskDeletes, seedVars, script
  <2>2. ASSUME SeedStep
        PROVE  ScriptInOrder /\ at \in DOMAIN Script
    BY <2>2, ScriptLength DEF ScriptInv, SeedInv, SeedStep, ScriptInOrder
  <2>3. ASSUME stopped # "taken", stopped' = "taken", NEW i \in 1..at
        PROVE  Script[i].do # "wipe"
    <3>1. SeedStep
      BY <2>1, <2>3
    <3>2. at \in DOMAIN Script
      BY <2>2, <3>1
    <3>3. Script[at].table = "users"
      BY <2>2, <2>3, <3>1 DEF SeedStep, SeedStop, SeedGoOn, ScriptInOrder, Taken
    <3>4. QED
      BY <3>2, <3>3, UsersFirst
  <2>4. ASSUME stopped # "missing", stopped' = "missing", ~removed
        PROVE  FALSE
    <3>1. SeedStep
      BY <2>1, <2>4
    <3>2. at \in DOMAIN Script /\ ScriptInOrder
      BY <2>2, <3>1
    <3>3. NamesMissing(Script[at])
      BY <2>2, <2>4, <3>1 DEF SeedStep, SeedStop, SeedGoOn, ScriptInOrder
    <3>4. PICK b, s : Names(Script[at], b, s) /\ ~Bookable(b, s)
      BY <3>3 DEF NamesMissing, Names
    <3>5. PICK j, k \in 1..(at - 1) : /\ Script[j].table = "barbers" /\ Script[j].key = b
                                      /\ Script[k].table = "services" /\ Script[k].key = s
      BY <3>2, <3>4, NamedAfterwards
    <3>6. offer[b] = "open" /\ offer[s] = "open"
      BY <2>4, <3>2, <3>5 DEF ScriptInOrder, OfferedSoFar
    <3>7. QED
      BY <3>4, <3>6 DEF Bookable
  <2>5. QED
    BY <2>3, <2>4
<1>2. QED
  BY <1>1, ScriptInvariant, PTL DEF Spec, SeedStopsBeforeTheWipe
=============================================================================
