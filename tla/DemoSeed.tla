------------------------------ MODULE DemoSeed ------------------------------
(***************************************************************************)
(* prisma/seed.ts, which fills the demo shop, together with the desk of    *)
(* ShopRecords.tla working on it meanwhile.  The script is a sequence of   *)
(* statements, one round trip each; it may die after any of them, and be   *)
(* run again.  The ids it gives are not UUIDs.                             *)
(***************************************************************************)
EXTENDS ShopRecords, Sequences

CONSTANTS
  MaxRuns,    \* bound: times that the script is run
  Strangers   \* bound: people whom another shop or a sign-in may make known

VARIABLES
  run,       \* how often the script was started
  at,        \* the statement it is at, 0 when it is not running
  rows,      \* rows of all other tables, <<table, key, run>>
  stopped,   \* why the script stopped last
  removed    \* the desk deleted a barber or a service under this run

script == <<run, at, rows, stopped, removed>>
seedVars == <<uuids, day, records, call, script>>

Upsert(table, key) == [do |-> "upsert", table |-> table, key |-> key, row |-> {}]

Create(table, key, row) == [do |-> "create", table |-> table, key |-> key, row |-> row]

Wipe(table) == [do |-> "wipe", table |-> table, key |-> "all", row |-> {}]

UpsertAll(table, keys) == [i \in DOMAIN keys |-> Upsert(table, keys[i])]

-----------------------------------------------------------------------------
(* What the script writes.                                                 *)

Plans == UpsertAll("plans", <<"Free", "Pro", "Enterprise">>)

Owners == UpsertAll("users", <<"owner", "admin">>)

Shop == UpsertAll("shop", <<"shop", "ownerRole", "adminRole">>)

Branch == <<Upsert("shop", "branch")>> \o UpsertAll("hours", <<0, 1, 2, 3, 4, 5, 6>>)

Subscription == <<Upsert("shop", "subscription")>>

ServiceList == <<"Haircut", "Beard", "Combo", "Spa">>

ServiceRows == UpsertAll("services", ServiceList)

\* A barber's user, row, role and services.
BarberRows(b) ==
  <<Upsert("users", b), Upsert("barbers", b), Upsert("roles", b)>>
    \o [i \in 1..4 |-> Upsert("barberServices", <<b, ServiceList[i]>>)]

AllBarbers == BarberRows("Arjun") \o BarberRows("Karthik") \o BarberRows("Rahim") \o BarberRows("Vijay")

Customers ==
  UpsertAll("users", <<"Suresh", "Ramesh", "Priya", "Anand", "Kavitha", "Ravi", "Deepa", "Murugan",
                       "Lakshmi", "Selvam", "Nithya", "Balaji", "Kishore", "Meera">>)

\* The tables that are emptied, in this order.
Wipes == <<Wipe("reviews"), Wipe("entries"), Wipe("bookings"), Wipe("analytics"), Wipe("payments")>>

\* An entry's number is its ticket.
Entry(n, b, s, status) == Create("entries", n, [barber |-> b, service |-> s, status |-> status])

Entries ==
  <<Entry(1, "Arjun", "Haircut", "SERVED"), Entry(2, "Karthik", "Beard", "SERVED"),
    Entry(3, "Rahim", "Combo", "SERVED"), Entry(4, "Rahim", "Combo", "SERVING"),
    Entry(5, "Arjun", "Haircut", "WAITING"), Entry(6, "Karthik", "Beard", "WAITING"),
    Entry(7, "Vijay", "Haircut", "WAITING"), Entry(8, "Arjun", "Spa", "WAITING"),
    Entry(9, "Karthik", "Combo", "WAITING"),
    Entry(10, "Vijay", "Haircut", "SERVED"), Entry(11, "Arjun", "Beard", "SERVED")>>

Appointment(n, b, g, s, status) ==
  Create("bookings", n, [barber |-> b, customer |-> g, service |-> s, status |-> status])

Appointments ==
  <<Appointment(1, "Arjun", "Kavitha", "Haircut", "COMPLETED"),
    Appointment(2, "Karthik", "Lakshmi", "Spa", "COMPLETED"),
    Appointment(3, "Rahim", "Suresh", "Combo", "COMPLETED"),
    Appointment(4, "Arjun", "Priya", "Haircut", "CONFIRMED"),
    Appointment(5, "Karthik", "Ramesh", "Beard", "CONFIRMED"),
    Appointment(6, "Vijay", "Anand", "Combo", "CONFIRMED"),
    Appointment(7, "Rahim", "Murugan", "Spa", "CONFIRMED"),
    Appointment(8, "Arjun", "Selvam", "Haircut", "CONFIRMED"),
    Appointment(9, "Karthik", "Kishore", "Combo", "PENDING"),
    Appointment(10, "Vijay", "Meera", "Haircut", "PENDING")>>

CreateAll(table, keys) == [i \in DOMAIN keys |-> Create(table, keys[i], {})]

\* Reviews of the tickets served, and one of no ticket.
Reviews == CreateAll("reviews", <<1, 2, 3, 10, 11, 0>>)

Payments == CreateAll("payments", <<"Suresh", "Ramesh", "Anand", "Priya", "Lakshmi", "Murugan">>)

\* Seven days of the shop, today of each barber.
Analytics ==
  CreateAll("analytics", <<"-7", "-6", "-5", "-4", "-3", "-2", "-1">>)
    \o UpsertAll("analytics", <<"Arjun", "Karthik", "Rahim", "Vijay">>)

QrCode == <<Upsert("shop", "qr")>>

\* The tables emptied as soon as the shop is there.
WipingScript ==
  Plans \o Owners \o Shop \o Branch \o Subscription \o Wipes \o ServiceRows \o AllBarbers \o Customers
    \o Entries \o Appointments \o Reviews \o Payments \o Analytics \o QrCode

\* The payments left out of the wipe.
ForgetfulScript ==
  Plans \o Owners \o Shop \o Branch \o Subscription \o ServiceRows \o AllBarbers \o Customers
    \o SubSeq(Wipes, 1, 4)
    \o Entries \o Appointments \o Reviews \o Payments \o Analytics \o QrCode

Script ==
  Plans \o Owners \o Shop \o Branch \o Subscription \o ServiceRows \o AllBarbers \o Customers \o Wipes
    \o Entries \o Appointments \o Reviews \o Payments \o Analytics \o QrCode

\* The people, barbers and services of the script are among those there may be.
ASSUME DemoSeedAssumption ==
  \A i \in DOMAIN Script :
    /\ Script[i].table = "users" => Script[i].key \in People
    /\ Script[i].table = "barbers" => Script[i].key \in Barbers
    /\ Script[i].table = "services" => Script[i].key \in Services

-----------------------------------------------------------------------------
(* Running it.                                                             *)

SeedStart ==
  /\ ~uuids /\ at = 0 /\ run < MaxRuns
  /\ run' = run + 1 /\ at' = 1
  /\ stopped' = "no" /\ removed' = FALSE
  /\ UNCHANGED <<uuids, day, records, call, rows>>

SeedStop(why) == at' = 0 /\ stopped' = why

SeedGoOn == IF at = Len(Script) THEN SeedStop("done") ELSE at' = at + 1 /\ UNCHANGED stopped

\* The row must name a barber and a service that there are.
NamesMissing(stmt) ==
  \/ /\ stmt.do = "create" /\ stmt.table \in {"entries", "bookings"}
     /\ ~Bookable(stmt.row.barber, stmt.row.service)
  \/ stmt.table = "barberServices" /\ ~Bookable(stmt.key[1], stmt.key[2])

UpsertRow(stmt) ==
  /\ stmt.do = "upsert"
  /\ known' = IF stmt.table = "users" THEN [known EXCEPT ![stmt.key] = "seed"] ELSE known
  /\ offer' = IF stmt.table \in {"barbers", "services"} THEN [offer EXCEPT ![stmt.key] = "open"] ELSE offer
  /\ rows' = rows \cup {<<stmt.table, stmt.key, 0>>}
  /\ UNCHANGED <<entries, bookings>>

CreateRow(stmt) ==
  LET id == <<run, stmt.key>> IN
  /\ stmt.do = "create"
  /\ entries' = IF stmt.table # "entries" THEN entries
                ELSE entries \cup {[id |-> id, barber |-> stmt.row.barber, status |-> stmt.row.status,
                                    served |-> IF stmt.row.status = "SERVED" THEN day ELSE 0]}
  /\ bookings' = IF stmt.table # "bookings" THEN bookings
                 ELSE bookings \cup {[id |-> id, barber |-> stmt.row.barber, service |-> stmt.row.service,
                                      customer |-> stmt.row.customer, status |-> stmt.row.status]}
  /\ rows' = IF stmt.table \in {"entries", "bookings"} THEN rows
             ELSE rows \cup {<<stmt.table, stmt.key, run>>}
  /\ UNCHANGED <<offer, known>>

WipeTable(stmt) ==
  /\ stmt.do = "wipe"
  /\ entries' = IF stmt.table = "entries" THEN {} ELSE entries
  /\ bookings' = IF stmt.table = "bookings" THEN {} ELSE bookings
  /\ rows' = {r \in rows : r[1] # stmt.table}
  /\ UNCHANGED <<offer, known>>

\* The owner and the admin are found by their address, the others by an id.
FoundByAddress == {"owner", "admin"}

\* Another row has the phone number or the address of the one to be created.
Taken(stmt) ==
  /\ stmt.table = "users"
  /\ known[stmt.key] = "visitor" \/ (known[stmt.key] = "login" /\ stmt.key \notin FoundByAddress)

\* One statement of main(), or the end of it where the database refuses.
SeedStep ==
  LET stmt == Script[at]
  IN /\ at # 0
     /\ \/ Taken(stmt) /\ SeedStop("taken") /\ UNCHANGED <<records, rows>>
        \/ NamesMissing(stmt) /\ SeedStop("missing") /\ UNCHANGED <<records, rows>>
        \/ /\ ~Taken(stmt) /\ ~NamesMissing(stmt)
           /\ UpsertRow(stmt) \/ CreateRow(stmt) \/ WipeTable(stmt)
           /\ SeedGoOn
     /\ UNCHANGED <<uuids, day, call, run, removed>>

\* The connection or the process is lost.
SeedDies ==
  /\ at # 0
  /\ SeedStop("died")
  /\ UNCHANGED <<uuids, day, records, call, run, rows, removed>>

\* A guest of another shop takes the phone number of one of the demo's people,
\* or somebody signs in with the address.
StrangerComes(p) ==
  /\ ~uuids
  /\ known[p] = "none"
  /\ \E how \in IF p \in FoundByAddress THEN {"visitor", "login"} ELSE {"visitor"} :
       known' = [known EXCEPT ![p] = how]
  /\ UNCHANGED <<uuids, day, offer, entries, bookings, call, script>>

\* A deleted barber or service takes its rows of barber_services along.
DeskDeletes(x) ==
  /\ ~uuids
  /\ (x \in Barbers /\ DeleteBarber(x)) \/ (x \in Services /\ DeleteService(x))
  /\ rows' = {r \in rows : r[1] = "barberServices" => x \notin {r[2][1], r[2][2]}}
  /\ removed' = (at # 0)
  /\ UNCHANGED <<run, at, stopped>>

-----------------------------------------------------------------------------

\* Any shop that is open, or the demo's before the first run.
Init ==
  /\ uuids \in BOOLEAN /\ day = 1
  /\ offer = [x \in Barbers \cup Services |-> IF uuids /\ x \in Asked THEN "open" ELSE "none"]
  /\ known = [p \in People |-> "none"]
  /\ entries = {} /\ bookings = {}
  /\ call = [c \in Calls |-> Idle]
  /\ run = 0 /\ at = 0 /\ rows = {} /\ stopped = "no" /\ removed = FALSE

\* What the desk does to the status of a demo row changes nothing for the script.
Next ==
  \/ uuids /\ (Desk \/ \E c \in Calls : CallStep(c)) /\ UNCHANGED script
  \/ SeedStart \/ SeedStep \/ SeedDies
  \/ \E p \in Strangers : StrangerComes(p)
  \/ \E x \in Asked : DeskDeletes(x)

Spec == Init /\ [][Next]_seedVars

-----------------------------------------------------------------------------
(* Properties.                                                             *)

\* The rows of a statement in the tables as they are.
Copies(stmt) ==
  IF stmt.table = "entries" THEN {e.id : e \in {r \in entries : r.id[2] = stmt.key}}
  ELSE IF stmt.table = "bookings" THEN {a.id : a \in {r \in bookings : r.id[2] = stmt.key}}
  ELSE {r \in rows : r[1] = stmt.table /\ r[2] = stmt.key}

\* A script that came to its end has left each of its rows exactly once,
\* whatever an earlier run that died had left and whatever the desk deleted
\* meanwhile (seed.ts: upserts, the wipe, and the database's foreign keys).
FinishedSeedIsComplete ==
  [][at # 0 /\ stopped' = "done" =>
       \A i \in {j \in DOMAIN Script : Script[j].do # "wipe"} : Cardinality(Copies(Script[i])') = 1]_seedVars

\* A script that stops because somebody has a phone number or an address of
\* its people has not wiped anything yet; one that stops for a missing barber
\* or service was disturbed by the desk (the order of main() in seed.ts).
SeedStopsBeforeTheWipe ==
  [][/\ stopped # "taken" /\ stopped' = "taken" => \A i \in 1..at : Script[i].do # "wipe"
     /\ stopped # "missing" /\ stopped' = "missing" => removed]_seedVars

\* The script is not run on a shop whose ids are UUIDs.
SeedInv == ShopInv /\ (uuids => at = 0)

-----------------------------------------------------------------------------
(* Inductive invariant behind FinishedSeedIsComplete and                   *)
(* SeedStopsBeforeTheWipe.                                                 *)

\* No barber or service goes that an appointment names.
BookingsHaveNames == \A a \in bookings : Bookable(a.barber, a.service)

\* A row's last part tells an upsert from a create, and the run of the latter.
RowsAreOfTheScript ==
  /\ \A r \in rows : \E i \in DOMAIN Script, k \in 0..run :
       /\ Script[i].do = IF k = 0 THEN "upsert" ELSE "create"
       /\ r = <<Script[i].table, Script[i].key, k>>
  /\ \A e \in entries : "id" \in DOMAIN e /\ e.id = <<e.id[1], e.id[2]>>
  /\ \A a \in bookings : a.id = <<a.id[1], a.id[2]>>

\* What a statement of this run has left, even if the desk deletes meanwhile.
Left(stmt) ==
  CASE stmt.table = "entries"        -> \E e \in entries : e.id = <<run, stmt.key>>
    [] stmt.table = "bookings"       -> \E a \in bookings : /\ a.id = <<run, stmt.key>>
                                                            /\ a.barber = stmt.row.barber
                                                            /\ a.service = stmt.row.service
    [] stmt.table = "barberServices" -> \/ <<stmt.table, stmt.key, 0>> \in rows
                                        \/ ~Bookable(stmt.key[1], stmt.key[2])
    [] OTHER                         -> <<stmt.table, stmt.key, IF stmt.do = "upsert" THEN 0 ELSE run>> \in rows

\* What was created before this run is gone.
Emptied(table) ==
  /\ table = "entries" => \A e \in entries : e.id[1] = run
  /\ table = "bookings" => \A a \in bookings : a.id[1] = run
  /\ \A r \in rows : r[1] = table => r[3] \in {0, run}

CarriedOut(n) ==
  \A i \in 1..n : IF Script[i].do = "wipe" THEN Emptied(Script[i].table) ELSE Left(Script[i])

\* Without the desk, what the script has put on offer stays so.
OfferedSoFar ==
  ~removed => \A i \in 1..(at - 1) :
                Script[i].table \in {"barbers", "services"} => offer[Script[i].key] = "open"

ScriptInOrder ==
  /\ run \in Nat /\ at \in 0..Len(Script)
  /\ at # 0 => run # 0 /\ stopped = "no"
  /\ BookingsHaveNames /\ RowsAreOfTheScript
  /\ CarriedOut(at - 1) /\ OfferedSoFar

ScriptInv == SeedInv /\ (~uuids => ScriptInOrder)
=============================================================================
