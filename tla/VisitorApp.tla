----------------------------- MODULE VisitorApp -----------------------------
(***************************************************************************)
(* The customer's mobile application from the scanner to the answer of the *)
(* API: scanner.page.ts, shop-landing.page.ts, join-queue.page.ts and      *)
(* book-appointment.page.ts, with what joinQueue and                       *)
(* bookAppointmentAsGuest accept.  Pages that are left are destroyed, but  *)
(* nobody unsubscribes: a late answer still navigates, or opens an alert.  *)
(***************************************************************************)
EXTENDS Integers, FiniteSets, Sequences

CONSTANTS
  Slugs,        \* the shops, by their slugs
  DemoShop,     \* the shop that the simulated scan finds
  UuidShops,    \* shops whose ids are UUIDs
  BranchesOf,   \* the active branches of each shop, in the order they are listed
  BarbersOf,    \* the barbers of each shop
  Services,     \* of every shop
  Nothing,
  MaxSent       \* bound: joins and bookings that are sent

VARIABLES
  place,      \* the page in front
  scanning,   \* the timer of the simulated scan runs
  landing,    \* the landing page in the stack
  visit,      \* the page that joins or books
  sent,       \* requests under way
  sendings,   \* how many were sent
  offered,    \* barbers whom the API has active and accepting
  alert       \* the slug to go to from the alert "Booking confirmed", or Nothing

visitorVars == <<place, scanning, landing, visit, sent, sendings, offered, alert>>

Places == {"scan", "landing", "join", "book", "tracker"}

Branches == UNION {{BranchesOf[s][i] : i \in DOMAIN BranchesOf[s]} : s \in Slugs}

Barbers == UNION {BarbersOf[s] : s \in Slugs}

ASSUME VisitorAppAssumption ==
  /\ DemoShop \in Slugs /\ UuidShops \subseteq Slugs
  /\ \A s \in Slugs : BranchesOf[s] \in Seq(Branches)
  /\ Nothing \notin Slugs /\ MaxSent \in Nat

NoLanding == [slug |-> Nothing, state |-> "none", branches |-> <<>>, branch |-> Nothing]

\* time: the slot chosen is ahead or past; passed: it became so after the
\* check of step 2; made, answered: rows that the API made for this page, and
\* answers that it has got.
NoVisit == [shop |-> Nothing, branch |-> Nothing, slug |-> Nothing, barbers |-> {}, services |-> {},
            barber |-> Nothing, chosen |-> <<>>, step |-> 1, time |-> "ahead", passed |-> FALSE,
            filled |-> FALSE, busy |-> FALSE, made |-> 0, answered |-> 0]

\* A page that is left waits for nothing.
Leave == sent' = {[r EXCEPT !.here = FALSE] : r \in sent}

-----------------------------------------------------------------------------
(* The scanner and the landing page.                                       *)

OpenLanding(slug) ==
  /\ place' = "landing"
  /\ landing' = [NoLanding EXCEPT !.slug = slug, !.state = "loading"]
  /\ visit' = NoVisit
  /\ Leave

\* The landing page of the stack is kept if it is the same shop's.
ReturnToLanding(slug) ==
  IF landing.slug = slug
    THEN place' = "landing" /\ visit' = NoVisit /\ Leave /\ UNCHANGED landing
    ELSE OpenLanding(slug)

SimulateScan ==
  /\ place = "scan" /\ ~scanning
  /\ scanning' = TRUE
  /\ UNCHANGED <<place, landing, visit, sent, sendings, offered, alert>>

\* The timer navigates from wherever the visitor has gone meanwhile.
ScanEnds ==
  /\ scanning
  /\ scanning' = FALSE
  /\ ReturnToLanding(DemoShop)
  /\ UNCHANGED <<sendings, offered, alert>>

GoToShop(slug) ==
  /\ place = "scan"
  /\ OpenLanding(slug)
  /\ UNCHANGED <<scanning, sendings, offered, alert>>

\* forkJoin of the shop and its branches; a query that fails gives null, or no
\* branches.
ShopLoaded ==
  /\ landing.state = "loading"
  /\ \E list \in {BranchesOf[landing.slug], <<>>} :
       landing' = [landing EXCEPT !.state = "ready", !.branches = list,
                                  !.branch = IF list = <<>> THEN Nothing ELSE Head(list)]
  /\ UNCHANGED <<place, scanning, visit, sent, sendings, offered, alert>>

ShopNotFound ==
  /\ landing.state = "loading"
  /\ landing' = [landing EXCEPT !.state = "error"]
  /\ UNCHANGED <<place, scanning, visit, sent, sendings, offered, alert>>

SelectBranch(i) ==
  /\ place = "landing"
  /\ landing' = [landing EXCEPT !.branch = landing.branches[i]]
  /\ UNCHANGED <<place, scanning, visit, sent, sendings, offered, alert>>

\* joinQueue and bookAppointment: the shop is that of the branch, or the one
\* the slug was resolved to.
OpenForm(p) ==
  /\ place = "landing" /\ landing.state = "ready"
  /\ place' = p
  /\ visit' = [NoVisit EXCEPT !.shop = landing.slug, !.branch = landing.branch, !.slug = landing.slug]
  /\ UNCHANGED <<scanning, landing, sent, sendings, offered, alert>>

\* Back to the scanner, or from booking to the landing page, which is kept.
GoBack ==
  /\ place # "scan" /\ visit.step = 1
  /\ place' = IF place = "book" THEN "landing" ELSE "scan"
  /\ landing' = IF place = "book" THEN landing ELSE NoLanding
  /\ visit' = NoVisit
  /\ Leave
  /\ UNCHANGED <<scanning, sendings, offered, alert>>

-----------------------------------------------------------------------------
(* The pages that join and book.                                           *)

\* getPublicBarbers and getPublicServices; each may fail.
BarbersListed ==
  /\ visit.shop # Nothing /\ visit.barbers = {}
  /\ visit' = [visit EXCEPT !.barbers = offered \cap BarbersOf[visit.shop]]
  /\ UNCHANGED <<place, scanning, landing, sent, sendings, offered, alert>>

ServicesListed ==
  /\ visit.shop # Nothing /\ visit.services = {}
  /\ visit' = [visit EXCEPT !.services = Services]
  /\ UNCHANGED <<place, scanning, landing, sent, sendings, offered, alert>>

\* In joining, anybody (null) may be chosen.
SelectBarber(b) ==
  /\ place = "join" \/ (place = "book" /\ visit.step = 1 /\ b # Nothing)
  /\ visit' = [visit EXCEPT !.barber = b]
  /\ UNCHANGED <<place, scanning, landing, sent, sendings, offered, alert>>

\* None is chosen twice.
Without(list, s) ==
  LET i == CHOOSE n \in DOMAIN list : list[n] = s
  IN SubSeq(list, 1, i - 1) \o SubSeq(list, i + 1, Len(list))

\* The services chosen in joining are only shown, and not sent.
ToggleService(s) ==
  /\ place = "book" /\ visit.step = 2
  /\ visit' = [visit EXCEPT !.chosen = IF \E i \in DOMAIN @ : @[i] = s THEN Without(@, s)
                                         ELSE Append(@, s)]
  /\ UNCHANGED <<place, scanning, landing, sent, sendings, offered, alert>>

\* The chips of today have slots that are past.
SelectTime(t) ==
  /\ place = "book" /\ visit.step = 2
  /\ visit' = [visit EXCEPT !.time = t]
  /\ UNCHANGED <<place, scanning, landing, sent, sendings, offered, alert>>

\* Name and phone, and for joining the profile.
FillIn ==
  /\ place = "join" \/ (place = "book" /\ visit.step = 3)
  /\ visit' = [visit EXCEPT !.filled = TRUE]
  /\ UNCHANGED <<place, scanning, landing, sent, sendings, offered, alert>>

\* The time is not looked at.
NextStepAnyTime ==
  /\ place = "book" /\ visit.step < 3 /\ ~visit.busy
  /\ visit.step = 1 => visit.barber # Nothing
  /\ visit.step = 2 => visit.chosen # <<>>
  /\ visit' = [visit EXCEPT !.step = @ + 1, !.passed = FALSE]
  /\ UNCHANGED <<place, scanning, landing, sent, sendings, offered, alert>>

NextStep ==
  /\ place = "book" /\ visit.step < 3 /\ ~visit.busy
  /\ visit.step = 1 => visit.barber # Nothing
  /\ visit.step = 2 => visit.chosen # <<>> /\ visit.time = "ahead"
  /\ visit' = [visit EXCEPT !.step = @ + 1, !.passed = FALSE]
  /\ UNCHANGED <<place, scanning, landing, sent, sendings, offered, alert>>

\* Also while the booking is under way.
PrevStep ==
  /\ place = "book" /\ visit.step > 1
  /\ visit' = [visit EXCEPT !.step = @ - 1]
  /\ UNCHANGED <<place, scanning, landing, sent, sendings, offered, alert>>

\* The clock passes the slots chosen.
Passed(v) == [v EXCEPT !.time = "past", !.passed = @ \/ v.time = "ahead"]

TimePasses ==
  /\ visit' = IF place = "book" /\ visit.step > 1 THEN Passed(visit) ELSE visit
  /\ sent' = {IF r.op = "book" THEN Passed(r) ELSE r : r \in sent}
  /\ UNCHANGED <<place, scanning, landing, sendings, offered, alert>>

\* What the pages send, and what the inputs of the API have.
JoinFields == {"shopId", "branchId", "entryType", "priority", "guestName", "guestPhone", "barberId",
               "notes"}

JoinQueueInput == {"shopId", "branchId", "barberId", "entryType", "priority", "guestName", "guestPhone",
                   "appointmentId"}

BookFields == {"shopId", "branchId", "barberId", "serviceId", "scheduledAt", "guestName", "guestPhone",
               "notes"}

GuestBookAppointmentInput == {"shopId", "branchId", "barberId", "serviceId", "scheduledAt", "guestName",
                              "guestPhone", "notes"}

Request(op, service) ==
  [id |-> sendings + 1, op |-> op, shop |-> visit.shop, branch |-> visit.branch, slug |-> visit.slug,
   barber |-> visit.barber, service |-> service, time |-> visit.time, passed |-> visit.passed,
   state |-> "sent", here |-> TRUE]

Send(op, service) ==
  /\ sendings < MaxSent
  /\ sendings' = sendings + 1
  /\ sent' = sent \cup {Request(op, service)}
  /\ visit' = [visit EXCEPT !.busy = TRUE]
  /\ UNCHANGED <<place, scanning, landing, offered, alert>>

Join ==
  /\ place = "join" /\ ~visit.busy /\ visit.filled
  /\ visit.branch # Nothing
  /\ Send("join", Nothing)

\* The button is not disabled while a booking is under way.
ConfirmAgain ==
  /\ place = "book" /\ visit.step = 3 /\ visit.filled
  /\ Send("book", Head(visit.chosen))

\* Only the first of the services is sent; without a branch, an id of zeros.
ConfirmBooking ==
  /\ place = "book" /\ visit.step = 3 /\ ~visit.busy /\ visit.filled
  /\ Send("book", Head(visit.chosen))

-----------------------------------------------------------------------------
(* The API, and its answers.                                               *)

\* The branch is one of the shop's: bookAppointmentAsGuest looks, joinQueue
\* leaves it to the database that there is one.
BranchGiven(r) == \E i \in DOMAIN BranchesOf[r.shop] : BranchesOf[r.shop][i] = r.branch

FieldsKnown(r) ==
  IF r.op = "join" THEN JoinFields \subseteq JoinQueueInput
  ELSE BookFields \subseteq GuestBookAppointmentInput

Accepted(r) ==
  /\ FieldsKnown(r)
  /\ r.shop \in UuidShops
  /\ BranchGiven(r)
  /\ r.barber # Nothing => r.barber \in offered
  /\ r.op = "book" => r.barber # Nothing /\ r.service \in Services /\ r.time = "ahead"

Receive(r) ==
  /\ r.state = "sent"
  /\ sent' = (sent \ {r}) \cup {[r EXCEPT !.state = IF Accepted(r) THEN "done" ELSE "refused"]}
  /\ visit' = [visit EXCEPT !.made = IF r.here /\ Accepted(r) THEN @ + 1 ELSE @]
  /\ UNCHANGED <<place, scanning, landing, sendings, offered, alert>>

Answered(r) == [visit EXCEPT !.busy = @ /\ ~r.here, !.answered = IF r.here THEN @ + 1 ELSE @]

\* A join that is done opens the tracker, from wherever the visitor is; a
\* booking shows an alert.
ReceiveAnswer(r) ==
  /\ r.state # "sent"
  /\ IF r.state = "done" /\ r.op = "join"
       THEN /\ place' = "tracker" /\ visit' = NoVisit
            /\ sent' = {[q EXCEPT !.here = FALSE] : q \in sent \ {r}}
       ELSE /\ visit' = Answered(r) /\ sent' = sent \ {r}
            /\ UNCHANGED place
  /\ alert' = IF r.state = "done" /\ r.op = "book" THEN r.slug ELSE alert
  /\ UNCHANGED <<scanning, landing, sendings, offered>>

\* The request or its answer is lost: "Please try again."
AnswerLost(r) ==
  /\ sent' = sent \ {r}
  /\ visit' = Answered(r)
  /\ UNCHANGED <<place, scanning, landing, sendings, offered, alert>>

\* OK goes to the landing page, the one in the stack or a new one.
DismissAlert ==
  /\ alert # Nothing
  /\ alert' = Nothing
  /\ ReturnToLanding(alert)
  /\ UNCHANGED <<scanning, sendings, offered>>

\* upsertBarber or deleteBarber, at the desk.
WithdrawBarber(b) ==
  /\ offered' = offered \ {b}
  /\ UNCHANGED <<place, scanning, landing, visit, sent, sendings, alert>>

-----------------------------------------------------------------------------

VisitorInit ==
  /\ place = "scan" /\ scanning = FALSE
  /\ landing = NoLanding /\ visit = NoVisit
  /\ sent = {} /\ sendings = 0
  /\ offered = Barbers
  /\ alert = Nothing

LandingPage ==
  \/ ShopLoaded \/ ShopNotFound \/ OpenForm("book") \/ OpenForm("join")
  \/ \E i \in DOMAIN landing.branches : SelectBranch(i)

BookPage ==
  \/ NextStep \/ PrevStep
  \/ \E s \in visit.services : ToggleService(s)
  \/ \E t \in {"ahead", "past"} : SelectTime(t)

\* An alert covers the page, once it is drawn: until then Confirm is enabled.
VisitorNext ==
  \/ alert = Nothing /\ (SimulateScan \/ LandingPage \/ Join \/ BookPage \/ GoBack \/ FillIn)
  \/ alert = Nothing /\ \E b \in visit.barbers \cup {Nothing} : SelectBarber(b)
  \/ alert = Nothing /\ \E s \in Slugs : GoToShop(s)
  \/ ConfirmBooking \/ ScanEnds \/ BarbersListed \/ ServicesListed \/ TimePasses \/ DismissAlert
  \/ \E r \in sent : Receive(r) \/ ReceiveAnswer(r) \/ AnswerLost(r)
  \/ \E b \in offered : WithdrawBarber(b)

VisitorSpec == VisitorInit /\ [][VisitorNext]_visitorVars

-----------------------------------------------------------------------------
(* Properties.                                                             *)

VisitorTypeOK ==
  /\ place \in Places /\ scanning \in BOOLEAN
  /\ landing.slug \in Slugs \cup {Nothing}
  /\ landing.state \in {"none", "loading", "ready", "error"}
  /\ landing.branch \in Branches \cup {Nothing}
  /\ visit.shop \in Slugs \cup {Nothing} /\ visit.branch \in Branches \cup {Nothing}
  /\ visit.barber \in Barbers \cup {Nothing} /\ visit.chosen \in Seq(Services)
  /\ visit.step \in 1..3
  /\ sendings \in 0..MaxSent /\ \A r \in sent : r.id \in 1..sendings
  /\ offered \subseteq Barbers /\ alert \in Slugs \cup {Nothing}

\* What may make the API refuse a complete form.
Excuse(r) ==
  \/ r.shop \notin UuidShops          \* the demo's ids
  \/ r.branch = Nothing               \* the branches were not listed
  \/ r.barber \in Barbers \ offered   \* withdrawn since the page listed it
  \/ r.passed                         \* the clock, since the check of step 2

\* "Appointment booking flow completes" (docs/SYSTEM_ARCHITECTURE.md:1276):
\* what the wizard lets through is refused only for what changed since it
\* looked, or for what it could not load.
BookingsRefusedForCause ==
  [][\A r \in sent : r.op = "book" /\ Receive(r) /\ ~Accepted(r) => Excuse(r)]_visitorVars

\* "Customer can join queue (guest)" (docs/SYSTEM_ARCHITECTURE.md:1273), stated
\* likewise.  The code does not keep this.
JoinsRefusedForCause ==
  [][\A r \in sent : r.op = "join" /\ Receive(r) /\ ~Accepted(r) =>
       \/ r.shop \notin UuidShops
       \/ r.barber \in Barbers \ offered]_visitorVars

\* A page has no more rows made than it has answers and one more: a second
\* booking needs an answer to the first, whatever the visitor presses.
NoUnansweredDouble == visit.made <= visit.answered + 1

-----------------------------------------------------------------------------
(* The inductive invariant behind these properties.                        *)

LandingType ==
  [slug : Slugs \cup {Nothing}, state : {"none", "loading", "ready", "error"},
   branches : Seq(Branches), branch : Branches \cup {Nothing}]

VisitType ==
  [shop : Slugs \cup {Nothing}, branch : Branches \cup {Nothing}, slug : Slugs \cup {Nothing},
   barbers : SUBSET Barbers, services : SUBSET Services, barber : Barbers \cup {Nothing},
   chosen : Seq(Services), step : 1..3, time : {"ahead", "past"}, passed : BOOLEAN,
   filled : BOOLEAN, busy : BOOLEAN, made : Nat, answered : Nat]

RequestType ==
  [id : 1..sendings, op : {"join", "book"}, shop : Slugs, branch : Branches \cup {Nothing}, slug : Slugs,
   barber : Barbers \cup {Nothing}, service : Services \cup {Nothing}, time : {"ahead", "past"},
   passed : BOOLEAN, state : {"sent", "done", "refused"}, here : BOOLEAN]

VisitorTyped ==
  /\ place \in Places /\ scanning \in BOOLEAN /\ sendings \in 0..MaxSent
  /\ landing \in LandingType /\ visit \in VisitType /\ sent \subseteq RequestType
  /\ offered \subseteq Barbers /\ alert \in Slugs \cup {Nothing}

\* A form is a shop's, and so is its branch.
FormsHaveShops ==
  /\ landing.state # "none" => landing.slug \in Slugs
  /\ \A i \in DOMAIN landing.branches : \E k \in DOMAIN BranchesOf[landing.slug] :
       landing.branches[i] = BranchesOf[landing.slug][k]
  /\ landing.branch # Nothing =>
       \E k \in DOMAIN BranchesOf[landing.slug] : landing.branch = BranchesOf[landing.slug][k]
  /\ place \in {"join", "book"} => visit.shop \in Slugs /\ visit.slug \in Slugs
  /\ visit.shop # Nothing => visit.branch = Nothing \/ BranchGiven(visit)

\* What the wizard has asked for by its second and its third step.
StepsComplete ==
  /\ place = "book" /\ visit.step > 1 => visit.barber # Nothing
  /\ place = "book" /\ visit.step = 3 => visit.chosen # <<>> /\ (visit.time = "ahead" \/ visit.passed)

\* A booking under way is complete.
BookingsComplete ==
  \A r \in sent : r.op = "book" =>
    /\ r.branch = Nothing \/ BranchGiven(r)
    /\ r.barber # Nothing /\ r.service \in Services
    /\ r.time = "ahead" \/ r.passed

\* The page waits for one answer at most, and is busy while it does.
OneWaits ==
  /\ \A q, r \in sent : q.here /\ r.here => q = r
  /\ \A r \in sent : r.here => visit.busy
  /\ visit.busy => place \in {"join", "book"}

\* A row that was made beyond the answers has its answer on the way.
MadeAreAnswered ==
  visit.made <= visit.answered \/ (visit.made = visit.answered + 1
                                    /\ \E r \in sent : r.here /\ r.state = "done")

VisitorInv ==
  /\ VisitorTyped /\ FormsHaveShops /\ StepsComplete /\ BookingsComplete /\ OneWaits
  /\ MadeAreAnswered
=============================================================================
