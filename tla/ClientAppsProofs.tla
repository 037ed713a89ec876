-------------------------- MODULE ClientAppsProofs --------------------------
(***************************************************************************)
(* Theorems about VisitorApp, for any shops, branches, barbers and         *)
(* services, and about the parts of the client applications together.      *)
(***************************************************************************)
EXTENDS MCClientApps, DashboardProofs, SequenceTheorems

-----------------------------------------------------------------------------
(* Pages that begin, and pages that are left.                              *)

LEMMA NewVisit ==
  /\ NoVisit \in VisitType /\ NoVisit.shop = Nothing /\ NoVisit.branch = Nothing /\ NoVisit.step = 1
  /\ NoVisit.busy = FALSE /\ NoVisit.made = 0 /\ NoVisit.answered = 0
  BY DEF NoVisit, VisitType

LEMMA NewLanding ==
  /\ NoLanding \in LandingType /\ NoLanding.state = "none" /\ NoLanding.branches = <<>>
  /\ NoLanding.branch = Nothing
  /\ \A slug \in Slugs : LET new == [NoLanding EXCEPT !.slug = slug, !.state = "loading"]
                         IN /\ new \in LandingType /\ new.slug = slug /\ new.branches = <<>>
                            /\ new.branch = Nothing
  /\ DOMAIN NoLanding.branches = {}
<1> DEFINE none == <<>>
<1>1. none \in Seq(Branches) /\ DOMAIN none = {}
  OBVIOUS
<1>2. NoLanding = [slug |-> Nothing, state |-> "none", branches |-> none, branch |-> Nothing] /\ none = <<>>
  BY DEF NoLanding
<1> HIDE DEF none
<1>3. QED
  BY <1>1, <1>2 DEF LandingType

LEMMA VisitorInvInit == VisitorInit => VisitorInv
<1> SUFFICES ASSUME VisitorInit
             PROVE  VisitorInv
  OBVIOUS
<1>1. VisitorTyped
  <2>1. /\ place \in Places /\ scanning \in BOOLEAN /\ sendings \in 0..MaxSent /\ sent = {}
        /\ offered \subseteq Barbers /\ alert \in Slugs \cup {Nothing}
    <3>1. /\ place = "scan" /\ scanning = FALSE /\ sendings = 0 /\ sent = {}
          /\ offered = Barbers /\ alert = Nothing
      BY DEF VisitorInit
    <3>2. sendings \in 0..MaxSent
      BY <3>1, VisitorAppAssumption
    <3>3. QED
      BY <3>1, <3>2 DEF Places
  <2>2. landing \in LandingType /\ visit \in VisitType
    BY NewVisit, NewLanding DEF VisitorInit
  <2>3. QED
    BY <2>1, <2>2 DEF VisitorTyped
<1>2. FormsHaveShops
  <2>1. /\ landing = NoLanding /\ visit = NoVisit /\ place = "scan"
    BY DEF VisitorInit
  <2>2. QED
    BY <2>1, NewVisit, NewLanding DEF FormsHaveShops
<1>3. StepsComplete /\ BookingsComplete /\ OneWaits /\ MadeAreAnswered
  BY NewVisit DEF VisitorInit, StepsComplete, BookingsComplete, OneWaits, MadeAreAnswered
<1>4. QED
  BY <1>1, <1>2, <1>3 DEF VisitorInv

(* A request whose page is left is the same, but nobody waits for it.      *)
LEMMA Orphaned ==
  ASSUME NEW r \in RequestType
  PROVE  LET q == [r EXCEPT !.here = FALSE]
         IN /\ q \in RequestType /\ q.op = r.op /\ q.branch = r.branch /\ q.barber = r.barber
            /\ q.service = r.service /\ q.time = r.time /\ q.passed = r.passed /\ q.here = FALSE
            /\ (BranchGiven(r) => BranchGiven(q))
  BY DEF RequestType, BranchGiven

LEMMA LeftRequests ==
  ASSUME VisitorInv, NEW S \in SUBSET sent, sent' = {[r EXCEPT !.here = FALSE] : r \in S}, UNCHANGED sendings
  PROVE  /\ sent' \subseteq RequestType' /\ BookingsComplete'
         /\ \A q \in sent' : q.here = FALSE
<1>1. \A r \in S : r \in RequestType
  BY DEF VisitorInv, VisitorTyped
<1>2. RequestType' = RequestType
  BY DEF RequestType
<1>3. \A q \in sent' : \E r \in sent :
        /\ q \in RequestType /\ q.op = r.op /\ q.branch = r.branch /\ q.barber = r.barber
        /\ q.service = r.service /\ q.time = r.time /\ q.passed = r.passed /\ q.here = FALSE
        /\ (BranchGiven(r) => BranchGiven(q))
  BY <1>1, Orphaned
<1>4. BookingsComplete'
  BY <1>3 DEF VisitorInv, BookingsComplete
<1>5. QED
  BY <1>2, <1>3, <1>4

(* Whoever leaves a page for one without a form begins anew.               *)
LEMMA Anew ==
  ASSUME VisitorInv, NEW S \in SUBSET sent, sent' = {[r EXCEPT !.here = FALSE] : r \in S}, visit' = NoVisit,
         place' \in {"scan", "landing", "tracker"}, landing' \in LandingType, scanning' \in BOOLEAN,
         alert' \in Slugs \cup {Nothing}, UNCHANGED <<sendings, offered>>,
         landing'.state # "none" => landing'.slug \in Slugs,
         \A i \in DOMAIN landing'.branches : \E k \in DOMAIN BranchesOf[landing'.slug] :
           landing'.branches[i] = BranchesOf[landing'.slug][k],
         landing'.branch # Nothing =>
           \E k \in DOMAIN BranchesOf[landing'.slug] : landing'.branch = BranchesOf[landing'.slug][k]
  PROVE  VisitorInv'
<1>1. sent' \subseteq RequestType' /\ BookingsComplete' /\ \A q \in sent' : q.here = FALSE
  BY LeftRequests
<1>2. VisitorTyped'
  BY <1>1, NewVisit DEF VisitorInv, VisitorTyped, Places, LandingType, VisitType
<1>3. FormsHaveShops'
  BY NewVisit DEF FormsHaveShops
<1>4. StepsComplete' /\ OneWaits' /\ MadeAreAnswered'
  BY <1>1, NewVisit DEF StepsComplete, OneWaits, MadeAreAnswered
<1>5. QED
  BY <1>1, <1>2, <1>3, <1>4 DEF VisitorInv

LEMMA Landed ==
  ASSUME VisitorInv, NEW slug \in Slugs, ReturnToLanding(slug) \/ OpenLanding(slug), scanning' \in BOOLEAN,
         alert' \in Slugs \cup {Nothing}, UNCHANGED <<sendings, offered>>
  PROVE  VisitorInv'
<1>1. CASE OpenLanding(slug)
  <2>1. /\ landing' \in LandingType /\ landing'.slug = slug /\ landing'.branches = <<>>
        /\ landing'.branch = Nothing /\ DOMAIN landing'.branches = {}
    BY <1>1, NewLanding DEF OpenLanding
  <2>2. QED
    BY <1>1, <2>1, Anew DEF OpenLanding, Leave
<1>2. CASE place' = "landing" /\ visit' = NoVisit /\ Leave /\ UNCHANGED landing
  BY <1>2, Anew DEF Leave, VisitorInv, VisitorTyped, FormsHaveShops
<1>3. QED
  BY <1>1, <1>2 DEF ReturnToLanding

-----------------------------------------------------------------------------
(* The landing page.                                                       *)

LEMMA LandingSteps ==
  ASSUME VisitorInv,
         \/ SimulateScan \/ ScanEnds \/ DismissAlert \/ GoBack
         \/ LandingPage \/ \E s \in Slugs : GoToShop(s)
  PROVE  VisitorInv'
<1>t. /\ VisitorTyped /\ landing \in LandingType /\ visit \in VisitType /\ place \in Places
      /\ FormsHaveShops /\ StepsComplete /\ BookingsComplete /\ OneWaits /\ MadeAreAnswered
  BY DEF VisitorInv, VisitorTyped
<1>r. UNCHANGED sendings => RequestType' = RequestType
  BY DEF RequestType
<1>1. CASE SimulateScan
  <2>1. VisitorTyped'
    BY <1>1, <1>t, <1>r DEF SimulateScan, VisitorTyped, LandingType, VisitType
  <2>2. QED
    BY <1>1, <1>t, <2>1 DEF SimulateScan, VisitorInv, FormsHaveShops, BranchGiven, StepsComplete,
                            BookingsComplete, OneWaits, MadeAreAnswered
<1>2. CASE ScanEnds
  BY <1>2, <1>t, Landed, VisitorAppAssumption DEF ScanEnds, VisitorTyped
<1>3. CASE DismissAlert
  BY <1>3, <1>t, Landed DEF DismissAlert, VisitorTyped
<1>4. CASE \E s \in Slugs : GoToShop(s)
  BY <1>4, <1>t, Landed DEF GoToShop, VisitorTyped
<1>5. CASE GoBack
  <2>1. /\ place' \in {"scan", "landing"} /\ landing' \in {landing, NoLanding} /\ visit' = NoVisit
        /\ sent' = {[r EXCEPT !.here = FALSE] : r \in sent}
        /\ UNCHANGED <<scanning, sendings, offered, alert>>
    BY <1>5 DEF GoBack, Leave
  <2>2. scanning \in BOOLEAN /\ alert \in Slugs \cup {Nothing}
    BY <1>t DEF VisitorTyped
  <2>3. CASE landing' = landing
    BY <2>1, <2>2, <2>3, <1>t, Anew DEF FormsHaveShops
  <2>4. CASE landing' = NoLanding
    BY <2>1, <2>2, <2>4, NewLanding, Anew
  <2>5. QED
    BY <2>1, <2>3, <2>4
<1>6. CASE ShopLoaded \/ ShopNotFound \/ \E i \in DOMAIN landing.branches : SelectBranch(i)
  <2>1. UNCHANGED <<place, scanning, visit, sent, sendings, offered, alert>>
    BY <1>6 DEF ShopLoaded, ShopNotFound, SelectBranch
  <2>2. /\ landing' \in LandingType /\ landing'.slug = landing.slug
        /\ landing'.state = "none" \/ landing'.slug \in Slugs
        /\ \A i \in DOMAIN landing'.branches : \E k \in DOMAIN BranchesOf[landing.slug] :
             landing'.branches[i] = BranchesOf[landing.slug][k]
        /\ landing'.branch # Nothing =>
             \E k \in DOMAIN BranchesOf[landing.slug] : landing'.branch = BranchesOf[landing.slug][k]
    <3>1. CASE ShopLoaded
      <4>1. landing.slug \in Slugs /\ BranchesOf[landing.slug] \in Seq(Branches)
        BY <1>t, <3>1, VisitorAppAssumption DEF ShopLoaded, FormsHaveShops
      <4>2. PICK list \in {BranchesOf[landing.slug], <<>>} :
              landing' = [landing EXCEPT !.state = "ready", !.branches = list,
                                         !.branch = IF list = <<>> THEN Nothing ELSE Head(list)]
        BY <3>1 DEF ShopLoaded
      <4>3. list \in Seq(Branches)
        <5>1. <<>> \in Seq(Branches)
          OBVIOUS
        <5>2. QED
          BY <4>1, <4>2, <5>1, Zenon
      <4>4. list # <<>> => Head(list) = list[1] /\ 1 \in DOMAIN list /\ list[1] \in Branches
        BY <4>3
      <4> DEFINE branch == IF list = <<>> THEN Nothing ELSE Head(list)
      <4>5. /\ branch \in Branches \cup {Nothing}
            /\ branch # Nothing => \E k \in DOMAIN BranchesOf[landing.slug] : branch = BranchesOf[landing.slug][k]
        BY <4>2, <4>4
      <4>6. \A i \in DOMAIN list : \E k \in DOMAIN BranchesOf[landing.slug] :
              list[i] = BranchesOf[landing.slug][k]
        <5>1. CASE list = <<>>
          <6>1. DOMAIN list = {}
            BY <5>1
          <6>2. QED
            BY <6>1
        <5>2. CASE list = BranchesOf[landing.slug]
          BY <5>2
        <5>3. QED
          BY <4>2, <5>1, <5>2
      <4>7. landing' = [landing EXCEPT !.state = "ready", !.branches = list, !.branch = branch]
        BY <4>2
      <4> HIDE DEF branch
      <4>8. /\ landing' \in LandingType /\ landing'.slug = landing.slug /\ landing'.branches = list
            /\ landing'.branch = branch
        BY <1>t, <4>3, <4>5, <4>7 DEF LandingType
      <4>9. QED
        BY <4>1, <4>5, <4>6, <4>8
    <3>2. CASE ShopNotFound
      BY <1>t, <3>2 DEF ShopNotFound, LandingType, FormsHaveShops
    <3>3. CASE \E i \in DOMAIN landing.branches : SelectBranch(i)
      BY <1>t, <3>3 DEF SelectBranch, LandingType, FormsHaveShops
    <3>4. QED
      BY <1>6, <3>1, <3>2, <3>3
  <2>3. VisitorTyped'
    BY <2>1, <2>2, <1>t, <1>r DEF VisitorTyped, LandingType, VisitType
  <2>4. FormsHaveShops'
    BY <2>1, <2>2, <1>t DEF FormsHaveShops, BranchGiven
  <2>5. QED
    BY <2>1, <2>3, <2>4, <1>t DEF VisitorInv, StepsComplete, BookingsComplete, OneWaits, MadeAreAnswered,
                                  BranchGiven
<1>7. ASSUME NEW p \in {"book", "join"}, OpenForm(p)
      PROVE  VisitorInv'
  <2>1. /\ place' = p /\ landing.slug \in Slugs
        /\ visit' = [NoVisit EXCEPT !.shop = landing.slug, !.branch = landing.branch, !.slug = landing.slug]
        /\ UNCHANGED <<scanning, landing, sent, sendings, offered, alert>> /\ place = "landing"
    BY <1>7, <1>t DEF OpenForm, FormsHaveShops
  <2>2. /\ visit' \in VisitType /\ visit'.shop = landing.slug /\ visit'.branch = landing.branch
        /\ visit'.slug = landing.slug /\ visit'.step = 1 /\ visit'.busy = FALSE /\ visit'.made = 0
        /\ visit'.answered = 0
    BY <2>1, <1>t, NewVisit DEF VisitType, LandingType, NoVisit
  <2>3. \A r \in sent : ~r.here
    BY <2>1, <1>t DEF OneWaits
  <2>4. VisitorTyped'
    BY <2>1, <2>2, <1>t, <1>r DEF VisitorTyped, LandingType, VisitType, Places
  <2>5. FormsHaveShops'
    BY <2>1, <2>2, <1>t DEF FormsHaveShops, BranchGiven
  <2>6. StepsComplete' /\ OneWaits' /\ MadeAreAnswered'
    BY <2>1, <2>2, <2>3 DEF StepsComplete, OneWaits, MadeAreAnswered
  <2>7. QED
    BY <2>1, <2>4, <2>5, <2>6, <1>t DEF VisitorInv, BookingsComplete, BranchGiven
<1>8. QED
  BY <1>1, <1>2, <1>3, <1>4, <1>5, <1>6, <1>7 DEF LandingPage

-----------------------------------------------------------------------------
(* Filling in.                                                             *)

\* All that filling in a form leaves alone.
SameForm ==
  /\ visit'.shop = visit.shop /\ visit'.branch = visit.branch /\ visit'.slug = visit.slug
  /\ visit'.busy = visit.busy /\ visit'.made = visit.made /\ visit'.answered = visit.answered
  /\ UNCHANGED <<place, scanning, landing, sent, sendings, offered, alert>>

LEMMA FilledIn ==
  ASSUME VisitorInv, visit' \in VisitType, SameForm, StepsComplete'
  PROVE  VisitorInv'
<1>1. VisitorTyped'
  BY DEF VisitorInv, VisitorTyped, SameForm, VisitType, LandingType, RequestType
<1>2. FormsHaveShops'
  BY DEF VisitorInv, FormsHaveShops, SameForm, BranchGiven
<1>3. BookingsComplete' /\ OneWaits'
  BY DEF VisitorInv, BookingsComplete, BranchGiven, OneWaits, SameForm
<1>4. MadeAreAnswered'
  BY DEF VisitorInv, MadeAreAnswered, SameForm
<1>5. QED
  BY <1>1, <1>2, <1>3, <1>4 DEF VisitorInv

LEMMA Toggled ==
  ASSUME NEW list \in Seq(Services), NEW s \in Services
  PROVE  /\ Append(list, s) \in Seq(Services)
         /\ (\E i \in DOMAIN list : list[i] = s) => Without(list, s) \in Seq(Services)
<1>1. ASSUME \E i \in DOMAIN list : list[i] = s
      PROVE  Without(list, s) \in Seq(Services)
  <2> DEFINE i == CHOOSE n \in DOMAIN list : list[n] = s
  <2>1. i \in DOMAIN list
    BY <1>1
  <2> HIDE DEF i
  <2>2. i \in 1..Len(list) /\ Len(list) \in Nat
    BY <2>1
  <2>3. SubSeq(list, 1, i - 1) \in Seq(Services) /\ SubSeq(list, i + 1, Len(list)) \in Seq(Services)
    BY <2>2, SubSeqProperties
  <2>4. SubSeq(list, 1, i - 1) \o SubSeq(list, i + 1, Len(list)) \in Seq(Services)
    BY <2>3, ConcatProperties
  <2>5. QED
    BY <2>4 DEF i, Without
<1>2. QED
  BY <1>1

LEMMA FormSteps ==
  ASSUME VisitorInv,
         \/ FillIn \/ BookPage \/ BarbersListed \/ ServicesListed
         \/ \E b \in visit.barbers \cup {Nothing} : SelectBarber(b)
  PROVE  VisitorInv'
<1>t. visit \in VisitType /\ FormsHaveShops /\ StepsComplete /\ offered \subseteq Barbers
  BY DEF VisitorInv, VisitorTyped
<1>1. CASE FillIn
  <2>1. /\ visit' \in VisitType /\ SameForm /\ visit'.barber = visit.barber /\ visit'.chosen = visit.chosen
        /\ visit'.step = visit.step /\ visit'.time = visit.time /\ visit'.passed = visit.passed
    BY <1>1, <1>t DEF FillIn, SameForm, VisitType
  <2>2. QED
    BY <2>1, <1>t, FilledIn DEF StepsComplete, SameForm
<1>2. CASE BarbersListed \/ ServicesListed
  <2>1. visit.shop # Nothing => visit.shop \in Slugs /\ BarbersOf[visit.shop] \subseteq Barbers
    BY <1>t DEF VisitType, Barbers
  <2>2. /\ visit' \in VisitType /\ SameForm /\ visit'.barber = visit.barber /\ visit'.chosen = visit.chosen
        /\ visit'.step = visit.step /\ visit'.time = visit.time /\ visit'.passed = visit.passed
    BY <1>2, <2>1, <1>t DEF BarbersListed, ServicesListed, SameForm, VisitType
  <2>3. QED
    BY <2>2, <1>t, FilledIn DEF StepsComplete, SameForm
<1>3. ASSUME NEW b \in visit.barbers \cup {Nothing}, SelectBarber(b)
      PROVE  VisitorInv'
  <2>1. b \in Barbers \cup {Nothing}
    BY <1>t DEF VisitType
  <2>2. /\ visit' \in VisitType /\ SameForm /\ visit'.barber = b /\ visit'.chosen = visit.chosen
        /\ visit'.step = visit.step /\ visit'.time = visit.time /\ visit'.passed = visit.passed
    BY <1>3, <2>1, <1>t DEF SelectBarber, SameForm, VisitType
  <2>3. QED
    BY <1>3, <2>2, <1>t, FilledIn DEF StepsComplete, SameForm, SelectBarber
<1>4. ASSUME NEW s \in visit.services, ToggleService(s)
      PROVE  VisitorInv'
  <2> DEFINE new == IF \E i \in DOMAIN visit.chosen : visit.chosen[i] = s THEN Without(visit.chosen, s)
                    ELSE Append(visit.chosen, s)
  <2>1. s \in Services /\ visit.chosen \in Seq(Services)
    BY <1>t DEF VisitType
  <2>2. new \in Seq(Services)
    BY <2>1, Toggled
  <2>3. visit' = [visit EXCEPT !.chosen = new]
    BY <1>4 DEF ToggleService
  <2> HIDE DEF new
  <2>4. /\ visit' \in VisitType /\ SameForm /\ visit'.barber = visit.barber /\ visit'.step = visit.step
    BY <1>4, <2>2, <2>3, <1>t DEF ToggleService, SameForm, VisitType
  <2>5. QED
    BY <1>4, <2>4, <1>t, FilledIn DEF StepsComplete, SameForm, ToggleService
<1>5. ASSUME NEW t \in {"ahead", "past"}, SelectTime(t)
      PROVE  VisitorInv'
  <2>1. /\ visit' \in VisitType /\ SameForm /\ visit'.barber = visit.barber /\ visit'.step = visit.step
    BY <1>5, <1>t DEF SelectTime, SameForm, VisitType
  <2>2. QED
    BY <1>5, <2>1, <1>t, FilledIn DEF StepsComplete, SameForm, SelectTime
<1>6. CASE NextStep
  <2>2. visit.step \in 1..2 /\ visit.step + 1 \in 1..3
    BY <1>6, <1>t DEF NextStep, VisitType
  <2> DEFINE next == visit.step + 1
  <2>n. visit' = [visit EXCEPT !.step = next, !.passed = FALSE] /\ next \in 1..3
    BY <1>6, <2>2 DEF NextStep
  <2> HIDE DEF next
  <2>r. /\ visit' \in VisitType /\ SameForm /\ visit'.barber = visit.barber /\ visit'.chosen = visit.chosen
        /\ visit'.step = next /\ visit'.time = visit.time
    BY <1>6, <2>n, <1>t DEF NextStep, SameForm, VisitType
  <2>1. /\ visit' \in VisitType /\ SameForm /\ visit'.barber = visit.barber /\ visit'.chosen = visit.chosen
        /\ visit'.step = visit.step + 1 /\ visit'.time = visit.time
    BY <2>r DEF next
  <2>3. /\ place = "book" /\ visit.barber # Nothing
        /\ visit.step = 2 => visit.chosen # <<>> /\ visit.time = "ahead"
    BY <1>6, <2>2, <1>t DEF StepsComplete, NextStep
  <2>4. visit'.barber # Nothing /\ (visit'.step = 3 => visit'.chosen # <<>> /\ visit'.time = "ahead")
    BY <2>1, <2>2, <2>3
  <2>5. QED
    BY <2>1, <2>4, FilledIn DEF StepsComplete
<1>7. CASE PrevStep
  <2>1. /\ visit' \in VisitType /\ SameForm /\ visit'.barber = visit.barber
        /\ visit'.step = visit.step - 1 /\ visit.step \in 2..3
    BY <1>7, <1>t DEF PrevStep, SameForm, VisitType
  <2>2. QED
    BY <1>7, <2>1, <1>t, FilledIn DEF StepsComplete, SameForm, PrevStep
<1>8. QED
  BY <1>1, <1>2, <1>3, <1>4, <1>5, <1>6, <1>7 DEF BookPage

-----------------------------------------------------------------------------
(* Requests.                                                               *)

LEMMA RequestSent ==
  ASSUME VisitorInv, Join \/ ConfirmBooking
  PROVE  VisitorInv'
<1>t. /\ visit \in VisitType /\ FormsHaveShops /\ StepsComplete /\ BookingsComplete /\ OneWaits
      /\ MadeAreAnswered /\ sent \subseteq RequestType /\ sendings \in Nat /\ MaxSent \in Nat /\ VisitorTyped
      /\ sendings \in 0..MaxSent
  BY VisitorAppAssumption DEF VisitorInv, VisitorTyped
<1>1. PICK op \in {"join", "book"}, service \in Services \cup {Nothing} :
        /\ Send(op, service) /\ ~visit.busy /\ place \in {"join", "book"}
        /\ op = "book" => visit.barber # Nothing /\ service \in Services /\ (visit.time = "ahead" \/ visit.passed)
  <2>1. CASE Join
    <3>1. Send("join", Nothing) /\ ~visit.busy /\ place \in {"join", "book"}
      BY <2>1 DEF Join
    <3>2. QED
      BY <3>1
  <2>2. CASE ConfirmBooking
    <3>1. /\ Send("book", Head(visit.chosen)) /\ ~visit.busy /\ place = "book" /\ visit.step = 3
      BY <2>2 DEF ConfirmBooking
    <3>2. visit.chosen \in Seq(Services) /\ visit.chosen # <<>>
      BY <3>1, <1>t DEF StepsComplete, VisitType
    <3>3. Head(visit.chosen) \in Services
      BY <3>2
    <3>4. visit.barber # Nothing /\ (visit.time = "ahead" \/ visit.passed)
      BY <3>1, <1>t DEF StepsComplete
    <3>5. QED
      BY <3>1, <3>3, <3>4
  <2>3. QED
    BY <2>1, <2>2
<1> DEFINE r == Request(op, service)
<1>2. /\ sendings < MaxSent /\ sendings' = sendings + 1 /\ sent' = sent \cup {r}
      /\ visit' = [visit EXCEPT !.busy = TRUE]
      /\ UNCHANGED <<place, scanning, landing, offered, alert>>
  BY <1>1 DEF Send
<1>3. /\ visit' \in VisitType /\ visit'.busy = TRUE /\ visit'.shop = visit.shop /\ visit'.branch = visit.branch
      /\ visit'.slug = visit.slug /\ visit'.barber = visit.barber /\ visit'.chosen = visit.chosen
      /\ visit'.step = visit.step /\ visit'.time = visit.time /\ visit'.passed = visit.passed
      /\ visit'.made = visit.made /\ visit'.answered = visit.answered
  BY <1>2, <1>t DEF VisitType
<1>4. visit.shop \in Slugs /\ visit.slug \in Slugs /\ (visit.branch = Nothing \/ BranchGiven(visit))
  BY <1>1, <1>t, VisitorAppAssumption DEF FormsHaveShops
<1>5. /\ r.op = op /\ r.shop = visit.shop /\ r.branch = visit.branch /\ r.barber = visit.barber
      /\ r.service = service /\ r.time = visit.time /\ r.passed = visit.passed /\ r.state = "sent"
      /\ r.here = TRUE /\ r.id = sendings + 1 /\ r.slug = visit.slug
  BY DEF Request
<1>6. r \in [id : 1..(sendings + 1), op : {"join", "book"}, shop : Slugs, branch : Branches \cup {Nothing},
             slug : Slugs, barber : Barbers \cup {Nothing}, service : Services \cup {Nothing},
             time : {"ahead", "past"}, passed : BOOLEAN, state : {"sent", "done", "refused"}, here : BOOLEAN]
  <2>1. sendings + 1 \in 1..(sendings + 1)
    BY <1>t
  <2>2. /\ visit.branch \in Branches \cup {Nothing} /\ visit.barber \in Barbers \cup {Nothing}
        /\ visit.time \in {"ahead", "past"} /\ visit.passed \in BOOLEAN
    BY <1>t DEF VisitType
  <2>3. QED
    BY <2>1, <2>2, <1>4 DEF Request
<1>7. BranchGiven(visit) => BranchGiven(r)
  BY <1>5 DEF BranchGiven
<1> HIDE DEF r
<1>8. sent' \subseteq RequestType'
  <2>1. \A q \in sent : q \in [id : 1..(sendings + 1), op : {"join", "book"}, shop : Slugs,
             branch : Branches \cup {Nothing}, slug : Slugs, barber : Barbers \cup {Nothing},
             service : Services \cup {Nothing}, time : {"ahead", "past"}, passed : BOOLEAN,
             state : {"sent", "done", "refused"}, here : BOOLEAN]
    BY <1>t DEF RequestType
  <2>2. QED
    BY <1>2, <1>6, <2>1 DEF RequestType
<1>9. VisitorTyped'
  <2>1. sendings' \in 0..MaxSent
    BY <1>2, <1>t
  <2>2. LandingType' = LandingType /\ VisitType' = VisitType
    BY DEF LandingType, VisitType
  <2>3. QED
    BY <1>2, <1>3, <1>8, <2>1, <2>2, <1>t DEF VisitorTyped
<1>10. FormsHaveShops' /\ StepsComplete'
  BY <1>2, <1>3, <1>t DEF FormsHaveShops, BranchGiven, StepsComplete
<1>11. BookingsComplete'
  BY <1>1, <1>2, <1>4, <1>5, <1>7, <1>t DEF BookingsComplete, BranchGiven
<1>12. OneWaits'
  BY <1>1, <1>2, <1>3, <1>5, <1>t DEF OneWaits
<1>13. MadeAreAnswered'
  BY <1>2, <1>3, <1>t DEF MadeAreAnswered
<1>14. QED
  BY <1>9, <1>10, <1>11, <1>12, <1>13 DEF VisitorInv

LEMMA RequestReceived ==
  ASSUME VisitorInv, NEW r \in sent, Receive(r)
  PROVE  VisitorInv'
<1>t. /\ visit \in VisitType /\ FormsHaveShops /\ StepsComplete /\ BookingsComplete /\ OneWaits
      /\ MadeAreAnswered /\ sent \subseteq RequestType /\ r \in RequestType /\ VisitorTyped
  BY DEF VisitorInv, VisitorTyped
<1> DEFINE state == IF Accepted(r) THEN "done" ELSE "refused"
           n == [r EXCEPT !.state = state]
           made == IF r.here /\ Accepted(r) THEN visit.made + 1 ELSE visit.made
<1>1. /\ r.state = "sent" /\ sent' = (sent \ {r}) \cup {n} /\ visit' = [visit EXCEPT !.made = made]
      /\ UNCHANGED <<place, scanning, landing, sendings, offered, alert>>
  BY DEF Receive
<1>2. state \in {"done", "refused"} /\ made \in Nat
  BY <1>t DEF VisitType
<1>3. (r.here /\ state = "done" /\ made = visit.made + 1) \/ made = visit.made
  OBVIOUS
<1> HIDE DEF state, made
<1>4. /\ n \in RequestType /\ n.op = r.op /\ n.shop = r.shop /\ n.branch = r.branch /\ n.barber = r.barber
      /\ n.service = r.service /\ n.time = r.time /\ n.passed = r.passed /\ n.state = state /\ n.here = r.here
  BY <1>t, <1>2 DEF RequestType
<1> HIDE DEF n
<1>5. /\ visit' \in VisitType /\ visit'.busy = visit.busy /\ visit'.shop = visit.shop
      /\ visit'.branch = visit.branch
      /\ visit'.slug = visit.slug /\ visit'.barber = visit.barber /\ visit'.chosen = visit.chosen
      /\ visit'.step = visit.step /\ visit'.time = visit.time /\ visit'.passed = visit.passed
      /\ visit'.made = made /\ visit'.answered = visit.answered
  BY <1>1, <1>2, <1>t DEF VisitType
<1>6. VisitorTyped'
  <2>1. LandingType' = LandingType /\ VisitType' = VisitType /\ RequestType' = RequestType
    BY <1>1 DEF LandingType, VisitType, RequestType
  <2>2. QED
    BY <1>1, <1>4, <1>5, <1>t, <2>1 DEF VisitorTyped
<1>7. FormsHaveShops' /\ StepsComplete'
  BY <1>1, <1>5, <1>t DEF FormsHaveShops, BranchGiven, StepsComplete
<1>8. BookingsComplete'
  BY <1>1, <1>4, <1>t DEF BookingsComplete, BranchGiven
<1>9. OneWaits'
  BY <1>1, <1>4, <1>5, <1>t DEF OneWaits
<1>10. MadeAreAnswered'
  <2>1. CASE r.here
    <3>1. visit.made <= visit.answered /\ visit.made \in Nat /\ visit.answered \in Nat
      BY <1>1, <2>1, <1>t DEF OneWaits, MadeAreAnswered, VisitType
    <3>2. n \in sent' /\ (made = visit.made \/ (made = visit.made + 1 /\ n.here /\ n.state = "done"))
      BY <1>1, <1>3, <1>4, <2>1
    <3>3. QED
      BY <1>5, <3>1, <3>2 DEF MadeAreAnswered
  <2>2. CASE ~r.here
    <3>1. visit'.made = visit.made /\ visit'.answered = visit.answered
      BY <1>3, <1>5, <2>2
    <3>2. \A q \in sent : q.here => q \in sent'
      BY <1>1, <2>2
    <3>3. QED
      BY <3>1, <3>2, <1>t DEF MadeAreAnswered
  <2>3. QED
    BY <2>1, <2>2
<1>11. QED
  BY <1>6, <1>7, <1>8, <1>9, <1>10 DEF VisitorInv

LEMMA RequestAnswered ==
  ASSUME VisitorInv, NEW r \in sent, ReceiveAnswer(r) \/ AnswerLost(r)
  PROVE  VisitorInv'
<1>t. /\ visit \in VisitType /\ FormsHaveShops /\ StepsComplete /\ BookingsComplete /\ OneWaits
      /\ MadeAreAnswered /\ sent \subseteq RequestType /\ r \in RequestType /\ VisitorTyped
      /\ r.here \in BOOLEAN /\ r.slug \in Slugs /\ visit.busy \in BOOLEAN
      /\ visit.made \in Nat /\ visit.answered \in Nat /\ scanning \in BOOLEAN
  BY DEF VisitorInv, VisitorTyped, RequestType, VisitType
<1>1. UNCHANGED <<scanning, landing, sendings, offered>> /\ alert' \in Slugs \cup {Nothing}
  BY <1>t DEF ReceiveAnswer, AnswerLost, VisitorTyped
<1>2. CASE /\ place' = "tracker" /\ visit' = NoVisit
           /\ sent' = {[q EXCEPT !.here = FALSE] : q \in sent \ {r}}
  <2>1. sent \ {r} \in SUBSET sent
    OBVIOUS
  <2>2. landing' \in LandingType
    BY <1>1, <1>t DEF VisitorTyped
  <2>3. QED
    BY <1>1, <1>2, <1>t, <2>1, <2>2, Anew DEF FormsHaveShops
<1>3. CASE visit' = Answered(r) /\ sent' = sent \ {r} /\ UNCHANGED place
  <2> DEFINE busy2 == visit.busy /\ ~r.here
             answered == IF r.here THEN visit.answered + 1 ELSE visit.answered
  <2>1. busy2 \in BOOLEAN /\ answered \in Nat /\ visit' = [visit EXCEPT !.busy = busy2, !.answered = answered]
    BY <1>3, <1>t DEF Answered
  <2>2. r.here => ~busy2 /\ answered = visit.answered + 1
    OBVIOUS
  <2>3. ~r.here => (busy2 <=> visit.busy) /\ answered = visit.answered
    OBVIOUS
  <2> HIDE DEF busy2, answered
  <2>4. /\ visit' \in VisitType /\ visit'.busy = busy2 /\ visit'.shop = visit.shop
        /\ visit'.branch = visit.branch
        /\ visit'.slug = visit.slug /\ visit'.barber = visit.barber /\ visit'.chosen = visit.chosen
        /\ visit'.step = visit.step /\ visit'.time = visit.time /\ visit'.passed = visit.passed
        /\ visit'.made = visit.made /\ visit'.answered = answered
    BY <2>1, <1>t DEF VisitType
  <2>5. VisitorTyped'
    <3>1. LandingType' = LandingType /\ VisitType' = VisitType /\ RequestType' = RequestType
      BY <1>1 DEF LandingType, VisitType, RequestType
    <3>2. QED
      BY <1>1, <1>3, <2>4, <1>t, <3>1 DEF VisitorTyped
  <2>6. FormsHaveShops' /\ StepsComplete'
    BY <1>1, <1>3, <2>4, <1>t DEF FormsHaveShops, BranchGiven, StepsComplete
  <2>7. BookingsComplete'
    BY <1>3, <1>t DEF BookingsComplete, BranchGiven
  <2>8. OneWaits'
    BY <1>3, <2>2, <2>3, <2>4, <1>t DEF OneWaits
  <2>9. MadeAreAnswered'
    BY <1>3, <2>2, <2>3, <2>4, <1>t DEF MadeAreAnswered
  <2>10. QED
    BY <2>5, <2>6, <2>7, <2>8, <2>9 DEF VisitorInv
<1>4. QED
  BY <1>2, <1>3 DEF ReceiveAnswer, AnswerLost

LEMMA ClockPasses ==
  ASSUME VisitorInv, TimePasses
  PROVE  VisitorInv'
<1>t. /\ visit \in VisitType /\ FormsHaveShops /\ StepsComplete /\ BookingsComplete /\ OneWaits
      /\ MadeAreAnswered /\ sent \subseteq RequestType /\ VisitorTyped
  BY DEF VisitorInv, VisitorTyped
<1>1. UNCHANGED <<place, scanning, landing, sendings, offered, alert>>
  BY DEF TimePasses
<1>2. /\ visit' \in VisitType /\ visit'.shop = visit.shop /\ visit'.branch = visit.branch
      /\ visit'.slug = visit.slug /\ visit'.barber = visit.barber /\ visit'.chosen = visit.chosen
      /\ visit'.step = visit.step /\ visit'.busy = visit.busy /\ visit'.made = visit.made
      /\ visit'.answered = visit.answered
      /\ visit.time = "ahead" \/ visit.passed => visit'.time = "ahead" \/ visit'.passed
  BY <1>t DEF TimePasses, Passed, VisitType
<1> DEFINE After(r) == IF r.op = "book" THEN Passed(r) ELSE r
<1>3. ASSUME NEW r \in sent
      PROVE  /\ After(r) \in RequestType /\ After(r).op = r.op /\ After(r).shop = r.shop
             /\ After(r).branch = r.branch /\ After(r).barber = r.barber /\ After(r).service = r.service
             /\ After(r).state = r.state /\ After(r).here = r.here
             /\ r.op = "book" /\ (r.time = "ahead" \/ r.passed) => After(r).passed
  BY <1>t DEF Passed, RequestType
<1>4. sent' = {After(r) : r \in sent}
  BY DEF TimePasses
<1> HIDE DEF After
<1>5. VisitorTyped'
  <2>1. LandingType' = LandingType /\ VisitType' = VisitType /\ RequestType' = RequestType
    BY <1>1 DEF LandingType, VisitType, RequestType
  <2>2. QED
    BY <1>1, <1>2, <1>3, <1>4, <1>t, <2>1 DEF VisitorTyped
<1>6. FormsHaveShops' /\ StepsComplete'
  BY <1>1, <1>2, <1>t DEF FormsHaveShops, BranchGiven, StepsComplete
<1>7. BookingsComplete'
  BY <1>3, <1>4, <1>t DEF BookingsComplete, BranchGiven
<1>8. OneWaits' /\ MadeAreAnswered'
  BY <1>1, <1>2, <1>3, <1>4, <1>t DEF OneWaits, MadeAreAnswered
<1>9. QED
  BY <1>5, <1>6, <1>7, <1>8 DEF VisitorInv

LEMMA VisitorInvNext == VisitorInv /\ [VisitorNext]_visitorVars => VisitorInv'
<1> SUFFICES ASSUME VisitorInv, [VisitorNext]_visitorVars
             PROVE  VisitorInv'
  OBVIOUS
<1>1. CASE \/ SimulateScan \/ ScanEnds \/ DismissAlert \/ GoBack \/ LandingPage
           \/ \E s \in Slugs : GoToShop(s)
  BY <1>1, LandingSteps
<1>2. CASE \/ FillIn \/ BookPage \/ BarbersListed \/ ServicesListed
           \/ \E b \in visit.barbers \cup {Nothing} : SelectBarber(b)
  BY <1>2, FormSteps
<1>3. CASE Join \/ ConfirmBooking
  BY <1>3, RequestSent
<1>4. CASE \E r \in sent : Receive(r) \/ ReceiveAnswer(r) \/ AnswerLost(r)
  BY <1>4, RequestReceived, RequestAnswered
<1>5. CASE TimePasses
  BY <1>5, ClockPasses
<1>6. CASE UNCHANGED visitorVars \/ \E b \in offered : WithdrawBarber(b)
  <2>1. UNCHANGED <<place, scanning, landing, visit, sent, sendings, alert>> /\ offered' \subseteq offered
    BY <1>6 DEF visitorVars, WithdrawBarber
  <2>2. VisitorTyped'
    BY <2>1 DEF VisitorInv, VisitorTyped, LandingType, VisitType, RequestType
  <2>3. QED
    BY <2>1, <2>2 DEF VisitorInv, FormsHaveShops, BranchGiven, StepsComplete, BookingsComplete, OneWaits,
                      MadeAreAnswered
<1>7. QED
  BY <1>1, <1>2, <1>3, <1>4, <1>5, <1>6 DEF VisitorNext

(* book-appointment.page.ts, join-queue.page.ts: whatever is pressed,      *)
(* lost or answered late, a page has no more rows made than it has answers *)
(* and one more.                                                           *)
THEOREM OneRowAnAnswer == VisitorSpec => []NoUnansweredDouble
<1>1. VisitorInv => NoUnansweredDouble
  BY DEF VisitorInv, VisitorTyped, VisitType, MadeAreAnswered, NoUnansweredDouble
<1>2. QED
  BY <1>1, VisitorInvInit, VisitorInvNext, PTL DEF VisitorSpec

(* book-appointment.page.ts against bookAppointmentAsGuest: whoever the    *)
(* wizard lets through has a branch of the shop, a barber, a service and a *)
(* time to come; what the API refuses has changed since, or was never      *)
(* listed.                                                                 *)
THEOREM WizardAsksForAll == VisitorSpec => BookingsRefusedForCause
<1>1. VisitorInv /\ [VisitorNext]_visitorVars =>
        [\A r \in sent : r.op = "book" /\ Receive(r) /\ ~Accepted(r) => Excuse(r)]_visitorVars
  <2> SUFFICES ASSUME VisitorInv, NEW r \in sent, r.op = "book", ~Accepted(r), ~Excuse(r)
               PROVE  FALSE
    OBVIOUS
  <2>1. r.shop \in UuidShops /\ r.branch # Nothing /\ r.barber \notin Barbers \ offered /\ ~r.passed
    BY DEF Excuse
  <2>2. r.barber \in Barbers \cup {Nothing}
    BY DEF VisitorInv, VisitorTyped, RequestType
  <2>3. BranchGiven(r) /\ r.barber \in offered /\ r.barber # Nothing /\ r.service \in Services /\ r.time = "ahead"
    BY <2>1, <2>2 DEF VisitorInv, BookingsComplete
  <2>4. FieldsKnown(r)
    BY DEF FieldsKnown, BookFields, GuestBookAppointmentInput
  <2>5. QED
    BY <2>1, <2>3, <2>4 DEF Accepted
<1>2. QED
  BY <1>1, VisitorInvInit, VisitorInvNext, PTL DEF VisitorSpec, BookingsRefusedForCause

-----------------------------------------------------------------------------
(* The four together.                                                      *)

(* Each behaviour of the small instances moves one of the applications and *)
(* leaves the others as they began: all variables keep their types.        *)
THEOREM AppsTyped == Spec => []TypeOK
<1> DEFINE Inv == DialogInv /\ VisitorInv /\ SocketInv /\ PagesInv /\ StaffInv
<1>1. Init => Inv
  BY DialogInvInit, VisitorInvInit, SocketInvInit, PagesInvInit, StaffInvInit DEF Init
<1>2. Inv /\ [Next]_clientVars => Inv'
  <2>1. [Next]_clientVars => /\ [DialogNext]_dialogVars
                             /\ [VisitorNext]_visitorVars /\ [SocketNext]_socketVars
                             /\ [StaffNext]_staffVars
    BY DEF Next, Dialogs, Visitor, Sockets, Session, clientVars
  <2>2. QED
    BY <2>1, DialogInvNext, VisitorInvNext, SocketInvNext, PagesInvNext, StaffInvNext
<1>3. Inv => TypeOK
  <2>1. VisitorInv => VisitorTypeOK
    BY DEF VisitorInv, VisitorTyped, VisitorTypeOK, LandingType, VisitType, RequestType
  <2>2. QED
    BY <2>1, SocketTyped DEF TypeOK, DialogInv, StaffInv
<1>4. QED
  BY <1>1, <1>2, <1>3, PTL DEF Spec
=============================================================================
