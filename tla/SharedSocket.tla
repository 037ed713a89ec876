---------------------------- MODULE SharedSocket ----------------------------
(***************************************************************************)
(* QueueSocketService is a singleton: every page of an application that    *)
(* follows a queue calls the same service, which keeps one socket.  In the *)
(* customer's application the callers are trackers, each of its own entry; *)
(* a late answer to a join pushes a tracker over another.  In the admin    *)
(* dashboard they are the sidebar, which stays while the pages change, and *)
(* the pages dashboard-home and live-queue.  The socket.io client          *)
(* reconnects by itself, and keeps what is emitted while it is not         *)
(* connected; forceReconnect only hurries it, for currentShopId is null    *)
(* whenever there is no socket.                                            *)
(***************************************************************************)
EXTENDS Integers, FiniteSets, Sequences

CONSTANTS
  EntryShop,   \* for each entry that is tracked, its shop
  Staff,       \* for each user of the dashboard, the first shop in the token and the one owned
  NoEntry

Tracked == DOMAIN EntryShop

OfficePages == {"dashboard", "liveQueue"}

Office == OfficePages \cup {"sidebar"}

Callers == Tracked \cup Office

StaffShops == ({u.token : u \in Staff} \cup {u.owns : u \in Staff}) \ {NoEntry}

QueueShops == {EntryShop[e] : e \in Tracked} \cup StaffShops

\* Before the first myShop.
NotAsked == "not asked"

ASSUME SharedSocketAssumption ==
  /\ NoEntry \notin Callers /\ NoEntry \notin {EntryShop[e] : e \in Tracked}
  /\ Tracked \cap Office = {}
  /\ NotAsked \notin StaffShops /\ NotAsked # NoEntry

VARIABLES
  device,    \* a visitor's phone, or the staff's office
  stack,     \* the pages that are open, the one in front last
  asks,      \* queries under way, and whether the page that asked is still there
  known,     \* shops: of the user, in the tenant, of the page in front, and as myShop's answer
  svc,       \* the service: its socket, currentEntryId, what is emitted, the rooms
  caller,    \* history: whose code called the service last, for which shop, and was it left before
  joined,    \* history: pages that are open and have connected
  seen       \* history: the shops of all who have signed in

office == <<known, seen>>
socketVars == <<device, stack, asks, office, svc, caller, joined>>

NoSocket == [shop |-> NoEntry, link |-> "none", entry |-> NoEntry, sends |-> <<>>, rooms |-> {}]

Opened == {stack[i] : i \in DOMAIN stack}

Calls(v, s, left) == caller' = [view |-> v, shop |-> s, left |-> left]

-----------------------------------------------------------------------------
(* The service's methods, as functions of its state.                       *)

\* Only when there is a socket of another shop, or none, is one made.
ConnectTo(s, shop) ==
  IF s.link # "none" /\ s.shop = shop THEN s
  ELSE [NoSocket EXCEPT !.shop = shop, !.link = "connecting", !.entry = s.entry]

TornDown(s) == [NoSocket EXCEPT !.entry = s.entry]

JoinEntry(s, e) ==
  [s EXCEPT !.entry = e, !.sends = IF s.link = "none" THEN @ ELSE Append(@, e)]

\* LEAVE_ENTRY is emitted too, just before the socket is closed.
LeaveEntry(s, e) == [s EXCEPT !.entry = IF @ = e THEN NoEntry ELSE @]

-----------------------------------------------------------------------------
(* The connection.                                                         *)

\* The room of the entry is asked for when its tracker opens, and never again.
JoinedOnce(s) == [s EXCEPT !.link = "up", !.rooms = {s.shop}]

\* handleConnection joins the shop's room; what was emitted before is sent,
\* and then the room of currentEntryId is asked for again.
RejoinOnConnect(s) ==
  [s EXCEPT !.link = "up", !.rooms = {s.shop},
            !.sends = IF s.entry = NoEntry THEN @ ELSE Append(@, s.entry)]

LinkUp ==
  /\ svc.link \in {"connecting", "down"}
  /\ svc' = RejoinOnConnect(svc)
  /\ UNCHANGED <<device, stack, asks, office, caller, joined>>

\* connect_error: the client tries again later.
LinkFails ==
  /\ svc.link = "connecting"
  /\ svc' = [svc EXCEPT !.link = "down"]
  /\ UNCHANGED <<device, stack, asks, office, caller, joined>>

\* disconnect: the server forgets the rooms, and what was under way is lost.
LinkLost ==
  /\ svc.link = "up"
  /\ svc' = [svc EXCEPT !.link = "down", !.rooms = {}, !.sends = <<>>]
  /\ UNCHANGED <<device, stack, asks, office, caller, joined>>

\* handleJoinEntry.
ServerJoinsEntry ==
  /\ svc.link = "up" /\ svc.sends # <<>>
  /\ svc' = [svc EXCEPT !.rooms = @ \cup {Head(svc.sends)}, !.sends = Tail(@)]
  /\ UNCHANGED <<device, stack, asks, office, caller, joined>>

-----------------------------------------------------------------------------
(* The trackers of a phone.                                                *)

\* By the answer to a join, even a late one: it covers the page in front.
OpenTracker(e) ==
  /\ device = "phone" /\ e \notin Opened
  /\ stack' = Append(stack, e)
  /\ asks' = asks \cup {[view |-> e, here |-> TRUE]}
  /\ UNCHANGED <<device, office, svc, caller, joined>>

\* watchUpdates.  Nobody drops the query of a tracker that is left: it still
\* connects, and what it subscribes to is never dropped.
EntryLoaded ==
  /\ device = "phone"
  /\ \E a \in asks :
       /\ asks' = asks \ {a}
       /\ svc' = JoinEntry(ConnectTo(svc, EntryShop[a.view]), a.view)
       /\ Calls(a.view, EntryShop[a.view], ~a.here)
       /\ joined' = IF a.here THEN joined \cup {a.view} ELSE joined
  /\ UNCHANGED <<device, stack, office>>

EntryNotLoaded ==
  /\ device = "phone"
  /\ \E a \in asks : asks' = asks \ {a}
  /\ UNCHANGED <<device, stack, office, svc, caller, joined>>

\* The subscriptions are dropped, the socket is kept.
StopListening(s, e) == LeaveEntry(s, e)

\* ngOnDestroy.
StopWatching(s, e) == TornDown(LeaveEntry(s, e))

\* Back to the page below: the page in front is destroyed.
LeaveTracker ==
  /\ device = "phone" /\ stack # <<>>
  /\ LET e == stack[Len(stack)] IN
       /\ stack' = SubSeq(stack, 1, Len(stack) - 1)
       /\ asks' = {IF a.view = e THEN [a EXCEPT !.here = FALSE] ELSE a : a \in asks}
       /\ svc' = StopWatching(svc, e)
       /\ Calls(e, NoEntry, FALSE)
       /\ joined' = joined \ {e}
  /\ UNCHANGED <<device, office>>

-----------------------------------------------------------------------------
(* The office: the sidebar and one page beside it.                         *)

PageNow == IF Len(stack) = 2 THEN {stack[2]} ELSE {}

\* What a page finds by itself: dashboard-home in the token, live-queue in the
\* tenant, else in the token.
Found(p) ==
  IF p = "liveQueue" /\ known.tenant # NoEntry THEN known.tenant
  ELSE IF p \in OfficePages THEN known.token
  ELSE NoEntry

Knows(p) == Found(p) # NoEntry

\* A page that knows the shop's id connects at once.
PageOpens(s, p) == IF Knows(p) THEN ConnectTo(s, Found(p)) ELSE s

\* Both ask for the shop that they do not know, dashboard-home in any case.
PageAsks(p) ==
  IF p = "dashboard" \/ (p = "liveQueue" /\ ~Knows(p)) THEN {[view |-> p, here |-> TRUE]} ELSE {}

\* getMyShop: Apollo keeps the answer whoever signs in next, and a query under
\* way is shared.
Answering(asking) ==
  IF asking = {} \/ known.myShop # NotAsked THEN known.myShop ELSE known.owns

\* ngOnDestroy disconnects the service that the sidebar uses too.
PageCloses(s) == IF PageNow # {} THEN TornDown(s) ELSE s

\* The new page is made first.
PageChangesLate(p) == PageCloses(PageOpens(svc, p))

\* The router destroys the old page before it makes the new one.
PageChanges(p) == PageOpens(PageCloses(svc), p)

\* The pages that do not follow the queue are not on the stack.
Shows(p, asking) ==
  /\ stack' = IF p \in OfficePages THEN <<"sidebar", p>> ELSE <<"sidebar">>
  /\ svc' = PageChanges(p)
  /\ joined' = (joined \ PageNow) \cup (IF Knows(p) THEN {p} ELSE {})
  /\ known' = [known EXCEPT !.page = Found(p), !.myShop = Answering(asking),
                            !.tenant = IF Knows(p) THEN Found(p) ELSE @]
  /\ IF Knows(p) THEN Calls(p, Found(p), FALSE)
     ELSE IF PageNow # {} THEN \E q \in PageNow : Calls(q, NoEntry, FALSE)
     ELSE UNCHANGED caller
  /\ UNCHANGED <<device, seen>>

EnterOffice ==
  /\ device = "office" /\ stack = <<>>
  /\ \E p \in OfficePages \cup {"elsewhere"} :
       LET asking == {[view |-> "sidebar", here |-> TRUE]} \cup PageAsks(p) IN
       Shows(p, asking) /\ asks' = asks \cup asking

\* Another page: what the old one asked is dropped with its subscriptions.
MovePage ==
  /\ device = "office" /\ stack # <<>>
  /\ \E p \in (OfficePages \cup {"elsewhere"}) \ PageNow :
       Shows(p, PageAsks(p)) /\ asks' = {a \in asks : a.view = "sidebar"} \cup PageAsks(p)

\* getMyShop sets the tenant's shop, with which the sidebar connects, be it
\* another than the page's.  The query of a sidebar is not among its
\* subscriptions: it connects after it has been left, too.
Connects(a) ==
  /\ svc' = ConnectTo(svc, known.myShop)
  /\ Calls(a.view, known.myShop, ~a.here)
  /\ joined' = IF a.here THEN joined \cup {a.view} ELSE joined

ShopFound ==
  /\ device = "office" /\ known.myShop \in StaffShops
  /\ \E a \in asks :
       /\ asks' = asks \ {a}
       /\ known' = [known EXCEPT !.tenant = known.myShop, !.cached = TRUE,
                                 !.page = IF a.view # "sidebar" /\ @ = NoEntry THEN known.myShop ELSE @]
       /\ IF a.view = "sidebar" \/ known.page = NoEntry THEN Connects(a)
          ELSE UNCHANGED <<svc, caller, joined>>
  /\ UNCHANGED <<device, stack, seen>>

\* The user owns no shop: null, which is kept like an answer.
ShopUnknown ==
  /\ device = "office" /\ known.myShop = NoEntry
  /\ \E a \in asks : asks' = asks \ {a}
  /\ known' = [known EXCEPT !.cached = TRUE]
  /\ UNCHANGED <<device, stack, svc, caller, joined, seen>>

\* The query fails, for all who share it.
ShopQueryFails ==
  /\ device = "office" /\ known.myShop # NotAsked /\ ~known.cached
  /\ asks' = {}
  /\ known' = [known EXCEPT !.myShop = NotAsked]
  /\ UNCHANGED <<device, stack, svc, caller, joined, seen>>

\* Logging out destroys the page and the sidebar, which closes nothing; then
\* somebody signs in, and finds the tenant's shop and Apollo's cache.
LeaveOffice ==
  /\ device = "office" /\ stack # <<>>
  /\ stack' = <<>>
  /\ asks' = {[a EXCEPT !.here = FALSE] : a \in {b \in asks : b.view = "sidebar"}}
  /\ svc' = PageCloses(svc)
  /\ joined' = {}
  /\ IF PageNow # {} THEN \E q \in PageNow : Calls(q, NoEntry, FALSE) ELSE UNCHANGED caller
  /\ \E u \in Staff :
       /\ known' = [known EXCEPT !.token = u.token, !.owns = u.owns, !.page = NoEntry]
       /\ seen' = seen \cup ({u.token, u.owns} \ {NoEntry})
  /\ UNCHANGED device

-----------------------------------------------------------------------------

SocketInit ==
  /\ device \in {"phone", "office"}
  /\ stack = <<>> /\ asks = {} /\ svc = NoSocket
  /\ \E u \in IF device = "office" THEN Staff ELSE {[token |-> NoEntry, owns |-> NoEntry]} :
       /\ known = [token |-> u.token, owns |-> u.owns, tenant |-> NoEntry, page |-> NoEntry,
                    myShop |-> NotAsked, cached |-> FALSE]
       /\ seen = {u.token, u.owns} \ {NoEntry}
  /\ caller = [view |-> NoEntry, shop |-> NoEntry, left |-> FALSE] /\ joined = {}

SocketNext ==
  \/ LinkUp \/ LinkFails \/ LinkLost \/ ServerJoinsEntry
  \/ \E e \in Tracked : OpenTracker(e)
  \/ EntryLoaded \/ EntryNotLoaded \/ LeaveTracker
  \/ EnterOffice \/ MovePage \/ ShopFound \/ ShopUnknown \/ ShopQueryFails \/ LeaveOffice

SocketSpec == SocketInit /\ [][SocketNext]_socketVars

-----------------------------------------------------------------------------

Service ==
  [shop : QueueShops \cup {NoEntry}, link : {"none", "connecting", "up", "down"},
   entry : Tracked \cup {NoEntry}, sends : Seq(Tracked), rooms : SUBSET (Tracked \cup QueueShops)]

KnownType ==
  [token : StaffShops \cup {NoEntry}, owns : StaffShops \cup {NoEntry},
   tenant : StaffShops \cup {NoEntry}, page : StaffShops \cup {NoEntry},
   myShop : StaffShops \cup {NoEntry, NotAsked}, cached : BOOLEAN]

CallerType ==
  [view : Callers \cup {NoEntry}, shop : QueueShops \cup {NoEntry}, left : BOOLEAN]

\* Every variable has its type.
SocketTypeOK ==
  /\ device \in {"phone", "office"} /\ known \in KnownType /\ seen \subseteq StaffShops
  /\ Opened \subseteq Callers /\ Cardinality(Opened) = Len(stack) /\ joined \subseteq Opened
  /\ asks \subseteq [view : Callers, here : BOOLEAN]
  /\ svc \in Service
  /\ caller \in CallerType

\* Whose code was the last to call the service, and is still open, has what it
\* asked for: a socket of its shop, and, whatever connections were lost in
\* between, once the server has heard everything, a place in its own rooms.
LastCallerIsServed ==
  \A v \in joined \cap {caller.view} : ~caller.left =>
    /\ svc.shop = caller.shop
    /\ (svc.link = "up" /\ svc.sends = <<>>) =>
         {svc.shop} \cup ({v} \cap Tracked) \subseteq svc.rooms

\* A socket that stays open with no page behind it has one of two causes: the
\* answer to a page that had been left, or the sidebar, which closes nothing.
OrphansHaveCause ==
  (svc.link # "none" /\ stack = <<>>) => caller.left \/ caller.view = "sidebar"

\* However the pages of the dashboard follow each other, the one in front keeps
\* the socket that it connected, although the page before it closed that very
\* service, and the sidebar shares it.  It has one cause to lose it: the sidebar
\* was the last to call, and this tab has met more than one shop, another user's
\* or a second one of the same user (sidebar.component.ts:56).
OfficePageKeepsSocket ==
  \A p \in joined \cap OfficePages :
    \/ svc.shop = known.page
    \/ caller.view = "sidebar" /\ seen # {known.page}

-----------------------------------------------------------------------------
(* The inductive invariant behind OrphansHaveCause and                     *)
(* OfficePageKeepsSocket.                                                  *)

\* A tracker that has not been left is open, and when the last one is closed
\* the socket goes with it.
PhoneInv ==
  device = "phone" =>
    /\ stack \in Seq(Tracked) /\ joined \subseteq Tracked
    /\ \A a \in asks : a.view \in Tracked /\ (a.here => a.view \in Opened)
    /\ stack = <<>> /\ svc.link # "none" => caller.left

\* What a page of the dashboard asked or connected goes when it goes; without
\* a page, only the sidebar has a socket.
OfficeInv ==
  device = "office" =>
    /\ stack \in {<<>>, <<"sidebar">>} \cup {<<"sidebar", p>> : p \in OfficePages}
    /\ joined \cap OfficePages \subseteq PageNow
    /\ \A a \in asks : a.view = "sidebar" \/ a.view \in PageNow
    /\ PageNow = {} /\ svc.link # "none" => caller.left \/ caller.view = "sidebar"

\* Nobody follows a shop that none who has signed in here belongs to.
ShopsMet ==
  /\ {known.token, known.owns, known.tenant, known.page} \subseteq seen \cup {NoEntry}
  /\ known.myShop \in seen \cup {NoEntry, NotAsked}
  /\ device = "office" => svc.shop \in seen \cup {NoEntry}

\* The page in front has its socket, or the sidebar has connected another.
PageConnected ==
  \A p \in joined \cap OfficePages :
    /\ known.page # NoEntry /\ svc.link # "none"
    /\ svc.shop = known.page \/ caller.view = "sidebar"

SocketInv ==
  /\ device \in {"phone", "office"}
  /\ svc \in Service /\ (svc.link # "none" => svc.shop # NoEntry)
  /\ asks \subseteq [view : Callers, here : BOOLEAN]
  /\ known \in KnownType /\ seen \subseteq StaffShops
  /\ PhoneInv /\ OfficeInv /\ ShopsMet /\ PageConnected

\* Behind the types: each page is open once, and only a page that is open has
\* connected or waits for what it asked.
PagesInv ==
  /\ stack \in Seq(Callers) /\ \A i, j \in DOMAIN stack : stack[i] = stack[j] => i = j
  /\ joined \subseteq Opened /\ \A a \in asks : a.here => a.view \in Opened
  /\ caller \in CallerType

\* What is behind LastCallerIsServed: the last caller has a socket of its shop,
\* or one on its way, and its entry is in the room, asked for, or will be asked
\* for when the line is up.
Asked(v) == v \in svc.rooms \/ \E i \in DOMAIN svc.sends : svc.sends[i] = v

CallerAwaited ==
  /\ svc.link = "up" => svc.shop \in svc.rooms
  /\ \A v \in joined \cap {caller.view} : ~caller.left =>
       /\ svc.link # "none" /\ svc.shop = caller.shop
       /\ v \in Tracked => svc.entry = v /\ (svc.link = "up" => Asked(v))
=============================================================================
