---------------------------- MODULE LiveScreens ----------------------------
(***************************************************************************)
(* The pages that follow a queue live, each with its socket service: the   *)
(* customer's tracker (live-tracker.page.ts), the staff's table            *)
(* (live-queue.page.ts) and the shop's display (queue-display.page.ts).    *)
(* One page is open, which one is chosen at the start.  The subscription   *)
(* over GraphQL that each page keeps as a fallback is left out: the Apollo *)
(* clients of the three applications have an HTTP link only.               *)
(***************************************************************************)
EXTENDS QueueGateway

CONSTANT Targets   \* for each page that may be open, what other devices ask for

Pages == DOMAIN Targets

ASSUME LiveScreensAssumption ==
  /\ Pages \subseteq {"tracker", "liveQueue", "display"}
  /\ \A p \in Pages : Targets[p] \subseteq Statuses

VARIABLES
  page,      \* which page is open
  opened,    \* ngOnInit has run
  loaded,    \* the first query was answered
  shown,     \* the rows on the screen
  hero,      \* currentServing, or the entry of nowServingTicket; 0 for none
  ticker,    \* waitingTicker of the display
  cache,     \* activeQueue in Apollo's cache
  behind     \* why the screen may be out of date

screen == <<opened, loaded, shown, hero, ticker, cache, behind>>
vars   == <<server, network, page, screen>>

\* The row with the least position; the list's order decides ties.
First(list, S) ==
  CHOOSE e \in S : \A d \in S \ {e} :
    \/ list[e].position < list[d].position
    \/ list[e].position = list[d].position /\ Ahead(e, d)

-----------------------------------------------------------------------------
(* Showing a list.                                                         *)

\* queue-display applyQueue: with nobody SERVING, the first row is the hero.
DisplayHero(list) ==
  IF Serving(list) # {} THEN First(list, Serving(list))
  ELSE IF DOMAIN list # {} THEN First(list, DOMAIN list) ELSE 0

\* updateCurrentServing, and the ticket of the tracker: the first in the list.
ServingHero(list) == IF Serving(list) # {} THEN Foremost(Serving(list)) ELSE 0

HeroOf(list) == IF page = "display" THEN DisplayHero(list) ELSE ServingHero(list)

TickerOf(list) == DOMAIN list \ {HeroOf(list)}

\* A list is on its way that will bring the screen up to date.
ListIn(messages) == \E i \in DOMAIN messages : messages[i].type = "QUEUE_UPDATED"

ListComing == ListIn(inbox)

ShowRows(list) ==
  /\ shown' = list
  /\ hero' = HeroOf(list)
  /\ ticker' = IF page = "display" THEN TickerOf(list) ELSE {}

-----------------------------------------------------------------------------
(* Opening a page, and its query.                                          *)

\* The tracker connects while its entry is still on its way.
AlwaysAtOnce == TRUE

\* The tracker connects when its entry is loaded, the other pages at once.
ConnectsAtOnce == page # "tracker"

Ask == fetch' = [fetch EXCEPT !.at = "asked"]

OpenPage ==
  /\ ~opened
  /\ page = "tracker" => status[Me] # "ABSENT"
  /\ opened' = TRUE
  /\ Ask
  /\ socket' = IF ConnectsAtOnce THEN "connecting" ELSE socket
  /\ UNCHANGED <<server, inRoom, inbox, since, click, losses, page, loaded, shown, hero, ticker, cache,
                 behind>>

\* The query reads the database.
QueryRuns == Read(IF page = "tracker" THEN [e \in {Me} |-> Row(e)] ELSE ActiveQueue)

\* Its answer reaches the page.
QueryAnswered ==
  /\ fetch.at = "read"
  /\ fetch' = NoFetch
  /\ loaded' = TRUE
  /\ IF page = "tracker"
       THEN /\ shown' = fetch.list
            /\ socket' = IF ConnectsAtOnce THEN socket ELSE "connecting"
            /\ UNCHANGED <<hero, ticker, cache>>
       ELSE /\ ShowRows(fetch.list)
            /\ cache' = fetch.list
            /\ UNCHANGED socket
  /\ behind' = IF since # "broadcast" THEN {}
               ELSE behind \cup (IF ListComing THEN {} ELSE {"overtaken"})
  /\ since' = "broadcast"
  /\ UNCHANGED <<server, inRoom, inbox, click, losses, page, opened>>

\* The query fails: the tracker shows an error for good.
QueryFails ==
  /\ fetch.at # "none"
  /\ losses < MaxLosses
  /\ losses' = losses + 1
  /\ fetch' = NoFetch
  /\ behind' = behind \cup {"unanswered"}
  /\ since' = "broadcast"
  /\ UNCHANGED <<server, socket, inRoom, inbox, click, page, opened, loaded, shown, hero,
                 ticker, cache>>

\* The staff's Refresh button, disabled while loading; the display's poll,
\* every 30 s while its socket is not connected.
AskAgain ==
  /\ opened
  /\ fetch.at = "none"
  /\ page = "liveQueue" \/ (page = "display" /\ socket # "up")
  /\ Ask
  /\ UNCHANGED <<server, socket, inRoom, inbox, since, click, losses, page, screen>>

-----------------------------------------------------------------------------
(* The socket.                                                             *)

\* handleConnection puts the socket into the shop's room.
Connect ==
  /\ socket = "connecting"
  /\ socket' = "up"
  /\ UNCHANGED <<server, inRoom, inbox, fetch, since, click, losses, page, screen>>

\* The tracker asks for the room of its entry after every connect.
JoinEntry ==
  /\ page = "tracker"
  /\ JoinEntryRoom
  /\ UNCHANGED <<page, screen>>

\* The connection breaks: messages on their way are lost, rooms are left, and
\* socket.io goes on trying to reconnect.
Disconnect ==
  /\ socket = "up"
  /\ losses < MaxLosses
  /\ losses' = losses + 1
  /\ socket' = "connecting"
  /\ inRoom' = FALSE
  /\ inbox' = <<>>
  /\ behind' = IF ListComing THEN behind \cup {"lost"} ELSE behind
  /\ UNCHANGED <<server, fetch, since, click, page, opened, loaded, shown, hero, ticker, cache>>

-----------------------------------------------------------------------------
(* Messages.                                                               *)

\* A handler that takes an empty list for a queue that is still loading.
ApplyUnlessEmpty(m) ==
  /\ IF m.list = <<>> THEN UNCHANGED <<shown, hero, ticker>>
     ELSE IF page = "tracker"
       THEN /\ hero' = ServingHero(m.list)
            /\ shown' = IF Me \in DOMAIN m.list THEN [e \in {Me} |-> m.list[Me]] ELSE shown
            /\ UNCHANGED ticker
       ELSE ShowRows(m.list)
  /\ behind' = IF ListIn(Tail(inbox)) THEN behind ELSE {}

\* The QUEUE_UPDATED handlers.
ApplyList(m) ==
  /\ IF page = "tracker"
       THEN /\ hero' = ServingHero(m.list)
            /\ shown' = IF Me \in DOMAIN m.list THEN [e \in {Me} |-> m.list[Me]] ELSE shown
            /\ UNCHANGED ticker
       ELSE ShowRows(m.list)
  /\ behind' = IF ListIn(Tail(inbox)) THEN behind ELSE {}

\* The NOW_SERVING_CHANGED handlers.
ApplyNowServing(m) ==
  /\ hero' = m.entry
  /\ shown' = IF page # "display" /\ m.entry \in DOMAIN shown
                THEN [shown EXCEPT ![m.entry] = m.row] ELSE shown
  /\ UNCHANGED <<ticker, behind>>

\* A toast, a sound and an animation.
ApplyNotification == UNCHANGED <<shown, hero, ticker, behind>>

Receive ==
  /\ inbox # <<>>
  /\ inbox' = Tail(inbox)
  /\ LET m == Head(inbox) IN
     CASE m.type = "QUEUE_UPDATED"       -> ApplyList(m)
       [] m.type = "NOW_SERVING_CHANGED" -> ApplyNowServing(m)
       [] OTHER                          -> ApplyNotification
  /\ UNCHANGED <<server, socket, inRoom, fetch, since, click, losses, page, opened, loaded, cache>>

-----------------------------------------------------------------------------
(* The staff's buttons.                                                    *)

\* The sort of nextWaiting turned round.
LastWaiting ==
  LET W == {e \in DOMAIN shown : shown[e].status = "WAITING"}
  IN IF W = {} THEN 0 ELSE CHOOSE e \in W : e = Max(W)

\* nextWaiting
NextWaiting ==
  LET W == {e \in DOMAIN shown : shown[e].status = "WAITING"}
  IN IF W = {} THEN 0 ELSE First(shown, W)

\* actionLoading disables every button until the mutation is answered.
Click(e, target) ==
  /\ page = "liveQueue"
  /\ click.at = "none"
  /\ e # 0
  /\ click' = [at |-> "sent", entry |-> e, target |-> target,
               position |-> IF e \in DOMAIN shown THEN shown[e].position ELSE 0]
  /\ UNCHANGED <<server, socket, inRoom, inbox, fetch, since, losses, page, screen>>

CallNext == Click(NextWaiting, "CALLED")

StartServing(e) == e \in DOMAIN shown /\ shown[e].status = "CALLED" /\ Click(e, "SERVING")

\* The button is on every row that is not SERVED or NO_SHOW.
SkipToken(e) ==
  /\ e \in DOMAIN shown
  /\ shown[e].status \notin {"SERVED", "NO_SHOW"}
  /\ Click(e, "NO_SHOW")

\* currentServing need not be in the table any more.
CompleteCurrent == Click(hero, "SERVED")

\* The row as the mutation returns it.
Patched(list) ==
  IF click.entry \in DOMAIN list
    THEN [list EXCEPT ![click.entry] = [status |-> click.target, position |-> click.position]]
    ELSE list

NoClick == [at |-> "none", entry |-> 0, target |-> "WAITING", position |-> 0]

\* The answer carries the row as it was updated, before the queue was numbered
\* anew.  Apollo writes it into its cache, and the query of the page, which
\* watches the cache, shows the cached list again.
ClickSucceeds ==
  /\ click.at = "done"
  /\ click' = NoClick
  /\ cache' = Patched(cache)
  /\ IF Patched(cache) = cache
       THEN UNCHANGED <<shown, hero, ticker, behind>>
       ELSE /\ ShowRows(cache')
            /\ behind' = IF cache' = shown \/ ListComing THEN behind ELSE behind \cup {"reverted"}
  /\ UNCHANGED <<server, socket, inRoom, inbox, fetch, since, losses, page, opened, loaded>>

ClickFails ==
  /\ click.at = "failed"
  /\ click' = NoClick
  /\ UNCHANGED <<server, socket, inRoom, inbox, fetch, since, losses, page, screen>>

\* The call is lost on its way, or its answer is: the buttons work again.
ClickLost ==
  /\ click.at \in {"sent", "done"}
  /\ losses < MaxLosses
  /\ losses' = losses + 1
  /\ click' = NoClick
  /\ UNCHANGED <<server, socket, inRoom, inbox, fetch, since, page, screen>>

-----------------------------------------------------------------------------

Init ==
  /\ GatewayInit
  /\ page \in Pages
  /\ opened = FALSE
  /\ loaded = FALSE
  /\ shown = <<>>
  /\ hero = 0
  /\ ticker = {}
  /\ cache = <<>>
  /\ behind = {}

\* A broadcast that goes out while the page is not in the shop's room.
Broadcasting ==
  /\ Publish
  /\ behind' = IF opened /\ socket # "up" THEN behind \cup {"lost"} ELSE behind
  /\ UNCHANGED <<page, opened, loaded, shown, hero, ticker, cache>>

Service ==
  \/ (Serve(Targets[page]) \/ Renumber \/ RejectEstimates \/ Claim \/ ClearKey) /\ UNCHANGED <<page, screen>>
  \/ Broadcasting

Query ==
  \/ OpenPage
  \/ QueryRuns /\ UNCHANGED <<page, screen>>
  \/ QueryAnswered
  \/ QueryFails
  \/ AskAgain

Connection == Connect \/ JoinEntry \/ Disconnect \/ Receive

Staff ==
  \/ CallNext
  \/ \E e \in Entries : StartServing(e) \/ SkipToken(e)
  \/ CompleteCurrent
  \/ ClickSucceeds
  \/ ClickFails
  \/ ClickLost

Next == Service \/ Query \/ Connection \/ Staff

Spec == Init /\ [][Next]_vars

-----------------------------------------------------------------------------
(* Properties.                                                             *)

\* Nothing is under way between the page and the server.
Resting ==
  /\ loaded
  /\ socket = "up"
  /\ inbox = <<>>
  /\ work.at = "idle" /\ fetch.at = "none" /\ click.at = "none"

\* When all is quiet every row on a screen is as the database has it, and the
\* screen has all the rows the last broadcast had, unless a broadcast was lost
\* with the connection, an answer over HTTP overtook one, or Apollo put back
\* its cached list (the page subscribes before or after it loads, and lists
\* arrive over three ways: queueUpdated$, valueChanges, the poll).  It need
\* not have the rows of the shop: recalculateQueue publishes the list of the
\* barber it numbered, and the pages take it for the whole queue.
RestingScreenIsCurrent ==
  Resting /\ announced /\ behind = {} =>
    /\ page # "tracker" => shown = Published \/ shown = ActiveQueue
    /\ page = "tracker" /\ Me \in DOMAIN Published => shown[Me] = Row(Me)

\* How far an entry has come.
Stage(s) == CASE s = "WAITING" -> 1 [] s = "CALLED" -> 2 [] s = "SERVING" -> 3 [] OTHER -> 4

\* The tracker never moves its customer back, whatever is lost and in whatever
\* order the query and the broadcasts come (applyEntryUpdate only animates
\* progress and overwrites the entry with what it is given): not from called to
\* waiting, nor in line (a row that was not numbered yet shows 0) unless the
\* rules of the queue let somebody overtake.
TrackerMovesForward ==
  [][page = "tracker" /\ loaded =>
       /\ Stage(shown'[Me].status) >= Stage(shown[Me].status)
       /\ ~Overtaken' /\ shown[Me].position # 0 => shown'[Me].position <= shown[Me].position]_vars

\* When a notification reaches the tracker, the number and the status it
\* tells are on the screen already (recalculateQueue: "Notifications always
\* fire AFTER the broadcast"), unless that broadcast was lost.
ToastsMatchScreen ==
  inbox # <<>> /\ Head(inbox).type = "NOTIFICATION" /\ "lost" \notin behind =>
    /\ shown[Me].position = Head(inbox).position
    /\ Head(inbox).about = "NOW_SERVING" => shown[Me].status = "CALLED"

\* Call next never calls a numbered customer before one who joined earlier, has
\* no lower priority, still waits, and asked for the same barber, or for a barber
\* where the one called asked for none, however old the table on the screen is
\* (callNext works on the rows shown, updateStatus on the rows of the database).
\* Numbers of two different barbers say nothing to each other.
CallsInTurn ==
  [][UpdateForPage /\ click.target = "CALLED" /\ click'.at = "served" /\ click.position # 0 =>
       \A d \in Entries : Precedes(d, click.entry) => status[d] # "WAITING"]_vars

\* The open page and the server keep going; the staff need not click and no
\* connection has to break.
FairSpec ==
  /\ Spec
  /\ WF_vars(Broadcasting)
  /\ WF_vars((Renumber \/ Claim \/ ClearKey) /\ UNCHANGED <<page, screen>>)
  /\ WF_vars(OpenPage)
  /\ WF_vars(QueryRuns /\ UNCHANGED <<page, screen>>)
  /\ WF_vars(QueryAnswered)
  /\ WF_vars(Connect)
  /\ WF_vars(JoinEntry)
  /\ WF_vars(Receive)

\* SYSTEM_FLOW.md on the end of a service: "They mark current customer as
\* served. / Queue status broadcasts to customers and display."
TrackerSeesServed ==
  page = "tracker" /\ opened /\ status[Me] = "SERVED" ~> shown # <<>> /\ shown[Me].status = "SERVED"

-----------------------------------------------------------------------------
(* Inductive invariants behind CallsInTurn and TrackerMovesForward.        *)

ScreensTypeOK ==
  /\ GatewayTypeOK
  /\ page \in Pages
  /\ opened \in BOOLEAN /\ loaded \in BOOLEAN
  /\ shown \in Lists /\ cache \in Lists
  /\ hero \in 0..LastEntry
  /\ page = "tracker" /\ fetch.at # "none" => Joined(Me)

\* A numbered customer who waits in the list comes after all who precede and
\* wait in truth, and the list has these as well.
InTurn(list, truth) ==
  \A e \in DOMAIN list :
    /\ truth[e] # "ABSENT"
    /\ list[e].status = "WAITING" /\ list[e].position # 0 =>
         \A d \in Entries : Precedes(d, e) /\ truth[d] = "WAITING" =>
           /\ d \in DOMAIN list /\ list[d].status = "WAITING"
           /\ list[d].position \in 1..(list[e].position - 1)

Begun(e) == status[e] \notin {"ABSENT", "WAITING"}

\* However old the lists are that reach the staff's table, and whatever they
\* make of it.
TableInTurn ==
  /\ \A i \in DOMAIN inbox :
       /\ inbox[i].type = "QUEUE_UPDATED" => InTurn(inbox[i].list, status)
       /\ inbox[i].type = "NOW_SERVING_CHANGED" => inbox[i].row.status = "SERVING" /\ Begun(inbox[i].entry)
  /\ page = "liveQueue" => InTurn(shown, status) /\ InTurn(cache, status)
                           /\ InTurn(fetch.list, status)

ClickInTurn ==
  /\ click.at # "none" => /\ page = "liveQueue"
                          /\ click.target \in {"CALLED", "SERVING", "SERVED", "NO_SHOW"}
  /\ click.at \in {"served", "done"} => Begun(click.entry)
  /\ click.at = "sent" /\ click.target = "CALLED" /\ click.position # 0 =>
       \A d \in Entries : Precedes(d, click.entry) => Begun(d)

TableInv == ScreensTypeOK /\ NumbersInOrder /\ TableInTurn /\ ClickInTurn

\* A row of an entry and a later one; exact when the numbers count too.
Follows(exact, old, new) ==
  /\ Stage(new.status) >= Stage(old.status)
  /\ exact /\ old.position # 0 => new.position \in 1..old.position

\* The message puts this row of Me on the tracker.
Tells(m, row) ==
  \/ m.type = "QUEUE_UPDATED" /\ Me \in DOMAIN m.list /\ row = m.list[Me]
  \/ m.type = "NOW_SERVING_CHANGED" /\ m.entry = Me /\ row = m.row

\* What is on its way to the tracker is later than what it shows, and in order.
RowsInOrder(exact) ==
  /\ loaded => Follows(exact, shown[Me], Row(Me))
  /\ fetch.at = "read" => Follows(exact, fetch.list[Me], Row(Me))
  /\ \A i \in DOMAIN inbox : \A new \in Rows : Tells(inbox[i], new) =>
       /\ Follows(exact, new, Row(Me))
       /\ Follows(exact, shown[Me], new)
       /\ \A j \in 1..(i - 1) : \A old \in Rows : Tells(inbox[j], old) => Follows(exact, old, new)

\* The tracker has one query and connects when that is answered.
TrackerInOrder ==
  page = "tracker" =>
    /\ click.at = "none"
    /\ opened => Joined(Me)
    /\ ~opened => fetch.at = "none" /\ ~loaded
    /\ ~loaded => socket = "none" /\ inbox = <<>>
    /\ loaded => fetch.at = "none" /\ Me \in DOMAIN shown
    /\ fetch.at = "read" => Me \in DOMAIN fetch.list
    /\ \A exact \in BOOLEAN : (exact => ~Overtaken) => RowsInOrder(exact)

TrackerInv == ScreensTypeOK /\ NumbersInOrder /\ TrackerInOrder

-----------------------------------------------------------------------------
(* Inductive invariant behind RestingScreenIsCurrent and ToastsMatchScreen. *)

\* The rows do not change between the broadcast and the end of the request.
ServiceInOrder ==
  /\ work.at \in {"recalculate", "publish"} => ~announced
  /\ work.at \in {"claim", "clear"} => announced
  /\ work.at # "idle" => work.entry \in Entries /\ status[work.entry] = work.target
  /\ work.at \in {"publish", "claim"} => work.moved \subseteq Line

\* The list that was read is the queue until a request writes a row; what the
\* tracker's query misses is broadcast before the tracker connects.
QueryInOrder ==
  /\ loaded \/ fetch.at # "none" \/ socket # "none" => opened
  /\ since # "broadcast" => fetch.at = "read"
  /\ since = "written" => ~announced
  /\ since = "read" => fetch.list = IF page = "tracker" THEN [e \in {Me} |-> Row(e)] ELSE ActiveQueue
  /\ page = "tracker" /\ fetch.at = "read" /\ since = "broadcast" => "lost" \in behind

\* No list comes between the messages i and k.
NoListBetween(i, k) == \A j \in DOMAIN inbox : i < j /\ j < k => inbox[j].type # "QUEUE_UPDATED"

\* The last list on its way is the one published last, and so is the call
\* that follows it.
LastListIsPublished ==
  /\ socket # "up" => inbox = <<>>
  /\ announced =>
       \A i \in DOMAIN inbox : NoListBetween(i, Len(inbox) + 1) =>
         /\ inbox[i].type = "QUEUE_UPDATED" => inbox[i].list = Published
         /\ inbox[i].type = "NOW_SERVING_CHANGED" => inbox[i].row = Row(inbox[i].entry)

\* With no list on its way, the screen has what was published last.  Of the
\* reasons for a stale ticket only the lost broadcast can outlast the query.
ScreenInOrder ==
  announced /\ loaded /\ ~ListComing =>
    /\ page # "tracker" /\ behind = {} => shown = Published \/ shown = ActiveQueue
    /\ page = "tracker" /\ "lost" \notin behind /\ Me \in DOMAIN Published => shown[Me] = Row(Me)

\* The row agrees with what the notification tells.
Agrees(row, note) ==
  /\ row.position = note.position
  /\ note.about = "NOW_SERVING" => row.status = "CALLED"

\* A notification agrees with the last list before it, and with the screen
\* when that list has been taken.
NoticeInOrder(i) ==
  /\ page = "tracker"
  /\ \A j \in 1..(i - 1) : NoListBetween(j, i) =>
       /\ inbox[j].type = "QUEUE_UPDATED" => Me \in DOMAIN inbox[j].list
       /\ \A row \in Rows : Tells(inbox[j], row) => Agrees(row, inbox[i])
  /\ NoListBetween(0, i) /\ "lost" \notin behind => Agrees(shown[Me], inbox[i])

NoticesInOrder ==
  /\ inRoom => page = "tracker" /\ socket = "up"
  /\ \A i \in DOMAIN inbox : inbox[i].type = "NOTIFICATION" => NoticeInOrder(i)

ScreenInv ==
  /\ TrackerInv
  /\ ServiceInOrder /\ QueryInOrder /\ LastListIsPublished /\ ScreenInOrder /\ NoticesInOrder
=============================================================================
