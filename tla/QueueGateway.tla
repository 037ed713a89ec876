---------------------------- MODULE QueueGateway ----------------------------
(***************************************************************************)
(* The server as one open page sees it: the rows of a shop, the requests   *)
(* that change them, one after the other (QueueService.tla has them        *)
(* overlap), what queue.gateway.ts sends on the page's socket, and the     *)
(* page's own calls over HTTP.  A customer asks for one barber or for none *)
(* and has a priority.  A request numbers and broadcasts the rows of the   *)
(* barber whose customer it is about, and the whole shop's if there is     *)
(* none.  A list of rows is a function on entries, which are numbered in   *)
(* the order they join; getActiveQueue returns a list by Ahead.            *)
(***************************************************************************)
EXTENDS QueueEngine, Sequences, FiniteSetsExt

CONSTANTS
  LastEntry,    \* bound: the entries that may join
  Barber,       \* the barber each entry asks for
  NoBarber,     \* barberId is null
  Priority,     \* of each entry
  Me,           \* the entry whose customer may have the tracker open
  MaxLosses,    \* bound: connections lost and calls of the page that fail
  MaxInbox      \* bound: messages on their way to the page

Entries == 1..LastEntry

ASSUME GatewayAssumption ==
  /\ LastEntry \in Nat \ {0}
  /\ DOMAIN Barber = Entries
  /\ Priority \in [Entries -> 1..10]   \* JoinQueueInput: Min(1), Max(10)
  /\ Me \in Entries
  /\ MaxLosses \in Nat
  /\ MaxInbox \in Nat

VARIABLES
  status,     \* status column, "ABSENT" before the insert
  position,   \* position column
  work,       \* the request the service is at
  scope,      \* the barberId recalculateQueue was called with last
  notified,   \* entries whose notif:next key is set
  announced,  \* the last change of a status was broadcast
  socket,     \* the page's socket: not asked for, being (re)connected, up
  inRoom,     \* the socket is in the room of entry Me
  inbox,      \* messages on their way to the page, in order
  fetch,      \* the page's query: activeQueue or queueEntry
  since,      \* what became of the rows since that query read them
  click,      \* the page's mutation: updateQueueStatus
  losses      \* connections lost and calls failed so far

server  == <<status, position, work, scope, notified, announced>>
network == <<socket, inRoom, inbox, fetch, since, click, losses>>

-----------------------------------------------------------------------------
(* Rows and lists.                                                         *)

Row(e) == [status |-> status[e], position |-> position[e]]

With(s) == {e \in Entries : status[e] \in s}

Queued == With({"WAITING", "CALLED"})

\* The rows of a barber; a barberId that is not given selects every row.
RowsOf(b) == {e \in Entries : b \in {NoBarber, Barber[e]}}

\* The rows recalculateQueue numbers.
Line == Queued \cap RowsOf(scope)

\* getActiveQueue for the whole shop, as the pages ask for it
ActiveQueue == [e \in With(ActiveStatuses) |-> Row(e)]

\* What recalculateQueue publishes: getActiveQueue for the same barber, or an
\* empty list when there is nothing to number.
Published == IF Line = {} THEN <<>> ELSE [e \in With(ActiveStatuses) \cap RowsOf(scope) |-> Row(e)]

\* sortQueueEntries and getActiveQueue: by priority, then by joinedAt.
Ahead(d, e) == GoesBefore(Priority[d], d, Priority[e], e)

Rank(e) == Cardinality({d \in Line : d = e \/ Ahead(d, e)})

Serving(list) == {e \in DOMAIN list : list[e].status = "SERVING"}

\* The first of some rows, in the order of the list.
Foremost(S) == CHOOSE e \in S : \A d \in S \ {e} : Ahead(e, d)

-----------------------------------------------------------------------------
(* Messages.                                                               *)

QueueUpdated(list) == [type |-> "QUEUE_UPDATED", list |-> list]

NowServingChanged(e, row) == [type |-> "NOW_SERVING_CHANGED", entry |-> e, row |-> row]

\* A notification to Me, with the position it tells.
Notification(about) == [type |-> "NOTIFICATION", about |-> about, position |-> position[Me]]

\* handleQueueUpdated: the list, then the first entry of it that is SERVING.
Broadcast(list) ==
  <<QueueUpdated(list)>> \o
  IF Serving(list) = {} THEN <<>>
  ELSE <<NowServingChanged(Foremost(Serving(list)), list[Foremost(Serving(list))])>>

\* The customers are told before the list is broadcast.
NoticesFirst(toShop, toMe) == toMe \o toShop

\* Messages for the shop's room, then messages for the room of Me.
Delivery(toShop, toMe) == toShop \o toMe

Deliver(toShop, toMe) ==
  inbox' = inbox \o IF socket # "up" THEN <<>>
                    ELSE Delivery(toShop, IF inRoom THEN toMe ELSE <<>>)

NoMessage == <<>>

-----------------------------------------------------------------------------
(* The queue service, one request at a time.                               *)

Idle == [at |-> "idle", entry |-> 0, target |-> "WAITING", moved |-> {}]

\* The rows are written after the page's query read them.
Touched == since' = IF since = "read" THEN "written" ELSE since

Begin(e, s) ==
  /\ status' = [status EXCEPT ![e] = s]
  /\ announced' = FALSE
  /\ Touched
  /\ work' = [Idle EXCEPT !.at = "recalculate", !.entry = e, !.target = s]
  /\ scope' = Barber[e]

\* The request is answered; if it was the page's, so is its mutation.
Answer(next) ==
  /\ work' = IF next = "idle" THEN Idle ELSE [work EXCEPT !.at = next, !.moved = {}]
  /\ click' = IF next = "idle" /\ click.at = "served" THEN [click EXCEPT !.at = "done"] ELSE click

\* joinQueue inserts the next entry.
Join(e) ==
  /\ work.at = "idle"
  /\ status[e] = "ABSENT"
  /\ \A d \in 1..(e - 1) : status[d] # "ABSENT"
  /\ Begin(e, "WAITING")
  /\ UNCHANGED <<position, notified, socket, inRoom, inbox, fetch, click, losses>>

\* updateStatus for another device.
Update(e, s) ==
  /\ work.at = "idle"
  /\ status[e] # "ABSENT"
  /\ IsValidTransition(status[e], s)
  /\ Begin(e, s)
  /\ UNCHANGED <<position, notified, socket, inRoom, inbox, fetch, click, losses>>

\* updateStatus for the page; an invalid transition is answered with an error.
UpdateForPage ==
  /\ click.at = "sent"
  /\ work.at = "idle"
  /\ IF IsValidTransition(status[click.entry], click.target)
       THEN /\ Begin(click.entry, click.target)
            /\ click' = [click EXCEPT !.at = "served", !.position = position[click.entry]]
       ELSE /\ click' = [click EXCEPT !.at = "failed"]
            /\ UNCHANGED <<status, announced, since, work, scope>>
  /\ UNCHANGED <<position, notified, socket, inRoom, inbox, fetch, losses>>

\* recalculateQueue writes the new numbers.
Renumber ==
  /\ work.at = "recalculate"
  /\ position' = [e \in Entries |-> IF e \in Line THEN Rank(e) ELSE position[e]]
  /\ Touched
  /\ work' = [work EXCEPT !.at = "publish",
                          !.moved = {e \in Line : position[e] \notin {0, Rank(e)}}]
  /\ UNCHANGED <<status, scope, notified, announced, socket, inRoom, inbox, fetch, click, losses>>

\* The Int column refuses the estimates (QueueService.tla: RejectEstimates).
RejectEstimates ==
  /\ work.at = "recalculate"
  /\ Line # {} /\ With({"SERVING"}) \cap RowsOf(scope) # {}
  /\ work' = Idle
  /\ click' = IF click.at = "served" THEN [click EXCEPT !.at = "failed"] ELSE click
  /\ UNCHANGED <<status, position, scope, notified, announced, socket, inRoom, inbox, fetch, since, losses>>

\* The end of updateStatus goes to Redis for these statuses.
ClearsKey(s) == s \in {"CALLED", "SERVED", "LEFT", "NO_SHOW"}

AfterNotices == IF ClearsKey(work.target) THEN "clear" ELSE "idle"

Heads == {e \in work.moved : position[e] = 1}

\* publishUpdate and, in the same step, POSITION_CHANGED for the entries the
\* loop reaches before it waits for Redis: the head and some of the others.
Publish ==
  /\ work.at = "publish"
  /\ Len(inbox) + 5 <= MaxInbox
  /\ announced' = TRUE
  /\ since' = IF since = "written" THEN "broadcast" ELSE since
  /\ \E early \in IF Heads = {} THEN {work.moved}
                  ELSE {S \in SUBSET work.moved : Heads \subseteq S} :
       /\ Deliver(Broadcast(Published),
                  IF Me \in early THEN <<Notification("POSITION_UPDATE")>> ELSE NoMessage)
       /\ IF Heads = {}
            THEN Answer(AfterNotices)
            ELSE /\ work' = [work EXCEPT !.at = "claim", !.moved = Heads \cup (work.moved \ early)]
                 /\ UNCHANGED click
  /\ UNCHANGED <<status, position, scope, notified, socket, inRoom, fetch, losses>>

\* NEXT_IN_LINE for the head unless its key is set, then the rest of the loop.
Claim ==
  /\ work.at = "claim"
  /\ Deliver(NoMessage,
       CASE Me \in Heads \ notified     -> <<Notification("NEXT_IN_LINE")>>
         [] Me \in work.moved \ Heads   -> <<Notification("POSITION_UPDATE")>>
         [] OTHER                       -> NoMessage)
  /\ notified' = notified \cup Heads
  /\ Answer(AfterNotices)
  /\ UNCHANGED <<status, position, scope, announced, socket, inRoom, fetch, since, losses>>

\* clearNextInLineNotif, and QUEUE_CALLED (on the page: NOW_SERVING).
ClearKey ==
  /\ work.at = "clear"
  /\ notified' = notified \ {work.entry}
  /\ Deliver(NoMessage, IF work.target = "CALLED" /\ work.entry = Me
                          THEN <<Notification("NOW_SERVING")>> ELSE NoMessage)
  /\ Answer("idle")
  /\ UNCHANGED <<status, position, scope, announced, socket, inRoom, fetch, since, losses>>

NoFetch == [at |-> "none", list |-> <<>>]

\* A query of the page is carried out.
Read(list) ==
  /\ fetch.at = "asked"
  /\ fetch' = [at |-> "read", list |-> list]
  /\ since' = "read"
  /\ UNCHANGED <<server, socket, inRoom, inbox, click, losses>>

\* handleJoinEntry
JoinEntryRoom ==
  /\ socket = "up" /\ ~inRoom
  /\ inRoom' = TRUE
  /\ UNCHANGED <<server, socket, inbox, fetch, since, click, losses>>

\* The calls of joinQueue and updateStatus, the latter by other devices or
\* by the page.
Serve(targets) ==
  \/ \E e \in Entries : Join(e) \/ \E s \in targets : Update(e, s)
  \/ UpdateForPage

\* What is left of a request that was begun.
Work == Renumber \/ RejectEstimates \/ Publish \/ Claim \/ ClearKey

GatewayInit ==
  /\ status = [e \in Entries |-> "ABSENT"]
  /\ position = [e \in Entries |-> 0]
  /\ work = Idle
  /\ scope = NoBarber
  /\ notified = {}
  /\ announced = TRUE
  /\ socket = "none"
  /\ inRoom = FALSE
  /\ inbox = <<>>
  /\ fetch = NoFetch
  /\ since = "broadcast"
  /\ click = [at |-> "none", entry |-> 0, target |-> "WAITING", position |-> 0]
  /\ losses = 0

-----------------------------------------------------------------------------
(* Types, and what holds of the numbers at all times.                      *)

Rows == [status : Statuses, position : 0..LastEntry]

Lists == UNION {[S -> Rows] : S \in SUBSET Entries}

Messages ==
  [type : {"QUEUE_UPDATED"}, list : Lists]
    \cup [type : {"NOW_SERVING_CHANGED"}, entry : Entries, row : Rows]
    \cup [type : {"NOTIFICATION"}, about : {"POSITION_UPDATE", "NEXT_IN_LINE", "NOW_SERVING"},
          position : 0..LastEntry]

GatewayTypeOK ==
  /\ status \in [Entries -> Statuses \cup {"ABSENT"}]
  /\ position \in [Entries -> 0..LastEntry]
  /\ work \in [at : {"idle", "recalculate", "publish", "claim", "clear"}, entry : 0..LastEntry,
               target : Statuses, moved : SUBSET Entries]
  /\ notified \subseteq Entries
  /\ announced \in BOOLEAN
  /\ socket \in {"none", "connecting", "up"}
  /\ inRoom \in BOOLEAN
  /\ inbox \in Seq(Messages)
  /\ fetch \in [at : {"none", "asked", "read"}, list : Lists]
  /\ since \in {"read", "written", "broadcast"}
  /\ click \in [at : {"none", "sent", "served", "done", "failed"}, entry : 0..LastEntry,
                target : Statuses, position : 0..LastEntry]
  /\ click.at # "none" => click.entry \in Entries
  /\ work.at # "idle" => /\ work.entry \in Entries /\ status[work.entry] # "ABSENT"
                         /\ scope = Barber[work.entry]

Joined(e) == status[e] # "ABSENT"

\* A later customer of a higher priority has joined.
Passed(e) == \E d \in Entries : Joined(d) /\ d > e /\ Priority[d] > Priority[e]

\* No later customer has a higher priority.
Unpassed(e) == \A d \in Entries : d > e => Priority[d] <= Priority[e]

\* Whoever numbers e numbers d, ahead of e: both asked for one barber, or e for
\* none.  In the latter case d is numbered without e, too, but among fewer.
Precedes(d, e) ==
  /\ d < e /\ Priority[d] >= Priority[e]
  /\ Barber[d] = Barber[e] \/ (Barber[e] = NoBarber /\ Unpassed(d))

\* What can put Me further back: a later customer of a higher priority, or
\* requests that number Me among the customers of the whole shop where Me
\* was numbered among those of one barber.
Overtaken ==
  \/ Passed(Me)
  \/ Barber[Me] # NoBarber /\ \E d \in Entries : Joined(d) /\ Barber[d] = NoBarber

\* Who precedes has the smaller number, and a number is at least the place
\* among the customers of one's barber unless one was passed.
NumbersInOrder ==
  /\ \A e \in Entries : ~Joined(e) => position[e] = 0
  /\ \A d, e \in Entries : d < e /\ Joined(e) => Joined(d)
  /\ \A d, e \in Queued : Precedes(d, e) /\ position[e] # 0 => position[d] \in 1..(position[e] - 1)
  /\ \A e \in Queued : ~Passed(e) /\ position[e] # 0 =>
       Cardinality({d \in Queued \cap RowsOf(Barber[e]) : d = e \/ Ahead(d, e)}) <= position[e]
=============================================================================
