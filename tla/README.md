# TrimTime: a TLA+ model

TrimTime is the queue of a barber shop: customers join it from a phone, staff
call and serve them from a table, a display shows who is next. The modules here
describe the programs of this repository that make it work, TLC checks them on
small instances, and TLAPS proves the most important properties for instances
of any size. Paths below are relative to the repository; "the dashboard" is
`apps/admin-dashboard`, "the mobile application" `apps/customer-mobile`.

## 1. The system

| part | state it keeps | operations | module |
|---|---|---|---|
| queue engine (`libs/queue-engine`) | none | status machine, sort by priority and join time, numbering, wait estimate | `QueueEngine`, `PrioritySorter`, `EwtEngine` |
| queue service (`apps/api/.../queue.service.ts`) | rows of `queue_entries`, `notif:next:*` keys | `joinQueue`, `updateStatus`, `leaveQueue`, `recalculateQueue`, `getActiveQueue`, `getQueueStats` | `QueueService`; `OfficeDesk` for the figures |
| ticket counter (`queue.service.ts:70-78`, Redis) | one counter per shop and UTC date | INCR, EXPIRE | `TicketCounter` |
| accounts (`modules/auth`, `users`, `createShop`) | codes, attempts, locks and refresh tokens in Redis; users, roles, shops | request and verify a code, login, refresh, logout, deactivate, create a shop | `Accounts` |
| shop records (barbers, services, appointments, reports) | rows with foreign keys | upserts, deletes, bookings, daily counts | `ShopRecords` |
| demo seed (`prisma/seed.ts`) | the same rows | a script of statements | `DemoSeed` |
| gateway (`queue.gateway.ts`) | rooms `shop:*`, `entry:*` | connect, JOIN_ENTRY, QUEUE_UPDATED, NOW_SERVING_CHANGED, NOTIFICATION | `QueueGateway` |
| notifications (`modules/notifications`) | log rows (never read) | POSITION_UPDATE, NEXT_IN_LINE, NOW_SERVING | `QueueService`, `QueueGateway` |
| tracker, live queue, display | rows on the screen, Apollo cache | load, poll, apply lists and rows, call, serve, skip | `LiveScreens` |
| queue list, queue details, home page of the dashboard | Apollo's cached list, figures | load, actions on rows, refetch at a broadcast | `OfficeDesk` |
| socket service of the two applications | one socket, its shop and entry | connect, disconnect, joinEntry, leaveEntry, reconnect | `SharedSocket` |
| session of the dashboard | token, tenant, Apollo's `myShop` | login, logout, guards, save the profile | `StaffSession` |
| row dialogs of the dashboard | lists local to a page, a form, timers | open, edit, save, delete, toggle, photo | `RowDialogs` |
| visitor pages of the mobile application | forms, requests under way | scan, land, join, book | `VisitorApp` |
| containers, scripts, shared types, UI library | none that outlives a call | – | – |

How they interact. A GraphQL mutation runs a handler of the API. The handler
awaits PostgreSQL and Redis many times and, outside the transaction of
`createShop`, holds no lock; handlers of different requests interleave at every
await. `recalculateQueue` ends by emitting, inside one turn of the event loop, a
list for the gateway and events for the notifications; both end on sockets in
order. A row may name a barber: the
recalculation after it numbers that barber's rows, by priority and join time, and
broadcasts them to the whole shop's room; without a barber it does so with
all rows of the shop. A page has two ways to learn of the queue, its HTTP query and
its socket, and nothing orders the two. The GraphQL subscriptions the pages keep as a fallback never
deliver: the Apollo clients of all three applications have an HTTP link only
(`app.config.ts` of each). Inside an application the pages meet in singletons:
Apollo's cache, the socket service, the tenant. Pages come and go; their
timers, subscriptions and requests often outlive them.

What is hard, and what correctness means:

* **Overlapping requests** (check-then-write in `updateStatus`, snapshot-then-save
  in `recalculateQueue`, claim-then-clear of the NEXT_IN_LINE key, read-then-write
  of the attempts, look-then-insert of roles, shops, slugs and bookings): nobody is
  put back to wait, a row goes where no transition leads only if two requests met
  on it, no waiting customer is told twice that they are next, no
  row is left without a number unless its customer got an error, nobody is
  locked out before the limit of wrong codes, there are no more copies
  of a role or shop than calls overlapped.
* **Calls that fail half-way** (insert without recalculation, `Promise.all`
  that rejects while its other updates run on, a script that dies and is run
  again): the same, every inserted row gets on eventually, and a seed that ends
  is complete.
* **Numbers**: what one recalculation numbers has the positions 1..n in order, tickets of a date differ across
  midnight, expiry and failure, estimates are whole minutes or they are
  refused by the column.
* **Order of messages**: the list is out before the notifications that speak
  of it, and when a toast arrives the screen already agrees with it.
* **Screens that lag** (lost broadcasts, late answers, cached lists, one barber's
  list taken for the queue): the rows on a quiet screen are as the database has them, or
  there is a named reason; a tracker moves its customer's number back only where the
  rules let somebody overtake (a higher priority, a shop-wide numbering after a
  barber's); the table's Call next does not call anybody before somebody who joined earlier
  with no lower priority and is sure to be numbered ahead: who asked for the same barber,
  or for a barber while the one called asked for none.
* **What outlives its page** (late answers, timers, a shared socket, a cache
  from the user before): a page in front keeps its connection unless the sidebar
  connects to another shop, a dialog's save lands in its own row, only an owner
  renames a shop, though not always by a name the owner typed: a login that
  is answered late puts another token under a form that is already filled in.

The hazards with their lines are in `PROJECT.json`.

## 2. Modules

### The server

`QueueEngine` – the transition table, its sets, and the order of two entries.

`QueueService` – the queue service of one shop. One action is what a request does
between two awaits; `request[r].at` is the await it is at, the other fields of
`request[r]` are the handler's locals (`rawEntries` is `batch`, `notifCandidates`
is `moved`, `updatedEntries` is `list`). `JoinAdmit`/`JoinCreate` are `joinQueue`,
`LeaveRead`/`LeaveCheck` `leaveQueue`, `UpdateRead`/`WriteStatus` `updateStatus`,
`Snapshot` to `ClaimNextInLine` `recalculateQueue`, `ClearKey` the rest of
`updateStatus`. `RejectEstimates` is the Int column refusing fractional
estimates, `SavePosition` one of the updates of `Promise.all`, `FailSave` and
`LateSave` its rejection, `Fail` any other call that throws. History variables:
`nextSent`, `told`, `lapsed`, `orphans`, and `met` of a request, the rows that other
requests worked on while it ran. What is true only of a request that overlapped
nobody is stated for those with an empty `met`, whatever the others do.

`EntryLifecycle` – the abstract specification of one entry: what the queue promises
about it. `QueueService` implements it (`LifecyclePromise`, by
`INSTANCE EntryLifecycle WITH`) when callers of one entry do not overlap.

`TicketCounter` – INCR, EXPIRE and insert of many joins over several dates, and the
appointment a join may convert. `TicketOffice` is its abstract specification: a
join gets at most one ticket, keeps it, and nobody else gets it on the same day.
`TicketCounter` implements it (`TicketPromise`, by `INSTANCE TicketOffice WITH`).

`EwtEngine` – `calculateEwt` in fractions of a minute while a service runs.

`PrioritySorter` – the sort as an algorithm on lists, stable as
`Array.prototype.sort` is, with the appointment boost; `RanksOfTheService` ties
it to the rank by which `QueueService` numbers.

`Accounts` – `auth.service.ts`, `deactivate` and `createShop`, one action per
await. A code is right or wrong, a refresh token is the second it was signed in
and what it says of roles and shops: two tokens of one second are the same text,
as `jwt.sign` makes them. Keys run out (`KeysExpire`, `SessionLapses`). `story` fixes
which calls a behaviour is about.

`ShopRecords` – barbers, services, appointments, the guest behind a booking, the
daily report, and `joinQueue` as far as it looks at a barber. `day` is the server's day,
and a row that was served has the day of its `servedAt`: a report counts the served
since the midnight before it began. The foreign keys of
`schema.prisma` refuse or forget as they do there. `DemoSeed` extends it with
`main()` of the seed: the script is a sequence of records (`Script`), each upserting,
creating or wiping rows, and it dies where a statement is refused or at will.

### The applications

`QueueGateway` – the server as one page sees it. Each entry has a `Barber`, or
none, and a `Priority`; `scope` is the barber the request at hand recalculates for,
`Line` the rows it numbers by `Rank`, `Published` the list it sends to the shop's room,
which is that barber's only. `Overtaken` says when a later request may move `Me` back,
`Precedes` of which two customers the numbers always say who is first.
Requests come one at a time here
(their overlap is `QueueService`'s subject), so that a request is seven steps:
`Begin`, `Renumber` or `RejectEstimates`, `Publish`, `Claim`, `ClearKey`, with
the messages each of them puts into `inbox`, the page's end of the socket.

`LiveScreens` – extends `QueueGateway` with the page: its query (`OpenPage`,
`QueryRuns`, `QueryAnswered`, `QueryFails`, `AskAgain`), its socket (`Connect`,
`JoinEntry`, `Disconnect`, `Receive`), the staff's buttons and Apollo's cache
(`ClickSucceeds`). Which of the three pages is open is chosen in `Init`. The
history variable `behind` names the reasons why a screen may be out of date:
`lost` (a list was broadcast while the page had no connection, or was on its way
when it broke), `overtaken` (an answer older than the last list arrived after it),
`reverted` (the cached list came back after a mutation), `unanswered` (the query
failed). Showing the latest list or a current answer clears it. A list of one barber is
no cause: the property says which rows a screen may rest on.

`OfficeDesk` – the pages that do not listen row by row. `line` is the database,
`listed` Apollo's cached `activeQueue`, which every answer to a mutation patches,
`clicks` the mutations under way with the row each was offered on, `kpis` the
figures. Here too `behind` names the causes: `others` (another device moved a row
since the list was read), `overtaken` (of a query and a mutation, the later answer was
the older), `unsaid` (a recalculation failed, so nobody was told), `shared` (a
request for the figures joined one that was under way), `uncounted` (that query
failed), `unheard` (a broadcast was lost with the socket, and connecting again asks
for nothing), `midnight` (`past` are the rows served before it). The queue list's
Call next takes the least position it shows, which says little where two barbers' rows hold
the same numbers: `FirstInLine` lets it be any row that waits.

`SharedSocket` – the singleton `QueueSocketService` and everybody who calls it: in
the mobile application a stack of trackers, in the dashboard the sidebar with the
home page and the live queue. `svc` is the service's fields and the client's buffer and rooms,
`caller` whose code called it last, and whether that page had been left by then. Users
sign in one after the other, each with the shop of the token and the shop owned; `known` is
what the dashboard has of them (the token's shop, the tenant, the cached `myShop`,
the shop of the page in front), `seen` the shops of all who signed in.

`StaffSession` – one tab of the dashboard: token, tenant, the cached `myShop`, the
pages that wait for it, saves under way. A name of a shop is known by where it
comes from, the shop itself or the user who typed it. A login that is answered late
and leads to the page in front keeps that page (`LoginStays`), as the router does; what
was in its form is then `Mixed`.

`RowDialogs` – barbers, services, staff and bookings of the dashboard: a timer of
half a second saves whatever the form and `editingId` say when it fires.

`VisitorApp` – scanner, landing page, join form, booking wizard, the inputs the API
accepts, and answers that arrive after their page was left.

### Instances and proofs

`MCQueueService`, `MCLiveScreens`, `MCDemoSeed`, `MCStaffSession` give constants,
symmetry and views.
`MCRedisKeys` (tickets, accounts), `MCEngine` (estimate, sorter, office pages) and
`MCClientApps` (dialogs, session, visitor, sockets) each put together parts that
share no state: a variable chosen in `Init` says which of them a behaviour moves,
so a run has the sum of their states and not the product. The theorems are in
`QueueServiceProofs`, `RedisKeysProofs` (`TicketCounter`, `Accounts`), `EngineProofs`
(`EwtEngine`, `PrioritySorter`), `ShopProofs` (`ShopRecords`, `DemoSeed`),
`OfficeDeskProofs`, `LiveScreensProofs`, `DashboardProofs` (`StaffSession`, `RowDialogs`,
`SharedSocket`) and `ClientAppsProofs` (`VisitorApp`, and `MCClientApps` as a whole).

## 3. Runs

| run | what it asks | bounds |
|---|---|---|
| `queue_serial` | types; positions 1..n in order; list before notifications | 3 entries, one barber and the shop's queue, 2 priorities, all statuses, one request |
| `queue_concurrent` | four properties of overlapping requests | 2 entries, 2 requests, 2 priorities, keys lapse |
| `queue_live` | implements `EntryLifecycle`; joiners are numbered, under fairness | 2 entries, 2 requests, one failure, one caller per entry |
| `redis_keys` | tickets differ, implement `TicketOffice`, only failures lose an EXPIRE; attempts, locks, sessions, roles, shops and slugs under overlapping calls | 3 joins, 4 dates, one appointment, one failure; one user, 2 calls, 3 attempts, 2 seconds, 3 stories |
| `engine` | estimates refused only mid-service; lists sorted, numbered, ranked; the office pages settle, their figures too, and are refused for cause | averages to 25 min, 5 positions, quarter minutes; lists of 3 rows; 2 rows, 2 clicks, 2 moves of other devices, midnights |
| `live_screens` | four properties of the screens | 2 customers of equal priority, the first of a barber, the second of none, 3 pages, one loss, 5 messages under way |
| `shop_records` | a seed that ends is complete and stops only before its wipe; bookings where offered; reports of the while | the 4 barbers, 4 services and all people of the script, 2 runs of it, 2 calls, one guest, one entry, one booking, 2 days |
| `client_apps` | nine properties of dialogs, session, visitor pages and sockets | one row and one new one, 2 texts, a photo; 2 shops, 2 requests; 3 trackers in 2 shops, 5 users of 2 shops; in the session 4 users, 2 shops, 2 logins or saves under way |
| `queue_unnumbered`, `tracker_served`, `visitor_joins`, `staff_shop` | violated: see section 5 | 1 or 2 entries; the last two those of `client_apps` |

Why these bounds. Two requests suffice for every check-then-act pair of the
services, since each handler interferes with another only through the rows, the
key and the list it read earlier; the proofs remove the bound where it matters
most. Two entries make a head and a follower, three a middle one; a ticket
race needs two joins on one date and one before or after midnight, and a key
lives two dates, so four dates see it run out and its successor begin. One
failure per run lets every call fail once, at every point. Three attempts keep
the shape of the five of `auth.service.ts`: a first, a middle, a last. Two seconds
tell tokens of one second from tokens of two, and what matters between calls is
only whether two tokens are the same text.

On a screen the interesting cases are made of one customer ahead and one behind,
one older list and one newer one, one broken connection; `MaxInbox = 5` means a request's
messages reach the page before the next broadcast, so that answers over HTTP
overtake lists but lists do not pile up. In `live_screens` other devices call,
serve and finish while a tracker or display is open; beside the staff's own
table only customers act, by leaving, so as to keep the instance small: a second
device that moves the same rows is in the office pages of `engine`, with two
clicks under way, and in the runs of the queue service. A customer of a barber and a
later one of none are the least with which two rows hold the first position, a list shows
part of the queue, and `CallsInTurn` speaks of numbers written at different times. The tracker there
follows the second customer, whom nobody overtakes, so that its number must never rise;
any other choice, and priorities that differ, are left to the theorems.

The seed's data are the script's own, so nothing there is cut; a second run meets
what any death of the first left. Two days let a midnight fall before, in and after
a report. Four users of one tab are an owner, another
owner, an employee and somebody without a role for the dashboard. Three trackers
in two shops make two of one shop, which share a socket, and one that takes it
away. The users of the office's socket are the two owners whose token and shop agree, one
with a token from before the shop was made, one whose token names the other
shop, and an employee who owns none. `demo` is a shop with the ids of the seed, `salon` one with UUIDs.

Symmetry is over entries, requests, calls, joins or ids where no property names
one; the views leave out lists and counters no property of the run reads. The view of
`client_apps` leaves out which shop a page of the session shows, and the names in Apollo's
cache that it does not answer; of these only their types are lost, and the types are
proved (`AppsTyped`). `staff_shop`, which is about what is shown, has no view. That of
`shop_records` keeps, of the rows that came by while a report ran, what they count for.

Deadlock is not checked. In the runs of the queue service, of the keys, of the
records and of the screens everything may have come, been answered and gone, and
the system really rests; in `engine` and `client_apps` a page whose query failed
stands still, since nothing on it loads again.

Fairness. `QueueService!FairSpec`: weak fairness of `Progress(r)`, the steps of a
request that was started – PostgreSQL, Redis and the event loop answer; nobody is
obliged to join or call. `LiveScreens!FairSpec`: weak fairness of the server's
started work, the page's loading and its socket, none of the staff, of losses or
of refused estimates. The other runs ask for safety only.

Every property of a passing run has a mutant in `PROJECT.json`: a plausible slip
in one definition that TLC then finds.

## 4. Proofs

Eight modules hold the theorems; `PROJECT.json` lists them with the properties they
state. Every theorem is of a specification as the runs check it, for all values of
its constants within the named assumption of its module. These assumptions say that
sets named together do not meet (`NoToken \notin Tokens`), that bounds are
numbers, that the calls which may overlap are finitely many, that a branch list of
`BranchesOf` is a list, and that the people, barbers and services of the seed's script are
among those there may be; TLC evaluates them in every run. Each invariant below was
checked by TLC on the run of its component before it was proved.

### The server

`QueueServiceProofs`, for any finite set of entries and any number of requests,
barbers, priorities, failures and lapsing keys (`QueueAssumption`): `TypeCorrect`,
`NextInLineOnce`, `NoRowLeftUnnumbered`, `NobodyWaitsAgain`, and
`OverwrittenOnlyWhenMet`: a row goes where no transition leads, over a terminal
status for one, only by a request that met another on that row. They rest on one inductive invariant, `IInv`:

* `TypeOK`;
* `RequestsConsistent`: what a request knows of its row. An insert still to come
  is the only request on its row; past the write, the row is no longer waiting;
* `KeyGuardsNotice`: until an entry is called, a notice implies its key, which is
  why two snapshots that both saw position 1 send one notice. The property alone
  is not inductive: without the key a second claim could not be excluded;
* `UnnumberedIsCarried`: an unnumbered row is in the batch of its own joinQueue.
  The batch matters: a snapshot that missed the row would never number it;
* `MeetingsKept`: of two requests that run, each has met the other, and the transition
  that was checked is still valid at the write unless somebody was met on the row.

`OnlyForward`, `CarrierKeeps` and `OnlyInsertUnnumbers` are the facts about steps that
several lemmas use. `NumberedInTurn` and `ToldWhatIsShown` are about a request that ran
beside no other, among any number that overlap as they like. They rest on `AloneInv`: a
request whose `met` is empty knows the queue (`KnowsTheQueue`), that is, the batch it
numbers is the queue, the rows it has saved have their rank, the list it reads for
the broadcast, in a query of its own, is the queue, and stays so until the last
notification; it cannot meet the updates that a failed request has left behind, for
these count as met, too (`MetKept`). That ranks are `1..n` in the order of the sorter needs
`JoinTimesDiffer` and a bijection between a finite ordered set and its ranks.

`RedisKeysProofs`. Tickets, for any number of joins, dates and failures:
`TicketsUnique` is strengthened by `TicketsBelowCounter` (numbers on a date on which
somebody may still count are at or below its counter, and a key lives until two
dates later, when nobody counts on its date any more; a join is taken to be answered
before the second midnight after its start). The refinement `TicketsAsPromised`
says more than uniqueness, that a ticket is never changed; `StepGives` shows that a
step gives at most one new ticket, of a number nobody has on that day.
`ExpiryLostByFailure` follows from the invariant that the first join of a date is
at its EXPIRE, past it, or failed.
Accounts, for any users, names, roles, limits and any finite number of calls that
overlap: `AccountsTyped` by `CallsLegal` (each call is at a step of its operation
and has what that needs); `LogoutIsFinal` by `SignedOutQuiet`, no call of a
signed-out user can still sign a token; `LocksHaveCause` by
`AttemptsAnswered`, since a count may be written late but never above the wrong
answers given; `SlugsNumbered` by `SmallerSlugsTaken`; and `CopiesBounded` by
`EachShopHadItsCall` and `EachRowHadItsCall`, which count rows together with the calls
that saw none and will still write one.

`EngineProofs`. `RefusedMidService` for any average, position and division of the minute.
`PositionsAreAnOrder` and `PositionsOfTheService` for lists of any length, with `SorterInv`
(an entry has one row): the sort is defined by where each row stands and not
by stepping, so counting the rows before each of two rows decides. The second ties
the algorithm to `Rank`, by which `QueueService` numbers.

`ShopProofs`, for any barbers, services, guests, script and deaths of the seed, and
any calls: `PlacesAreOffered` and `StatsOfTheWhile`, by `ShopInv`. `StillOffered` says
that what a call has looked up holds until it writes, unless the call was told of
the withdrawal; `Between` that a report knows two sets of entries between which
the table has stayed since it began, counted from the same midnight. A second conjunct, `~uuids`, covers the
seed's shop, where the inputs refuse every call.
`SeedsStopBeforeTheWipe` and `FinishedSeedsAreComplete` are about the script as it is
written, for any number of runs, deaths, strangers and deletions of the desk. What they
need of its 113 statements is stated as lemmas, each proved from where the parts stand in it
(`ScriptParts`, `ScriptPlaces`): persons come before the first wipe (`UsersFirst`), a table
is wiped before it is filled and not after (`WipedBefore`, `WipedFirst`), whom a
statement names has been upserted (`NamedAfterwards`), who is linked is not put on
offer once more (`LinkedLast`) and has an appointment (`LinksAreBooked`), and rows of one
table and key are all upserted or all created (`OneWayOfWriting`). `ScriptInv` then says
that every statement carried out in this run has left its row, or emptied its table of
what earlier runs had created. One row is weaker: a link of a barber to a service may
be gone if one of the two is (`Left`), since the desk deletes them with it. At the end none
is: the appointments name them all, and the database lets nobody go that an
appointment names.

### The applications

`OfficeDeskProofs`, for any number of rows, clicks and moves of other devices.
`Settles` and `RefusedForCause` by `DeskInv`: a click on the list is the only one, and
its row is where it sent it unless somebody else moved it (`OneClick`); a list on its
way is right unless a cause was noted (`ReadAgrees`); what is shown differs from the
database only in rows whose answer is still to come (`ShownAgrees`); and a click was
offered on a row whose transition is valid, or by one of the two buttons that never
work (`SentAsOffered`). `FiguresSettled` by `FiguresFollow`: while no move waits to be told
of, no query failed and no midnight passed since the last request for the figures, all
that was counted is right, and from the date of today.

`LiveScreensProofs`, for a queue of any length, any number of messages under way and
of broken connections.

* `CalledFromTheTable`: Call next passes over nobody who `Precedes`: who joined earlier with
  no lower priority, and asked for the same barber; or for a barber while the one called
  asked for none, if nobody later has a higher priority (such a one could move
  the first back in the numbering of the barber, and leave the second where it is). The table may come from an
  answer, a list, the patch of one row or Apollo's cache, and be of any age, so
  `TableInv` says of all of these, and of the lists and rows on their way, the same:
  `InTurn`, a numbered customer who waits in the list comes after all who wait *in
  truth* and precede. That it lasts (`InTurnLater`) is because rows never go
  back to waiting; that it holds of what is read, because of `NumbersInOrder`.
* `TicketMovesOn`: the tracker never goes back in status, nor in its number until
  somebody may overtake (`Overtaken`, which lasts once it holds). `TrackerInv` puts the
  row on the screen, those the messages in the inbox tell, in their order, and the row
  in the database into one chain of `Follows`; the query comes before the connection,
  so no answer can overtake a message.
* `QuietScreensAreCurrent` and `ToastsTellTheScreen`, by `ScreenInv`. With no cause
  noted in `behind`, what the server published last, one barber's list or the shop's, is on its way to the page or on the screen
  (`LastListIsPublished`, `ScreenInOrder`); a query's answer is the queue until a
  request writes a row, and what the tracker's query misses is broadcast before it
  connects (`QueryInOrder`). A notification on its way agrees with the last list before
  it, or with the screen once that list has been taken (`NoticesInOrder`). Both hold
  because no row changes between the broadcast and the end of the request
  (`ServiceInOrder`).
* `NumbersInOrder` is under the first two: who precedes has the smaller number, and
  unless a later customer of higher priority has joined (`Passed`) the rank among the
  customers of one's barber is at most one's number: a barber's numbering makes
  numbers smaller only, and so it keeps them below those of the shop's. It needs
  the cardinality lemmas `RankGrows` and `RankShrinks`.

`DashboardProofs`. `OnlyOwnersRename` for any users and shops with one owner each: the
name of a shop is safe because of what a form can hold. `StaffInv` says that a
form over one's own shop holds its name or what was typed in it, that a save
sent by an owner carries such a name, or a `Mixed` one, and that whoever waits for an answer is the
page in front – a form of another's shop may exist, and the API refuses it. `StaffTyped` is from
the same invariant.
`DialogsAddOnce` and `SavesLand` by `DialogInv`: one timer is under way, a row to be added
has a dialog of its own, and the timer finds what Save was pressed for unless
somebody changed it. `FrontPageConnected`, `OrphansExplained` and `LastCallerHeard` for
any entries and shops, and any length of the stack of trackers: `SocketInv` carries
which pages can be open, that what an office page asked or connected goes when it goes,
that nobody follows a shop which no user of the tab has (`ShopsMet`), that the page in
front has its shop's socket unless the sidebar called last (`PageConnected`), and that
once the last tracker has closed a socket can only be a late caller's;
`CallerAwaited` that the last caller's socket is of its shop and its room is
joined, asked for, or kept to be asked for when the connection is up.

`ClientAppsProofs` is about the four parts as `MCClientApps` composes them: `AppsTyped`;
`OneRowAnAnswer`, by `OneWaits` and `MadeAreAnswered` (a row beyond the answers has its answer
on the way); `WizardAsksForAll`, by `StepsComplete` and `BookingsComplete`: what was
checked at a step of the wizard still holds when the last one sends it.

### What the proofs changed, and what they do not reach

Where the arms of a CASE overlap, TLA+ leaves open which one is taken, and TLC takes
the first. Three definitions relied on that and have exclusive arms now (`FindUser` of
`Accounts`; `behind` and `shown` in `LiveScreens`). `VisitorApp!Without` joins
two pieces of the list, since the community modules define `SelectSeq` by recursion.
The least of a set of numbers exists by `WFMin` of the module `WellFoundedInduction`,
which takes a set and not an operator (`LeastNumber`).

Model-checked only: liveness (`JoinersAreNumbered`), since its fairness is about ENABLED,
and the refinement of `EntryLifecycle` (`LifecyclePromise`), which needs callers that do
not overlap on one entry; nothing in the code keeps them apart, and what holds of
any callers is `OverwrittenOnlyWhenMet`. Every other property of a passing run is a theorem.

## 5. Where the code departs from what is written

Shown by a run:

* `queue_unnumbered` – while somebody is served, estimates are fractions, the
  column refuses them, and a new row keeps position 0 (`queue.service.ts:94`).
* `tracker_served` – the tracker never learns that its customer was served
  (`docs/SYSTEM_FLOW.md:14-15`): lists hold active entries only, so the step to the
  done page (`live-tracker.page.ts:139`) is never taken.
* `visitor_joins` – the join form always sends `notes`, which `JoinQueueInput` does
  not have: the API refuses every join (`docs/SYSTEM_ARCHITECTURE.md:1273`).
* `staff_shop` – the next user of a tab is shown the shop of the one before
  (`core/services/shop.service.ts:57` of the dashboard).

Met while modelling, without a run of their own.

Of the server:

* a terminal status is overwritten by an overlapping update
  (`docs/SYSTEM_ARCHITECTURE.md:380-381`);
* NEXT_IN_LINE goes out twice for one entry, when its key is cleared by the call
  and then claimed by an older recalculation (`notification.service.ts:61`);
  nobody who still waits hears it twice, that is proved;
* the broadcast is empty although somebody is being served (`queue.gateway.ts:158`);
* the list of one barber goes to the whole shop's room (`queue.service.ts:345-346`), where
  the live queue and the display show it as the queue until the next list;
* overlapping recalculations may leave wrong numbers until the next request;
  positions are per barber where `docs/SYSTEM_ARCHITECTURE.md:1296` speaks of one
  shop queue; a call whose recalculation is refused never sends QUEUE_CALLED;
* a join across UTC midnight carries a number of the day before; an EXPIRE that
  fails is never repeated;
* `recalculateQueue` gives the sorter no appointment time, so the boost of
  `priority.sorter.ts:18` never applies; a row at position 0 is the next to be called;
* the seed's ids are not UUIDs, so the `@IsUUID` of the inputs refuses joins and
  bookings in the demo shop.

Of the applications:

* after a reconnect no page fetches the queue anew, so a position stays stale
  beyond the reconnect of `docs/SYSTEM_ARCHITECTURE.md:1298`; the `reconnect_*` events
  the services listen for are the manager's and never reach the socket;
* the dashboard's sidebar shares the socket that the home page and the live queue disconnect
  when they go, so its badge stops; on logout it closes nothing;
* a late answer connects a tracker that was left, or joins another's entry;
* Skip on a waiting row of the queue list and the details' own skip send NO_SHOW,
  and the details' cancel of a called row sends LEFT: always refused;
* the figures of the home page stay after a query that failed, a broadcast lost with
  the socket, and midnight, until the next broadcast;
* the sidebar connects to the tenant's shop, which a cached `myShop` of the user before
  may have set, and so closes the socket of the page beside it
  (`sidebar.component.ts:56`);
* a login that is answered late, for the page already in front, keeps that page's form
  (`login.page.ts:183`): one owner's save may carry another user's words;
* the details keep neither a second press nor an error from being missed;
* a request for the figures that equals one under way shares its older answer.

## 6. Not modelled, and what is left

Not modelled, because it keeps no state anybody reads again or is layout: sounds,
animations, charts, the clock of the display; the SMS and push channels and the
rows of the notification log; `updateProfile`, branches and hours, which are single
updates of one row; the second `calculateEwt` in `shared-utils`, which nobody
calls; `nextTicketNumber` of the generator; the refresh of an access token, which
nothing in the dashboard calls; pages over demo data; containers and scripts.
JOIN_SHOP and LEAVE_SHOP of the gateway are emitted by no page; `maxQueueSize` of a
barber is stored, and compared with no queue.

What is left, in this order:

1. Two barbers on the display: the hero from NOW_SERVING_CHANGED beside a ticker
   sorted by position needs a third customer.
2. `NotificationDispatch`: channels that fail alone, and the stack of toasts.
