---------------------------- MODULE QueueService ----------------------------
(***************************************************************************)
(* apps/api/src/modules/queue/queue.service.ts for one shop: the rows of   *)
(* queue_entries, the NEXT_IN_LINE keys in Redis, the last QUEUE_UPDATED   *)
(* broadcast, and the requests that run joinQueue, updateStatus and        *)
(* leaveQueue.  The service takes no lock and opens no transaction, so one *)
(* action is what happens between two awaits of a request, and the actions *)
(* of different requests interleave.  A statement of PostgreSQL or Redis   *)
(* is atomic.                                                              *)
(***************************************************************************)
EXTENDS QueueEngine

CONSTANTS
  Entries,            \* the queue entries that may ever be created
  NoEntry,            \* the subject of an idle request
  Requests,           \* requests in progress at the same time
  Barbers,            \* barbers that accept queue entries
  NoBarber,           \* barberId is undefined: the scope is the whole shop
  Priorities,         \* priorities a join may ask for
  Targets,            \* statuses that callers of updateQueueStatus ask for
  OneCallerPerEntry,  \* callers never overlap on one entry
  MaxFailures,        \* bound: how many database or Redis calls may fail
  KeysMayLapse        \* the 600 s of a NEXT_IN_LINE key may run out

ASSUME QueueAssumption ==
  /\ IsFiniteSet(Entries)
  /\ NoEntry \notin Entries
  /\ NoBarber \notin Barbers
  /\ Priorities \subseteq Nat
  /\ Targets \subseteq Statuses
  /\ OneCallerPerEntry \in BOOLEAN
  /\ MaxFailures \in Nat
  /\ KeysMayLapse \in BOOLEAN

VARIABLES
  status,     \* status of each row, "ABSENT" before the insert
  position,   \* position column
  barber,     \* barberId column (NoBarber: null)
  priority,   \* priority column
  joinedAt,   \* joined_at column, stamped when the insert is sent
  clock,      \* joins stamped so far
  keys,       \* entries whose notif:next key is set in Redis
  view,       \* the last list broadcast to the shop
  request,    \* what each request is doing
  nextSent,   \* NEXT_IN_LINE events emitted for each entry
  told,       \* entries for which QUEUE_CALLED was emitted
  lapsed,     \* entries whose key ran out
  orphans,    \* rows whose joinQueue answered with an error
  failures    \* failed calls so far

rows   == <<status, position, barber, priority, joinedAt, clock>>
notifs == <<keys, nextSent, told, lapsed>>
vars   == <<rows, notifs, view, request, orphans, failures>>

-----------------------------------------------------------------------------
(* Requests.                                                               *)

Scopes == Barbers \cup {NoBarber}

\* The awaits a request can be at.
Steps == {"idle", "create", "leave", "write", "snapshot", "serving", "save",
          "active", "publish", "claim", "clear", "abandoned"}

\* A row of an activeEntries list: entry, status, position.
Listed == Entries \X Statuses \X Nat

Request ==
  [at      : Steps,
   subject : Entries \cup {NoEntry},
   target  : Statuses,            \* "WAITING" for a join
   scope   : Scopes,
   batch   : SUBSET Entries,      \* rawEntries of recalculateQueue
   moved   : SUBSET Entries,      \* notifCandidates
   todo    : SUBSET Entries,      \* updates of the batch still to come
   list    : SUBSET Listed,       \* updatedEntries
   met     : SUBSET Entries]      \* what ran beside it worked on (no code reads this)

Idle ==
  [at |-> "idle", subject |-> NoEntry, target |-> "WAITING", scope |-> NoBarber,
   batch |-> {}, moved |-> {}, todo |-> {}, list |-> {}, met |-> {}]

At(r, step) == request[r].at = step

Continue(r, step) == request' = [request EXCEPT ![r].at = step]

Finish(r) == request' = [request EXCEPT ![r] = Idle]

Runs(r) == ~At(r, "idle")

\* Request r begins as q; those that run meanwhile meet it.
Begin(r, q) ==
  request' = [p \in Requests |->
    IF p = r THEN [q EXCEPT !.met = {request[o].subject : o \in {o \in Requests \ {r} : Runs(o)}}]
    ELSE IF Runs(p) THEN [request[p] EXCEPT !.met = @ \cup {q.subject}]
    ELSE request[p]]

IsJoin(r) == request[r].target = "WAITING"

\* The staff application disables its buttons while an action is under way.
MayStartOn(e) ==
  OneCallerPerEntry => \A q \in Requests : request[q].subject # e

-----------------------------------------------------------------------------
(* Queries.                                                                *)

InScope(scope) == {e \in Entries : scope \in {NoBarber, barber[e]}}

\* The rows recalculateQueue numbers.
QueuedIn(scope) == {e \in InScope(scope) : status[e] \in {"WAITING", "CALLED"}}

\* The rows of getActiveQueue; their order follows from priority and joinedAt.
ActiveIn(scope) == {e \in InScope(scope) : status[e] \in ActiveStatuses}

ListOf(S) == {<<e, status[e], position[e]>> : e \in S}

Ahead(d, e) == GoesBefore(priority[d], joinedAt[d], priority[e], joinedAt[e])

\* index - 1 for index + 1.
SignSlip(S, e) == Cardinality({d \in S : Ahead(d, e)}) - 1

\* Positions counted from zero.
ZeroBasedRank(S, e) == Cardinality({d \in S : Ahead(d, e)})

\* sortQueueEntries and assignPositions: e's 1-based index in the sorted S.
Rank(S, e) == 1 + Cardinality({d \in S : Ahead(d, e)})

\* The candidates of a batch whose new position is 1.
Heads(r) == {e \in request[r].moved : Rank(request[r].batch, e) = 1}

-----------------------------------------------------------------------------
(* joinQueue                                                               *)

\* Validation, INCR and EXPIRE of the ticket counter (TicketCounter.tla);
\* then the insert is sent, with its joined_at already chosen.
JoinAdmit(r, e, b, p) ==
  /\ At(r, "idle")
  /\ status[e] = "ABSENT"
  /\ \A q \in Requests : request[q].subject # e
  /\ clock' = clock + 1
  /\ joinedAt' = [joinedAt EXCEPT ![e] = clock + 1]
  /\ barber' = [barber EXCEPT ![e] = b]
  /\ priority' = [priority EXCEPT ![e] = p]
  /\ Begin(r, [Idle EXCEPT !.at = "create", !.subject = e, !.scope = b])
  /\ UNCHANGED <<status, position, notifs, view, orphans, failures>>

\* The insert is applied.
JoinCreate(r) ==
  /\ At(r, "create")
  /\ status' = [status EXCEPT ![request[r].subject] = "WAITING"]
  /\ position' = [position EXCEPT ![request[r].subject] = 0]
  /\ Continue(r, "snapshot")
  /\ UNCHANGED <<barber, priority, joinedAt, clock, notifs, view, orphans, failures>>

-----------------------------------------------------------------------------
(* updateStatus and leaveQueue                                             *)

\* updateStatus without its check of the transition.
UpdateReadUnchecked(r, e, s) ==
  /\ At(r, "idle")
  /\ status[e] # "ABSENT"
  /\ MayStartOn(e)
  /\ Begin(r, [Idle EXCEPT !.at = "write", !.subject = e, !.target = s, !.scope = barber[e]])
  /\ UNCHANGED <<rows, notifs, view, orphans, failures>>

\* updateStatus reads the row and checks the transition against what it read.
UpdateRead(r, e, s) ==
  /\ At(r, "idle")
  /\ status[e] # "ABSENT"
  /\ MayStartOn(e)
  /\ IsValidTransition(status[e], s)
  /\ Begin(r, [Idle EXCEPT !.at = "write", !.subject = e, !.target = s, !.scope = barber[e]])
  /\ UNCHANGED <<rows, notifs, view, orphans, failures>>

\* leaveQueue reads the row once for itself ...
LeaveRead(r, e) ==
  /\ At(r, "idle")
  /\ status[e] \in Statuses \ TerminalStatuses
  /\ MayStartOn(e)
  /\ Begin(r, [Idle EXCEPT !.at = "leave", !.subject = e, !.target = "LEFT", !.scope = barber[e]])
  /\ UNCHANGED <<rows, notifs, view, orphans, failures>>

\* ... and a second time in the updateStatus it calls.
LeaveCheck(r) ==
  /\ At(r, "leave")
  /\ IF IsValidTransition(status[request[r].subject], "LEFT")
       THEN Continue(r, "write")
       ELSE Finish(r)
  /\ UNCHANGED <<rows, notifs, view, orphans, failures>>

\* The update is by id alone: whatever the row says by now is overwritten.
WriteStatus(r) ==
  /\ At(r, "write")
  /\ status' = [status EXCEPT ![request[r].subject] = request[r].target]
  /\ Continue(r, "snapshot")
  /\ UNCHANGED <<position, barber, priority, joinedAt, clock, notifs, view, orphans, failures>>

-----------------------------------------------------------------------------
(* recalculateQueue                                                        *)

\* updateStatus clears the key of an entry that was called or is done; its
\* own TERMINAL_STATUSES, unlike the engine's, leaves REMOVED out.
ClearsKey(s) == s \in {"CALLED", "SERVED", "LEFT", "NO_SHOW"}

\* What the caller of recalculateQueue does next: joinQueue answers.
AfterRecalculation(r) ==
  IF ClearsKey(request[r].target)
    THEN request' = [request EXCEPT ![r] = [@ EXCEPT !.at = "clear", !.list = {}]]
    ELSE Finish(r)

\* The queue is read; the new positions are known from here on, and so are
\* the entries that change places.
Snapshot(r) ==
  /\ At(r, "snapshot")
  /\ LET S == QueuedIn(request[r].scope) IN
     request' = [request EXCEPT ![r] =
       IF S = {}
         THEN [@ EXCEPT !.at = "publish"]
         ELSE [@ EXCEPT !.at = "serving", !.batch = S,
                        !.moved = {e \in S : position[e] \notin {0, Rank(S, e)}}]]
  /\ UNCHANGED <<rows, notifs, view, orphans, failures>>

BeingServedIn(scope) == {e \in InScope(scope) : status[e] = "SERVING"}

\* The entry being served is read and the estimates are computed.
EstimateWaits(r) ==
  /\ At(r, "serving")
  /\ request' = [request EXCEPT ![r] = [@ EXCEPT !.at = "save", !.todo = request[r].batch]]
  /\ UNCHANGED <<rows, notifs, view, orphans, failures>>

\* While a service has run for a fraction of its time, every estimate is a
\* fraction, and the Int column refuses it: recalculateQueue throws before
\* any row of the batch is written (EwtEngine.tla: WholeMinutes).
RejectEstimates(r) ==
  /\ At(r, "serving")
  /\ BeingServedIn(request[r].scope) # {}
  /\ Finish(r)
  /\ orphans' = IF IsJoin(r) THEN orphans \cup {request[r].subject} ELSE orphans
  /\ UNCHANGED <<rows, notifs, view, failures>>

\* One of the updates sent together by Promise.all.
SavePosition(r, e) ==
  /\ At(r, "save")
  /\ e \in request[r].todo
  /\ position' = [position EXCEPT ![e] = Rank(request[r].batch, e)]
  /\ request' = IF request[r].todo = {e}
                  THEN [request EXCEPT ![r] = [@ EXCEPT !.todo = {}, !.at = "active"]]
                  ELSE [request EXCEPT ![r].todo = @ \ {e}]
  /\ UNCHANGED <<status, barber, priority, joinedAt, clock, notifs, view, orphans, failures>>

\* The list to broadcast is read back.
ReadActive(r) ==
  /\ At(r, "active")
  /\ request' = [request EXCEPT ![r] =
       [@ EXCEPT !.at = "publish", !.list = ListOf(ActiveIn(request[r].scope))]]
  /\ UNCHANGED <<rows, notifs, view, orphans, failures>>

\* publishUpdate, then POSITION_CHANGED for the entries that moved, up to the
\* one that is now first, for which the request goes to Redis.
Publish(r) ==
  /\ At(r, "publish")
  /\ view' = [scope |-> request[r].scope, list |-> request[r].list]
  /\ IF Heads(r) # {}
       THEN Continue(r, "claim")
       ELSE AfterRecalculation(r)
  /\ UNCHANGED <<rows, notifs, orphans, failures>>

\* Two requests that read the key before either sets it.
AlwaysClaimable(e) == TRUE

\* SET notif:next:<e> NX succeeds.
Claimable(e) == e \notin keys

\* claimNextInLineNotif and, when it succeeds, NEXT_IN_LINE.
ClaimNextInLine(r) ==
  /\ At(r, "claim")
  /\ LET won == {e \in Heads(r) : Claimable(e)} IN
     /\ keys' = keys \cup won
     /\ nextSent' = [e \in Entries |-> IF e \in won THEN nextSent[e] + 1 ELSE nextSent[e]]
  /\ AfterRecalculation(r)
  /\ UNCHANGED <<rows, told, lapsed, view, orphans, failures>>

\* The end of updateStatus: clearNextInLineNotif and QUEUE_CALLED.
ClearKey(r) ==
  /\ At(r, "clear")
  /\ keys' = keys \ {request[r].subject}
  /\ told' = IF request[r].target = "CALLED" THEN told \cup {request[r].subject} ELSE told
  /\ Finish(r)
  /\ UNCHANGED <<rows, nextSent, lapsed, view, orphans, failures>>

-----------------------------------------------------------------------------
(* Time and failures.                                                      *)

KeyLapses(e) ==
  /\ KeysMayLapse
  /\ e \in keys
  /\ keys' = keys \ {e}
  /\ lapsed' = lapsed \cup {e}
  /\ UNCHANGED <<rows, nextSent, told, view, request, orphans, failures>>

\* A call of the request fails: the handler throws, and what is done stays done.
Fail(r) ==
  /\ request[r].at \notin {"idle", "save", "abandoned"}
  /\ failures < MaxFailures
  /\ failures' = failures + 1
  /\ Finish(r)
  /\ orphans' = IF IsJoin(r) /\ ~At(r, "create")
                  THEN orphans \cup {request[r].subject} ELSE orphans
  /\ UNCHANGED <<rows, notifs, view>>

\* One update of the batch fails: Promise.all rejects at once, the handler
\* throws, and the updates already sent run on.
FailSave(r, e) ==
  /\ At(r, "save")
  /\ e \in request[r].todo
  /\ failures < MaxFailures
  /\ failures' = failures + 1
  /\ request' = IF request[r].todo = {e}
                  THEN [request EXCEPT ![r] = Idle]
                  ELSE [request EXCEPT ![r] = [@ EXCEPT !.at = "abandoned", !.todo = request[r].todo \ {e}]]
  /\ orphans' = IF IsJoin(r) THEN orphans \cup {request[r].subject} ELSE orphans
  /\ UNCHANGED <<rows, notifs, view>>

LateSave(r, e) ==
  /\ At(r, "abandoned")
  /\ e \in request[r].todo
  /\ position' = [position EXCEPT ![e] = Rank(request[r].batch, e)]
  /\ request' = IF request[r].todo = {e}
                  THEN [request EXCEPT ![r] = Idle]
                  ELSE [request EXCEPT ![r].todo = @ \ {e}]
  /\ UNCHANGED <<status, barber, priority, joinedAt, clock, notifs, view, orphans, failures>>

-----------------------------------------------------------------------------

Init ==
  /\ status = [e \in Entries |-> "ABSENT"]
  /\ position = [e \in Entries |-> 0]
  /\ barber = [e \in Entries |-> NoBarber]
  /\ priority = [e \in Entries |-> 0]
  /\ joinedAt = [e \in Entries |-> 0]
  /\ clock = 0
  /\ keys = {}
  /\ view = [scope |-> NoBarber, list |-> {}]
  /\ request = [r \in Requests |-> Idle]
  /\ nextSent = [e \in Entries |-> 0]
  /\ told = {}
  /\ lapsed = {}
  /\ orphans = {}
  /\ failures = 0

\* Callers of the service.
Start(r) ==
  \E e \in Entries :
    \/ \E b \in Scopes, p \in Priorities : JoinAdmit(r, e, b, p)
    \/ \E s \in Targets : UpdateRead(r, e, s)
    \/ "LEFT" \in Targets /\ LeaveRead(r, e)

\* The steps by which a request that was started gets to its end.
Progress(r) ==
  \/ JoinCreate(r)
  \/ LeaveCheck(r)
  \/ WriteStatus(r)
  \/ Snapshot(r)
  \/ EstimateWaits(r)
  \/ RejectEstimates(r)
  \/ \E e \in Entries : SavePosition(r, e) \/ LateSave(r, e)
  \/ ReadActive(r)
  \/ Publish(r)
  \/ ClaimNextInLine(r)
  \/ ClearKey(r)

Failure(r) == Fail(r) \/ \E e \in Entries : FailSave(r, e)

Next ==
  \/ \E r \in Requests : Start(r) \/ Progress(r) \/ Failure(r)
  \/ \E e \in Entries : KeyLapses(e)

Spec == Init /\ [][Next]_vars

\* Every call is answered: PostgreSQL, Redis and the event loop keep going.
FairSpec == Spec /\ \A r \in Requests : WF_vars(Progress(r))
-----------------------------------------------------------------------------
(* Properties.                                                             *)

\* Every variable stays in the set its column, key or local is drawn from.
TypeOK ==
  /\ status \in [Entries -> Statuses \cup {"ABSENT"}]
  /\ position \in [Entries -> Nat]
  /\ barber \in [Entries -> Scopes]
  /\ priority \in [Entries -> Nat]
  /\ joinedAt \in [Entries -> Nat]
  /\ clock \in Nat
  /\ keys \subseteq Entries
  /\ view \in [scope : Scopes, list : SUBSET Listed]
  /\ request \in [Requests -> Request]
  /\ nextSent \in [Entries -> Nat]
  /\ told \subseteq Entries
  /\ lapsed \subseteq Entries
  /\ orphans \subseteq Entries
  /\ failures \in 0..MaxFailures

\* A row that waits without a position (joinQueue inserts it with 0 and
\* promises to recalculate) is one whose joinQueue is still to write it, or
\* has answered with an error.  Holds for any overlap of requests.
UnnumberedOnlyWhileJoining ==
  \A e \in Entries :
    status[e] = "WAITING" /\ position[e] = 0 =>
      \/ e \in orphans
      \/ \E r \in Requests :
           /\ IsJoin(r)
           /\ request[r].subject = e
           /\ \/ At(r, "snapshot") \/ At(r, "serving")
              \/ At(r, "save") /\ e \in request[r].todo

\* However many recalculations overlap, a customer who still waits has heard
\* NEXT_IN_LINE at most once, unless the key of the first one ran out.
NextInLineOnceWhileWaiting ==
  \A e \in Entries : status[e] = "WAITING" /\ e \notin lapsed => nextSent[e] <= 1

\* The rows that a recalculation has just written are numbered 1..n, by
\* priority and then by join time, if no other request ran beside this one.
PositionsRanked ==
  \A r \in Requests : At(r, "active") /\ request[r].met = {} =>
    LET Q == {e \in Entries : /\ request[r].scope \in {NoBarber, barber[e]}
                              /\ status[e] \in {"WAITING", "CALLED"}}
    IN /\ {position[e] : e \in Q} = 1..Cardinality(Q)
       /\ \A d, e \in Q : position[d] < position[e] =>
            \/ priority[d] > priority[e]
            \/ priority[d] = priority[e] /\ joinedAt[d] < joinedAt[e]

\* The list broadcast before NEXT_IN_LINE or QUEUE_CALLED goes out shows what
\* the database holds at that moment, if no other request ran beside this one.
ToastsAfterTheirBroadcast ==
  \A r \in {q \in Requests : request[q].met = {}} :
    At(r, "claim") \/ (At(r, "clear") /\ request[r].target = "CALLED") =>
      /\ view.scope = request[r].scope
      /\ view.list = {<<e, status[e], position[e]>> :
           e \in {d \in Entries : /\ view.scope \in {NoBarber, barber[d]}
                                  /\ status[d] \in {"WAITING", "CALLED", "SERVING"}}}

\* Nobody is put back among those who wait: a row becomes WAITING only by its insert.
NeverBackToWaiting ==
  [][\A e \in Entries : status'[e] = "WAITING" => status[e] \in {"ABSENT", "WAITING"}]_status

\* updateStatus checks the transition against what it read and writes by id
\* alone: a row that goes where no transition leads was written by a request
\* beside which, since that read, another request worked on the same row.
OnlyMetCallersOverwrite ==
  [][\A e \in Entries : status'[e] # status[e] =>
       \/ status[e] = "ABSENT" /\ status'[e] = "WAITING"
       \/ IsValidTransition(status[e], status'[e])
       \/ \E r \in Requests : At(r, "write") /\ request[r].subject = e /\ e \in request[r].met]_status

\* With callers that do not overlap on one entry, statuses follow the promised life.
Lifecycle == INSTANCE EntryLifecycle WITH Entries <- Entries, status <- status
LifecyclePromise == Lifecycle!Spec

\* Every row that is inserted gets a position, moves on, or its customer is
\* told that joining failed.
JoinersAreNumbered ==
  \A e \in Entries :
    status[e] = "WAITING" /\ position[e] = 0
      ~> position[e] # 0 \/ status[e] # "WAITING" \/ e \in orphans

-----------------------------------------------------------------------------
(* The inductive invariant behind these properties.                        *)

\* What a request knows about its row: an insert still to come is the only
\* request on its row; a row that a request has written is not, or no longer,
\* where the request found it.
RequestConsistent(r) ==
  LET q == request[r] IN
    /\ q.at # "idle" => q.subject \in Entries
    /\ q.at = "create" =>
         /\ IsJoin(r)
         /\ status[q.subject] = "ABSENT"
         /\ \A p \in Requests \ {r} : request[p].subject # q.subject
    /\ q.at \notin {"idle", "create"} => status[q.subject] # "ABSENT"
    /\ q.at = "leave" => q.target = "LEFT"
    /\ q.at \in {"write", "clear"} => ~IsJoin(r)
    /\ q.at \notin {"idle", "leave", "write"} /\ ~IsJoin(r) => status[q.subject] # "WAITING"
    /\ q.at # "idle" /\ IsJoin(r) => q.scope = barber[q.subject]

RequestsConsistent == \A r \in Requests : RequestConsistent(r)

\* Until an entry is called, NEXT_IN_LINE was sent only if its key is set.
KeyGuardsNotice ==
  \A e \in Entries :
    status[e] \in {"ABSENT", "WAITING"} /\ e \notin lapsed
      => nextSent[e] <= IF e \in keys THEN 1 ELSE 0

\* The joinQueue of e has inserted it and will still write its position.
Carries(r, e) ==
  /\ IsJoin(r)
  /\ request[r].subject = e
  /\ \/ At(r, "snapshot")
     \/ At(r, "serving") /\ e \in request[r].batch
     \/ At(r, "save") /\ e \in request[r].todo

\* A row without a position is in the hands of its joinQueue.
UnnumberedIsCarried ==
  \A e \in Entries :
    status[e] = "WAITING" /\ position[e] = 0 =>
      e \in orphans \/ \E r \in Requests : Carries(r, e)

\* Two requests that run have met; what updateStatus has read still holds when
\* it writes, unless it met another request on its row.
MeetingsKept ==
  \A r \in Requests : Runs(r) =>
    /\ \A q \in Requests \ {r} : Runs(q) => request[q].subject \in request[r].met
    /\ At(r, "write") /\ request[r].subject \notin request[r].met =>
         IsValidTransition(status[request[r].subject], request[r].target)

IInv == TypeOK /\ RequestsConsistent /\ KeyGuardsNotice /\ UnnumberedIsCarried /\ MeetingsKept

-----------------------------------------------------------------------------
(* The inductive invariant behind PositionsRanked and                      *)
(* ToastsAfterTheirBroadcast.  The first part holds for any overlap.       *)

\* Every insert is stamped with a time of its own.
JoinTimesDiffer ==
  /\ \A d, e \in Entries : d # e /\ joinedAt[d] = joinedAt[e] => joinedAt[e] = 0
  /\ \A e \in Entries : joinedAt[e] <= clock /\ (joinedAt[e] = 0 => status[e] = "ABSENT")
  /\ \A r \in Requests : At(r, "create") => joinedAt[request[r].subject] # 0

\* What a request that met no other knows of the queue, and what was
\* broadcast of it, is what the queue is.
KnowsTheQueue(q, shown) ==
  /\ q.at \in {"create", "leave", "write", "snapshot"} => q.moved = {}
  /\ q.at \in {"leave", "write"} => q.scope = barber[q.subject]
  /\ q.at \notin {"idle", "create", "leave", "write"} /\ q.target = "CALLED" =>
       q.subject \in QueuedIn(q.scope)
  /\ q.at \in {"serving", "save"} => q.batch = QueuedIn(q.scope)
  /\ q.at = "save" => \A e \in q.batch \ q.todo : position[e] = Rank(q.batch, e)
  /\ q.at = "active" => \A e \in QueuedIn(q.scope) : position[e] = Rank(QueuedIn(q.scope), e)
  /\ q.at = "publish" =>
       q.list = ListOf(ActiveIn(q.scope)) \/ (QueuedIn(q.scope) = {} /\ q.moved = {})
  /\ q.at = "claim" \/ (q.at = "clear" /\ q.target = "CALLED") =>
       shown = [scope |-> q.scope, list |-> ListOf(ActiveIn(q.scope))]

AloneKnows == \A r \in Requests : request[r].met = {} => KnowsTheQueue(request[r], view)

AloneInv == JoinTimesDiffer /\ AloneKnows

-----------------------------------------------------------------------------
(* What a comment says and the code does not keep.                         *)

\* "position: 0, // recalculated immediately below".
JoinNumbersItsRow ==
  (\A r \in Requests : At(r, "idle")) =>
    \A e \in Entries : status[e] = "WAITING" => position[e] # 0
=============================================================================
