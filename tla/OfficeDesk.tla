----------------------------- MODULE OfficeDesk -----------------------------
(***************************************************************************)
(* The pages of the admin dashboard that show a queue without listening to *)
(* it row by row: the list (queue-list.page.ts), one entry in detail       *)
(* (queue-details.page.ts) and the figures of the home page                *)
(* (dashboard-home.page.ts).  What the first two show is Apollo's cached   *)
(* answer to activeQueue, which every answer to a mutation patches; their  *)
(* subscription over GraphQL never delivers, for Apollo has an HTTP link   *)
(* only.  A query like one that is under way shares its answer.  The API   *)
(* moves a row and then recalculates, which may fail while somebody is     *)
(* served; QueueService.tla takes the two apart further.                   *)
(***************************************************************************)
EXTENDS QueueEngine

CONSTANTS
  LastRow,    \* customers join as 1..LastRow
  Chosen,     \* whose details are open
  MaxClicks,  \* bound: mutations under way from the details
  MaxOthers   \* bound: joins and moves of other devices

ASSUME OfficeDeskAssumption ==
  LastRow \in Nat /\ Chosen \in 1..LastRow /\ MaxClicks \in Nat /\ MaxOthers \in Nat

VARIABLES
  desk,       \* the page that is open
  line,       \* the database: the status of every row
  past,       \* rows whose servedAt is before today
  others,     \* joins and moves of other devices so far
  unsaid,     \* moves of other devices that wait for their recalculateQueue
  news,       \* broadcasts on their way to the page
  listed,     \* activeQueue in Apollo's cache
  listRead,   \* the query activeQueue that is under way
  statsRead,  \* the query queueStats that is under way
  kpis,       \* the figures on the screen
  clicks,     \* mutations under way
  behind      \* why the screen may be out of date

deskVars == <<desk, line, past, others, unsaid, news, listed, listRead, statsRead, kpis, clicks, behind>>

QueueRows == 1..LastRow

Joined == {e \in QueueRows : line[e] # "ABSENT"}

ActiveRows == [e \in {d \in Joined : line[d] \in ActiveStatuses} |-> line[e]]

NoListRead == [at |-> "none", list |-> <<>>]

NoFigures == [waiting |-> 0, serving |-> 0, served |-> 0]

\* before: past, as it was when the figures were asked for.
NoStatsRead == [at |-> "none", counted |-> {}, figures |-> NoFigures, before |-> {}]

With(status) == Cardinality({e \in Joined : line[e] = status})

ServedAfter(earlier) == Cardinality({e \in Joined : line[e] = "SERVED"} \ earlier)

Figures == [waiting |-> With("WAITING"), serving |-> With("SERVING"), served |-> ServedAfter(past)]

-----------------------------------------------------------------------------
(* The queue, moved by this page and by others.                            *)

\* What another device did waits for its recalculation.
ByOthers ==
  /\ others < MaxOthers /\ others' = others + 1
  /\ unsaid' = unsaid + 1
  /\ behind' = behind \cup {"others"}

SomebodyJoins ==
  /\ Joined # QueueRows
  /\ LET e == Cardinality(Joined) + 1 IN
       line' = [line EXCEPT ![e] = "WAITING"]
  /\ ByOthers
  /\ UNCHANGED <<desk, past, news, listed, listRead, statsRead, kpis, clicks>>

OtherMoves ==
  /\ \E e \in Joined : \E target \in ValidNextStatuses(line[e]) :
       line' = [line EXCEPT ![e] = target]
  /\ ByOthers
  /\ UNCHANGED <<desk, past, news, listed, listRead, statsRead, kpis, clicks>>

\* The figures of the home page are those of the day.  Nothing on it changes.
Midnight ==
  /\ desk = "home"
  /\ past' = {e \in Joined : line[e] = "SERVED"} /\ past' # past
  /\ behind' = behind \cup {"midnight"}
  /\ UNCHANGED <<desk, line, others, unsaid, news, listed, listRead, statsRead, kpis, clicks>>

Answer(c, at) == clicks' = (clicks \ {c}) \cup {[c EXCEPT !.at = at]}

\* The recalculation of one move ends, this page's or another's.
EndsOne(at) ==
  \/ unsaid > 0 /\ unsaid' = unsaid - 1 /\ UNCHANGED clicks
  \/ (\E c \in clicks : c.at = "moved" /\ Answer(c, at)) /\ UNCHANGED unsaid

\* recalculateQueue ends with a broadcast, which the socket of the home page
\* loses while it is not connected.  Connecting again asks for nothing.
Recalculate ==
  /\ EndsOne("done")
  /\ \/ news' = (IF desk = "home" THEN news + 1 ELSE news) /\ UNCHANGED behind
     \/ desk = "home" /\ behind' = behind \cup {"unheard"} /\ UNCHANGED news
  /\ UNCHANGED <<desk, line, past, others, listed, listRead, statsRead, kpis>>

\* An estimate that is a fraction is refused: the row has moved all the same.
RecalculateFails ==
  /\ With("SERVING") > 0 /\ With("WAITING") + With("CALLED") > 0
  /\ EndsOne("failed")
  /\ behind' = behind \cup {"unsaid"}
  /\ UNCHANGED <<desk, line, past, others, news, listed, listRead, statsRead, kpis>>

-----------------------------------------------------------------------------
(* Queries.                                                                *)

AskList == listRead' = IF listRead.at = "none" THEN [NoListRead EXCEPT !.at = "asked"] ELSE listRead

StatsAsked == [at |-> "asked", counted |-> {}, figures |-> NoFigures, before |-> past]

\* Figures on the screen are not asked for again.
AskStatsOnce == statsRead' = IF statsRead.at = "none" /\ kpis = NoFigures THEN StatsAsked ELSE statsRead

AskStats == statsRead' = IF statsRead.at = "none" THEN StatsAsked ELSE statsRead

\* The Refresh button of the list, disabled while it loads.  The list asks for
\* its figures at the same times; they are left out.
Refresh ==
  /\ desk = "list" /\ listRead.at = "none"
  /\ AskList
  /\ UNCHANGED <<desk, line, past, others, unsaid, news, listed, statsRead, kpis, clicks, behind>>

\* What has moved before is in this answer, so an answer to a mutation that
\* is still on its way will be older.
ListIsRead ==
  /\ listRead.at = "asked"
  /\ listRead' = [at |-> "read", list |-> ActiveRows]
  /\ behind' = behind \ {"others", "overtaken", "unsaid"}
  /\ clicks' = {IF c.at \in {"moved", "done"} THEN [c EXCEPT !.reread = TRUE] ELSE c : c \in clicks}
  /\ UNCHANGED <<desk, line, past, others, unsaid, news, listed, statsRead, kpis>>

ListAnswered ==
  /\ listRead.at = "read"
  /\ listRead' = NoListRead
  /\ listed' = listRead.list
  /\ behind' = behind \ {"unloaded"}
  /\ UNCHANGED <<desk, line, past, others, unsaid, news, statsRead, kpis, clicks>>

ListFails ==
  /\ listRead.at = "read"
  /\ listRead' = NoListRead
  /\ behind' = behind \cup {"unloaded"}
  /\ UNCHANGED <<desk, line, past, others, unsaid, news, listed, statsRead, kpis, clicks>>

\* getQueueStats counts in queries of their own, in any order.  It took its date
\* when it began, which midnight may have passed since.
CountOne ==
  /\ statsRead.at = "asked"
  /\ \E f \in DOMAIN NoFigures \ statsRead.counted :
       \E count \in {Figures[f]} \cup (IF f = "served" THEN {ServedAfter(statsRead.before)} ELSE {}) :
         statsRead' = [statsRead EXCEPT !.counted = @ \cup {f}, !.figures[f] = count]
  /\ UNCHANGED <<desk, line, past, others, unsaid, news, listed, listRead, kpis, clicks, behind>>

StatsAnswered ==
  /\ statsRead.counted = DOMAIN NoFigures
  /\ statsRead' = NoStatsRead
  /\ kpis' = statsRead.figures
  /\ UNCHANGED <<desk, line, past, others, unsaid, news, listed, listRead, clicks, behind>>

\* The figures stay as they were.
StatsFail ==
  /\ statsRead.at = "asked"
  /\ statsRead' = NoStatsRead
  /\ behind' = behind \cup {"uncounted"}
  /\ UNCHANGED <<desk, line, past, others, unsaid, news, listed, listRead, kpis, clicks>>

\* What leaves the figures of the home page as they were.
Uncounted == {"shared", "unsaid", "uncounted", "unheard", "midnight"}

\* The home page asks for its figures again at every broadcast.
HomeHears ==
  /\ desk = "home" /\ news > 0
  /\ news' = news - 1
  /\ AskStats
  /\ behind' = IF statsRead.at = "none" THEN behind \ Uncounted ELSE behind \cup {"shared"}
  /\ UNCHANGED <<desk, line, past, others, unsaid, listed, listRead, kpis, clicks>>

-----------------------------------------------------------------------------
(* The buttons of the list and of the details.                             *)

\* nextWaiting takes the least position in the list.  Rows are numbered barber
\* by barber and by priority, so it may be any row that waits.
FirstInLine == {e \in DOMAIN listed : listed[e] = "WAITING"}

\* The rows' buttons, with the button of a called customer on a waiting one.
StartsEarly ==
  {<<e, "CALLED">> : e \in FirstInLine}
    \cup {<<e, "SERVING">> : e \in {d \in DOMAIN listed : listed[d] \in {"WAITING", "CALLED"}}}

\* callNext, startServing, markServed and skipEntry, each on the rows whose
\* status shows its button.
ListOffers ==
  {<<e, "CALLED">> : e \in FirstInLine}
    \cup {<<e, "SERVING">> : e \in {d \in DOMAIN listed : listed[d] = "CALLED"}}
    \cup {<<e, "SERVED">> : e \in {d \in DOMAIN listed : listed[d] = "SERVING"}}
    \cup {<<e, "NO_SHOW">> : e \in {d \in DOMAIN listed : listed[d] \in {"WAITING", "CALLED"}}}

\* callNext, skipToken and cancelBooking.
DetailsOffer ==
  {<<Chosen, target>> : target \in
     {t \in {"CALLED", "NO_SHOW", "LEFT"} :
        /\ Chosen \in DOMAIN listed
        /\ \/ listed[Chosen] = "WAITING"
           \/ listed[Chosen] = "CALLED" /\ t = "LEFT"}}

SendClick(offer) ==
  clicks' = clicks \cup {[entry |-> offer[1], target |-> offer[2], shown |-> listed[offer[1]],
                             at |-> "sent", reread |-> FALSE]}

\* actionLoading lets one action of the list through at a time.
ClickList ==
  /\ desk = "list" /\ clicks = {}
  /\ \E offer \in ListOffers : SendClick(offer)
  /\ UNCHANGED <<desk, line, past, others, unsaid, news, listed, listRead, statsRead, kpis, behind>>

\* Nothing keeps the details from being clicked twice.
ClickDetails ==
  /\ desk = "details" /\ Cardinality(clicks) < MaxClicks
  /\ \E offer \in DetailsOffer : SendClick(offer)
  /\ UNCHANGED <<desk, line, past, others, unsaid, news, listed, listRead, statsRead, kpis, behind>>

\* A query that was read before does not see it.
Update ==
  \E c \in clicks :
    /\ c.at = "sent" /\ IsValidTransition(line[c.entry], c.target)
    /\ line' = [line EXCEPT ![c.entry] = c.target]
    /\ Answer(c, "moved")
    /\ behind' = IF listRead.at = "read" THEN behind \cup {"overtaken"} ELSE behind
    /\ UNCHANGED <<desk, past, others, unsaid, news, listed, listRead, statsRead, kpis>>

Refuse ==
  \E c \in clicks :
    /\ c.at = "sent" /\ ~IsValidTransition(line[c.entry], c.target)
    /\ Answer(c, "refused")
    /\ UNCHANGED <<desk, line, past, others, unsaid, news, listed, listRead, statsRead, kpis, behind>>

\* The answer is dropped: only the query brings the row up to date.
Unpatched(c) == listed

\* Apollo patches the row in its cached list, and the page shows it.
Patched(c) ==
  IF c.entry \in DOMAIN listed THEN [listed EXCEPT ![c.entry] = c.target] ELSE listed

\* The list only lets the buttons work again; the details load again.
ClickAnswered ==
  \E c \in clicks :
    /\ c.at = "done"
    /\ clicks' = clicks \ {c}
    /\ listed' = Patched(c)
    /\ IF desk = "details" THEN AskList ELSE UNCHANGED listRead
    /\ behind' = IF c.reread THEN behind \cup {"overtaken"} ELSE behind
    /\ UNCHANGED <<desk, line, past, others, unsaid, news, statsRead, kpis>>

\* The details have no handler for errors and do not load again.
ClickRefused ==
  /\ \E c \in clicks : c.at \in {"refused", "failed"} /\ clicks' = clicks \ {c}
  /\ UNCHANGED <<desk, line, past, others, unsaid, news, listed, listRead, statsRead, kpis, behind>>

-----------------------------------------------------------------------------

DeskInit ==
  /\ desk \in {"list", "details", "home"}
  /\ \E waiting \in 0..LastRow :
       line = [e \in QueueRows |-> IF e <= waiting THEN "WAITING" ELSE "ABSENT"]
  /\ past = {} /\ others = 0 /\ unsaid = 0 /\ news = 0
  /\ listed = <<>>
  /\ listRead = IF desk = "home" THEN NoListRead ELSE [NoListRead EXCEPT !.at = "asked"]
  /\ statsRead = IF desk = "home" THEN StatsAsked ELSE NoStatsRead
  /\ kpis = NoFigures /\ clicks = {} /\ behind = {"unloaded"}

DeskNext ==
  \/ SomebodyJoins \/ OtherMoves \/ Midnight \/ Recalculate \/ RecalculateFails
  \/ Refresh \/ ListIsRead \/ ListAnswered \/ ListFails
  \/ CountOne \/ StatsAnswered \/ StatsFail \/ HomeHears
  \/ ClickList \/ ClickDetails \/ Update \/ Refuse \/ ClickAnswered \/ ClickRefused

DeskSpec == DeskInit /\ [][DeskNext]_deskVars

-----------------------------------------------------------------------------

\* Once nothing is under way, the list and the details show what the database
\* holds, although only their own answers ever change them, unless another
\* device changed the queue since it was read, an action failed after it had
\* moved its row, or of a query and an action the later answer was the older.
DeskSettles ==
  (desk # "home" /\ behind = {} /\ clicks = {} /\ listRead.at = "none") =>
    /\ \A e \in DOMAIN ActiveRows : e \in DOMAIN listed /\ listed[e] = line[e]
    /\ \A e \in DOMAIN listed : listed[e] = line[e]

\* Once nothing is under way the figures of the home page are those of the
\* database, although they are counted apart and asked for again only at a
\* broadcast, unless that request shared the answer of an earlier one or failed,
\* a broadcast since never came (its recalculation failed, or it was lost with
\* the socket), or the day on which its customers were served is over.
FiguresSettle ==
  (desk = "home" /\ unsaid = 0 /\ news = 0 /\ statsRead.at = "none" /\ behind \cap Uncounted = {}) =>
    kpis = Figures

\* The buttons that are offered and never work.
NeverWorks == {<<"WAITING", "NO_SHOW">>, <<"CALLED", "LEFT">>}

\* An action is refused for one of three reasons: the row on the screen was not
\* the row in the database, a customer who waits was skipped, or one who was
\* called was cancelled.  The last two buttons are offered and never work.
DeskRefusedForCause ==
  [][\A c \in clicks' \ clicks : c.at = "refused" =>
       \/ line[c.entry] # c.shown
       \/ <<c.shown, c.target>> \in NeverWorks]_deskVars

-----------------------------------------------------------------------------
(* The inductive invariant behind DeskSettles and DeskRefusedForCause.     *)

Row == Statuses \cup {"ABSENT"}

IsList(list) == DOMAIN list \subseteq QueueRows /\ \A e \in DOMAIN list : list[e] \in Row

Click ==
  [entry : QueueRows, target : Statuses, shown : Row,
   at : {"sent", "moved", "done", "refused", "failed"}, reread : BOOLEAN]

DeskTypes ==
  /\ desk \in {"list", "details", "home"}
  /\ line \in [QueueRows -> Row]
  /\ IsList(listed) /\ IsList(listRead.list)
  /\ listRead.at \in {"none", "asked", "read"}
  /\ clicks \subseteq Click

SentAsOffered ==
  \A c \in clicks : c.at = "sent" =>
    /\ ~c.reread
    /\ IsValidTransition(c.shown, c.target) \/ <<c.shown, c.target>> \in NeverWorks

Agrees(list, e) ==
  /\ line[e] \in ActiveStatuses => e \in DOMAIN list
  /\ e \in DOMAIN list => list[e] = line[e]

\* A click has moved its row, and nobody has read the list since.
Carried(c) == c.at \in {"moved", "done"} /\ ~c.reread

\* The list has one click under way, and nobody else moved its row.
OneClick ==
  desk = "list" =>
    /\ \A c, d \in clicks : c = d
    /\ \A c \in clicks : Carried(c) /\ "others" \notin behind => line[c.entry] = c.target

\* A list that was read and is on its way is right, or known not to be.
ReadAgrees ==
  desk # "home" /\ listRead.at = "read" =>
    /\ behind \cap {"others", "overtaken", "unsaid"} = {} => \A e \in QueueRows : Agrees(listRead.list, e)
    /\ "overtaken" \notin behind => \A c \in clicks : ~Carried(c)

\* What is shown differs in rows only whose click will be answered.
ShownAgrees ==
  desk # "home" /\ listRead.at = "none" /\ behind = {} =>
    \A e \in QueueRows :
      Agrees(listed, e) \/ (e \in DOMAIN listed /\ \E c \in clicks : c.entry = e /\ Carried(c))

DeskInv == DeskTypes /\ SentAsOffered /\ OneClick /\ ReadAgrees /\ ShownAgrees

-----------------------------------------------------------------------------
(* The inductive invariant behind FiguresSettle.                           *)

\* No other fields than those of a request, and those that are counted.
IsStatsRead(r) ==
  /\ r = [at |-> r.at, counted |-> r.counted, figures |-> r.figures, before |-> r.before]
  /\ r.figures = [waiting |-> r.figures.waiting, serving |-> r.figures.serving, served |-> r.figures.served]
  /\ r.at \in {"none", "asked"}
  /\ r.at = "none" => r = NoStatsRead

\* What a request has counted is what is counted now.
CountedRight(r) ==
  /\ "waiting" \in r.counted => r.figures.waiting = Figures.waiting
  /\ "serving" \in r.counted => r.figures.serving = Figures.serving
  /\ "served" \in r.counted => r.figures.served = Figures.served

\* Every move that is not counted is one whose news will come.
NewsToCome == unsaid > 0 \/ news > 0 \/ behind \cap Uncounted # {}

\* While no move waits to be told of, what was counted is right.
FiguresFollow ==
  /\ IsStatsRead(statsRead) /\ unsaid \in Nat /\ news \in Nat
  /\ desk = "home" =>
       /\ clicks = {} /\ listRead.at = "none"
       /\ \/ NewsToCome
          \/ /\ CountedRight(statsRead)
             /\ IF statsRead.at = "none" THEN kpis = Figures ELSE statsRead.before = past
=============================================================================
