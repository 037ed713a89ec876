-------------------------- MODULE OfficeDeskProofs --------------------------
(***************************************************************************)
(* Theorems about OfficeDesk, for any number of rows, of clicks and of     *)
(* other devices.                                                          *)
(***************************************************************************)
EXTENDS OfficeDesk, FiniteSetTheorems, TLAPS

LEMMA DeskInvInit == DeskInit => DeskInv
<1> SUFFICES ASSUME DeskInit
             PROVE  DeskInv
  OBVIOUS
<1>1. DeskTypes
  <2>1. line \in [QueueRows -> Row]
    BY DEF DeskInit, Row, Statuses
  <2>2. IsList(<<>>)
    BY DEF IsList
  <2>3. listRead.at \in {"none", "asked"} /\ listRead.list = <<>>
    BY DEF DeskInit, NoListRead
  <2>4. QED
    BY <2>1, <2>2, <2>3 DEF DeskInit, DeskTypes
<1>2. SentAsOffered /\ OneClick
  BY DEF DeskInit, SentAsOffered, OneClick
<1>3. ReadAgrees /\ ShownAgrees
  BY DEF DeskInit, ReadAgrees, ShownAgrees, NoListRead
<1>4. QED
  BY <1>1, <1>2, <1>3 DEF DeskInv

(* A click remembers the row it was made on, and asks for what the page    *)
(* offered on it.                                                          *)
LEMMA OfferedClick ==
  ASSUME DeskTypes,
         NEW offer, offer \in ListOffers \cup DetailsOffer
  PROVE  LET c == [entry |-> offer[1], target |-> offer[2], shown |-> listed[offer[1]],
                   at |-> "sent", reread |-> FALSE]
         IN /\ c \in Click
            /\ IsValidTransition(c.shown, c.target) \/ <<c.shown, c.target>> \in NeverWorks
<1> DEFINE c == [entry |-> offer[1], target |-> offer[2], shown |-> listed[offer[1]],
                 at |-> "sent", reread |-> FALSE]
<1>1. \A e \in DOMAIN listed : e \in QueueRows /\ listed[e] \in Row
  BY DEF DeskTypes, IsList
<1>2. \E e \in DOMAIN listed, target \in Statuses :
        /\ offer = <<e, target>>
        /\ \/ IsValidTransition(listed[e], target)
           \/ <<listed[e], target>> \in NeverWorks
  <2>1. CASE offer \in ListOffers
    BY <2>1 DEF ListOffers, FirstInLine, IsValidTransition, ValidNextStatuses, Statuses, NeverWorks
  <2>2. CASE offer \in DetailsOffer
    BY <2>2 DEF DetailsOffer, IsValidTransition, ValidNextStatuses, Statuses, NeverWorks
  <2>3. QED
    BY <2>1, <2>2
<1>3. PICK e \in DOMAIN listed, target \in Statuses :
        /\ offer = <<e, target>>
        /\ \/ IsValidTransition(listed[e], target)
           \/ <<listed[e], target>> \in NeverWorks
  BY <1>2
<1>4. c = [entry |-> e, target |-> target, shown |-> listed[e], at |-> "sent", reread |-> FALSE]
  BY <1>3
<1>5. QED
  BY <1>1, <1>3, <1>4 DEF Click

(* A click adds one mutation that nobody has heard of.                     *)
LEMMA AddedClick ==
  ASSUME NEW offer, SendClick(offer)
  PROVE  \E n : clicks' = clicks \cup {n} /\ n.at = "sent"
<1> DEFINE c == [entry |-> offer[1], target |-> offer[2], shown |-> listed[offer[1]],
                 at |-> "sent", reread |-> FALSE]
<1>1. c.at = "sent"
  OBVIOUS
<1>2. clicks' = clicks \cup {c}
  BY DEF SendClick
<1> HIDE DEF c
<1>3. QED
  BY <1>1, <1>2

(* An answer changes where a click is, and nothing else of it.             *)
LEMMA AnsweredClick ==
  ASSUME DeskTypes, NEW c \in clicks,
         NEW at \in {"moved", "done", "refused", "failed"}, Answer(c, at)
  PROVE  \E n \in Click :
           /\ clicks' = (clicks \ {c}) \cup {n}
           /\ n.at = at /\ n.entry = c.entry /\ n.target = c.target
           /\ n.shown = c.shown /\ n.reread = c.reread
<1>1. c \in Click
  BY DEF DeskTypes
<1> DEFINE n == [c EXCEPT !.at = at]
<1>2. /\ n \in Click
      /\ n.at = at /\ n.entry = c.entry /\ n.target = c.target
      /\ n.shown = c.shown /\ n.reread = c.reread
  BY <1>1 DEF Click
<1>3. clicks' = (clicks \ {c}) \cup {n}
  BY DEF Answer
<1>4. QED
  BY <1>2, <1>3

(* A recalculation ends for somebody else, or for one click.               *)
LEMMA EndedOne ==
  ASSUME DeskTypes, NEW at \in {"done", "failed"}, EndsOne(at)
  PROVE  \/ UNCHANGED clicks
         \/ \E c \in clicks, n \in Click :
              /\ c.at = "moved"
              /\ clicks' = (clicks \ {c}) \cup {n}
              /\ n.at = at /\ n.entry = c.entry /\ n.target = c.target
              /\ n.shown = c.shown /\ n.reread = c.reread
<1>1. CASE UNCHANGED clicks
  BY <1>1
<1>2. CASE \E c \in clicks : c.at = "moved" /\ Answer(c, at)
  <2>1. PICK c \in clicks : c.at = "moved" /\ Answer(c, at)
    BY <1>2
  <2>2. PICK n \in Click :
          /\ clicks' = (clicks \ {c}) \cup {n}
          /\ n.at = at /\ n.entry = c.entry /\ n.target = c.target
          /\ n.shown = c.shown /\ n.reread = c.reread
    BY <2>1, AnsweredClick
  <2>3. QED
    BY <2>1, <2>2
<1>3. QED
  BY <1>1, <1>2 DEF EndsOne

(* When the list is read, every click that moved is marked as read since.  *)
LEMMA MarkedClicks ==
  ASSUME DeskTypes, ListIsRead
  PROVE  /\ clicks' \subseteq Click
         /\ \A n \in clicks' : \E c \in clicks :
              /\ n.at = c.at /\ n.entry = c.entry /\ n.target = c.target /\ n.shown = c.shown
              /\ n.at \in {"moved", "done"} => n.reread
              /\ n.at \notin {"moved", "done"} => n \in clicks
         /\ (\A c, d \in clicks : c = d) => \A m, n \in clicks' : m = n
<1> DEFINE Mark(c) == IF c.at \in {"moved", "done"} THEN [c EXCEPT !.reread = TRUE] ELSE c
<1>1. clicks' = {Mark(c) : c \in clicks}
  BY DEF ListIsRead
<1>2. \A c \in clicks :
        /\ Mark(c) \in Click
        /\ Mark(c).at = c.at /\ Mark(c).entry = c.entry /\ Mark(c).target = c.target
        /\ Mark(c).shown = c.shown
        /\ c.at \in {"moved", "done"} => Mark(c).reread
        /\ c.at \notin {"moved", "done"} => Mark(c) = c
  BY DEF DeskTypes, Click
<1> HIDE DEF Mark
<1>3. QED
  BY <1>1, <1>2

(* The page that is open stays open.                                       *)
LEMMA SameDesk == [DeskNext]_deskVars => desk' = desk
  BY DEF DeskNext, SomebodyJoins, ByOthers, OtherMoves, Recalculate, RecalculateFails, Refresh, ListIsRead,
     ListAnswered, ListFails, CountOne, StatsAnswered, StatsFail, Midnight, HomeHears, ClickList, ClickDetails, Update, Refuse,
     ClickAnswered, ClickRefused, deskVars

LEMMA DeskTypesNext == DeskTypes /\ [DeskNext]_deskVars => DeskTypes'
<1> SUFFICES ASSUME DeskTypes, [DeskNext]_deskVars
             PROVE  DeskTypes'
  OBVIOUS
<1>t. /\ line \in [QueueRows -> Row]
      /\ IsList(listed) /\ IsList(listRead.list)
      /\ listRead.at \in {"none", "asked", "read"}
      /\ clicks \subseteq Click
  BY DEF DeskTypes
<1>l. /\ IsList(NoListRead.list) /\ NoListRead.at = "none"
      /\ [NoListRead EXCEPT !.at = "asked"].at = "asked"
      /\ IsList([NoListRead EXCEPT !.at = "asked"].list)
  BY DEF NoListRead, IsList
<1>k. AskList => listRead'.at \in {"none", "asked", "read"} /\ IsList(listRead'.list)
  BY <1>t, <1>l DEF AskList
<1>i. UNCHANGED listed => IsList(listed)'
  BY <1>t DEF IsList
<1>r. UNCHANGED listRead => listRead'.at \in {"none", "asked", "read"} /\ IsList(listRead'.list)
  BY <1>t
<1>d. desk' \in {"list", "details", "home"}
  BY SameDesk DEF DeskTypes
<1> USE DEF DeskTypes
<1>1. CASE SomebodyJoins
  <2>1. line' \in [QueueRows -> Row]
    BY <1>1, <1>t DEF SomebodyJoins, Row, Statuses
  <2>2. QED
    BY <1>1, <2>1, <1>t, <1>i, <1>r DEF SomebodyJoins
<1>2. CASE OtherMoves
  <2>1. line' \in [QueueRows -> Row]
    BY <1>2, <1>t DEF OtherMoves, Row, Statuses, ValidNextStatuses, Joined
  <2>2. QED
    BY <1>2, <2>1, <1>t, <1>i, <1>r DEF OtherMoves
<1>3. CASE Recalculate
  <2>1. clicks' \subseteq Click
    BY <1>3, <1>t, EndedOne DEF Recalculate
  <2>2. QED
    BY <1>3, <2>1, <1>t, <1>i, <1>r DEF Recalculate
<1>4. CASE RecalculateFails
  <2>1. clicks' \subseteq Click
    BY <1>4, <1>t, EndedOne DEF RecalculateFails
  <2>2. QED
    BY <1>4, <2>1, <1>t, <1>i, <1>r DEF RecalculateFails
<1>5. CASE Refresh
  BY <1>5, <1>t, <1>k, <1>i DEF Refresh
<1>6. CASE ListIsRead
  <2>1. IsList(ActiveRows)
    BY <1>t DEF IsList, ActiveRows, Joined
  <2>2. listRead'.at = "read" /\ listRead'.list = ActiveRows
    BY <1>6 DEF ListIsRead
  <2>3. clicks' \subseteq Click
    BY <1>6, MarkedClicks
  <2>4. QED
    BY <1>6, <2>1, <2>2, <2>3, <1>t, <1>i DEF ListIsRead
<1>7. CASE ListAnswered \/ ListFails
  <2>1. listRead' = NoListRead /\ UNCHANGED <<line, clicks>> /\ listed' \in {listed, listRead.list}
    BY <1>7 DEF ListAnswered, ListFails
  <2>2. QED
    BY <2>1, <1>t, <1>l, <1>d
<1>8. CASE CountOne \/ StatsAnswered \/ StatsFail \/ Midnight \/ HomeHears
  BY <1>8, <1>t, <1>i, <1>r DEF CountOne, StatsAnswered, StatsFail, Midnight, HomeHears
<1>9. CASE ClickList \/ ClickDetails
  <2>1. PICK offer \in ListOffers \cup DetailsOffer : SendClick(offer)
    BY <1>9 DEF ClickList, ClickDetails
  <2>2. clicks' \subseteq Click
    BY <2>1, OfferedClick, <1>t DEF SendClick
  <2>3. QED
    BY <1>9, <2>2, <1>t, <1>i, <1>r DEF ClickList, ClickDetails
<1>10. CASE Update
  <2>1. PICK c \in clicks :
          /\ c.at = "sent" /\ line' = [line EXCEPT ![c.entry] = c.target]
          /\ Answer(c, "moved") /\ UNCHANGED <<listed, listRead>>
    BY <1>10 DEF Update
  <2>2. clicks' \subseteq Click
    BY <2>1, AnsweredClick, <1>t
  <2>3. line' \in [QueueRows -> Row]
    BY <2>1, <1>t DEF Row, Click
  <2>4. QED
    BY <2>1, <2>2, <2>3, <1>t, <1>i, <1>r, <1>d
<1>11. CASE Refuse
  <2>1. PICK c \in clicks : Answer(c, "refused") /\ UNCHANGED <<line, listed, listRead>>
    BY <1>11 DEF Refuse
  <2>2. clicks' \subseteq Click
    BY <2>1, AnsweredClick, <1>t
  <2>3. QED
    BY <2>1, <2>2, <1>t, <1>i, <1>r, <1>d
<1>12. CASE ClickAnswered
  <2>1. PICK c \in clicks :
          /\ clicks' = clicks \ {c} /\ listed' = Patched(c) /\ UNCHANGED line
          /\ AskList \/ UNCHANGED listRead
    BY <1>12 DEF ClickAnswered
  <2>2. c.target \in Statuses \cup {"ABSENT"}
    BY <2>1, <1>t DEF Click
  <2>3. IsList(listed')
    BY <2>1, <2>2, <1>t DEF Patched, IsList, Row
  <2>4. QED
    BY <2>1, <2>3, <1>t, <1>k, <1>r, <1>d
<1>13. CASE ClickRefused
  BY <1>13, <1>t, <1>i, <1>r DEF ClickRefused
<1>14. CASE UNCHANGED deskVars
  BY <1>14, <1>t, <1>i, <1>r DEF deskVars
<1>15. QED
  BY <1>1, <1>2, <1>3, <1>4, <1>5, <1>6, <1>7, <1>8, <1>9, <1>10, <1>11, <1>12, <1>13, <1>14
     DEF DeskNext

(* A click is sent once, asking for what the page offered.                 *)
LEMMA SentAsOfferedNext == DeskTypes /\ SentAsOffered /\ [DeskNext]_deskVars => SentAsOffered'
<1> SUFFICES ASSUME DeskTypes, SentAsOffered, [DeskNext]_deskVars
             PROVE  SentAsOffered'
  OBVIOUS
<1> USE DEF SentAsOffered
<1>1. CASE UNCHANGED clicks
  BY <1>1
<1>2. CASE Recalculate \/ RecalculateFails
  <2>1. CASE \E c \in clicks, n \in Click :
               clicks' = (clicks \ {c}) \cup {n} /\ n.at \in {"done", "failed"}
    BY <2>1
  <2>2. QED
    BY <1>1, <1>2, <2>1, EndedOne DEF Recalculate, RecalculateFails
<1>3. CASE ListIsRead
  BY <1>3, MarkedClicks
<1>4. CASE ClickList \/ ClickDetails
  <2>1. PICK offer \in ListOffers \cup DetailsOffer : SendClick(offer)
    BY <1>4 DEF ClickList, ClickDetails
  <2>2. QED
    BY <2>1, OfferedClick DEF SendClick
<1>5. CASE Update \/ Refuse
  <2>1. PICK c \in clicks : Answer(c, "moved") \/ Answer(c, "refused")
    BY <1>5 DEF Update, Refuse
  <2>2. PICK n : clicks' = (clicks \ {c}) \cup {n} /\ n.at \in {"moved", "refused"}
    BY <2>1, AnsweredClick
  <2>3. QED
    BY <2>2
<1>6. CASE ClickAnswered \/ ClickRefused
  BY <1>6 DEF ClickAnswered, ClickRefused
<1>7. CASE SomebodyJoins \/ OtherMoves \/ Refresh \/ ListAnswered \/ ListFails \/ CountOne \/ StatsAnswered \/ StatsFail
           \/ Midnight \/ HomeHears \/ UNCHANGED deskVars
  BY <1>1, <1>7
     DEF SomebodyJoins, OtherMoves, Refresh, ListAnswered, ListFails, CountOne, StatsAnswered, StatsFail, Midnight, HomeHears, deskVars
<1>8. QED
  BY <1>2, <1>3, <1>4, <1>5, <1>6, <1>7 DEF DeskNext

(* The list never has two clicks under way, and the row of one that moved  *)
(* stays where the click put it unless another device moves it.            *)
LEMMA OneClickNext == DeskTypes /\ OneClick /\ [DeskNext]_deskVars => OneClick'
<1> SUFFICES ASSUME DeskTypes, OneClick, [DeskNext]_deskVars, desk' = "list"
             PROVE  /\ \A c, d \in clicks' : c = d
                    /\ \A c \in clicks' : Carried(c) /\ "others" \notin behind' =>
                         line'[c.entry] = c.target
  BY DEF OneClick, Carried
<1>d. desk = "list"
  BY SameDesk
<1>o. /\ \A c, d \in clicks : c = d
      /\ \A c \in clicks : Carried(c) /\ "others" \notin behind => line[c.entry] = c.target
  BY <1>d DEF OneClick
<1>t. line \in [QueueRows -> Row] /\ \A c \in clicks : c \in Click /\ c.entry \in QueueRows
  BY DEF DeskTypes, Click
<1>1. CASE SomebodyJoins \/ OtherMoves
  BY <1>1, <1>o DEF SomebodyJoins, OtherMoves, ByOthers
<1>2. CASE Recalculate
  <2>1. \A e \in QueueRows : line'[e] = line[e]
    BY <1>2 DEF Recalculate
  <2>2. UNCHANGED behind
    BY <1>2, <1>d DEF Recalculate
  <2>3. CASE UNCHANGED clicks
    BY <2>1, <2>2, <2>3, <1>o, <1>t
  <2>4. CASE \E c \in clicks, n \in Click :
               /\ c.at = "moved" /\ clicks' = (clicks \ {c}) \cup {n}
               /\ n.entry = c.entry /\ n.target = c.target /\ n.reread = c.reread
    BY <2>1, <2>2, <2>4, <1>o, <1>t DEF Carried
  <2>5. QED
    BY <1>2, <2>3, <2>4, EndedOne DEF Recalculate
<1>3. CASE RecalculateFails
  <2>1. UNCHANGED line /\ behind \subseteq behind'
    BY <1>3 DEF RecalculateFails
  <2>2. CASE UNCHANGED clicks
    BY <2>1, <2>2, <1>o
  <2>3. CASE \E c \in clicks, n \in Click : clicks' = (clicks \ {c}) \cup {n} /\ n.at = "failed"
    BY <2>1, <2>3, <1>o DEF Carried
  <2>4. QED
    BY <1>3, <2>2, <2>3, EndedOne DEF RecalculateFails
<1>4. CASE ListIsRead
  BY <1>4, <1>o, MarkedClicks DEF Carried
<1>5. CASE ClickList
  <2>1. PICK offer \in ListOffers : clicks = {} /\ SendClick(offer)
    BY <1>5 DEF ClickList
  <2>2. PICK n : clicks' = {n} /\ n.at = "sent"
    BY <2>1, AddedClick
  <2>3. QED
    BY <2>2 DEF Carried
<1>6. CASE Update
  <2>1. PICK c \in clicks : /\ line' = [line EXCEPT ![c.entry] = c.target]
                            /\ Answer(c, "moved")
    BY <1>6 DEF Update
  <2>2. PICK n : /\ clicks' = (clicks \ {c}) \cup {n}
                 /\ n.entry = c.entry /\ n.target = c.target
    BY <2>1, AnsweredClick
  <2>3. line'[c.entry] = c.target
    BY <2>1, <1>t DEF Row
  <2>4. QED
    BY <2>2, <2>3, <1>o
<1>7. CASE Refuse
  <2>1. PICK c \in clicks : Answer(c, "refused") /\ UNCHANGED line /\ UNCHANGED behind
    BY <1>7 DEF Refuse
  <2>2. PICK n : clicks' = (clicks \ {c}) \cup {n} /\ n.at = "refused"
    BY <2>1, AnsweredClick
  <2>3. QED
    BY <2>1, <2>2, <1>o DEF Carried
<1>8. CASE ClickAnswered \/ ClickRefused
  BY <1>8, <1>o DEF ClickAnswered, ClickRefused
<1>9. CASE Refresh \/ ListAnswered \/ ListFails \/ CountOne \/ StatsAnswered \/ StatsFail \/ UNCHANGED deskVars
  BY <1>9, <1>o DEF Refresh, ListAnswered, ListFails, CountOne, StatsAnswered, StatsFail, deskVars
<1>10. CASE Midnight \/ HomeHears \/ ClickDetails
  BY <1>10, <1>d DEF Midnight, HomeHears, ClickDetails
<1>11. QED
  BY <1>1, <1>2, <1>3, <1>4, <1>5, <1>6, <1>7, <1>8, <1>9, <1>10 DEF DeskNext

(* A list that was read is right until somebody moves a row.               *)
LEMMA ReadAgreesNext == DeskTypes /\ ReadAgrees /\ [DeskNext]_deskVars => ReadAgrees'
<1> SUFFICES ASSUME DeskTypes, ReadAgrees, [DeskNext]_deskVars, desk' # "home", listRead'.at = "read"
             PROVE  /\ behind' \cap {"others", "overtaken", "unsaid"} = {} =>
                         \A e \in QueueRows : Agrees(listRead.list, e)'
                    /\ "overtaken" \notin behind' => \A c \in clicks' : ~Carried(c)
  BY DEF ReadAgrees, Agrees, Carried
<1>d. desk # "home"
  BY SameDesk
<1>o. listRead.at = "read" =>
        /\ behind \cap {"others", "overtaken", "unsaid"} = {} => \A e \in QueueRows : Agrees(listRead.list, e)
        /\ "overtaken" \notin behind => \A c \in clicks : ~Carried(c)
  BY <1>d DEF ReadAgrees
<1>t. line \in [QueueRows -> Row]
  BY DEF DeskTypes
<1>s. ASSUME UNCHANGED listRead, \A e \in QueueRows : line'[e] = line[e]
      PROVE  \A e \in QueueRows : Agrees(listRead.list, e) => Agrees(listRead.list, e)'
  BY <1>s DEF Agrees
<1>1. CASE SomebodyJoins \/ OtherMoves
  BY <1>1, <1>o DEF SomebodyJoins, OtherMoves, ByOthers
<1>2. CASE Recalculate
  <2>1. \A e \in QueueRows : line'[e] = line[e]
    BY <1>2 DEF Recalculate
  <2>2. UNCHANGED <<behind, listRead>>
    BY <1>2, <1>d DEF Recalculate
  <2>3. (\A c \in clicks : ~Carried(c)) => \A c \in clicks' : ~Carried(c)
    BY <1>2, EndedOne DEF Recalculate, Carried
  <2>4. QED
    BY <2>1, <2>2, <2>3, <1>o, <1>s
<1>3. CASE RecalculateFails
  <2>1. (\A c \in clicks : ~Carried(c)) => \A c \in clicks' : ~Carried(c)
    BY <1>3, EndedOne DEF RecalculateFails, Carried
  <2>2. QED
    BY <1>3, <2>1, <1>o DEF RecalculateFails
<1>4. CASE ListIsRead
  <2>1. listRead'.list = ActiveRows /\ UNCHANGED line
    BY <1>4 DEF ListIsRead
  <2>2. \A e \in QueueRows : Agrees(listRead.list, e)'
    BY <2>1 DEF Agrees, ActiveRows, Joined, ActiveStatuses
  <2>3. QED
    BY <1>4, <2>2, MarkedClicks DEF Carried
<1>5. CASE ClickList \/ ClickDetails
  <2>1. UNCHANGED <<line, listRead, behind>>
    BY <1>5 DEF ClickList, ClickDetails
  <2>2. PICK offer \in ListOffers \cup DetailsOffer : SendClick(offer)
    BY <1>5 DEF ClickList, ClickDetails
  <2>3. PICK n : clicks' = clicks \cup {n} /\ n.at = "sent"
    BY <2>2, AddedClick
  <2>4. QED
    BY <2>1, <2>3, <1>o, <1>s DEF Carried
<1>6. CASE Update
  BY <1>6 DEF Update
<1>7. CASE Refuse
  <2>1. PICK c \in clicks : Answer(c, "refused") /\ UNCHANGED <<line, listRead, behind>>
    BY <1>7 DEF Refuse
  <2>2. PICK n : clicks' = (clicks \ {c}) \cup {n} /\ n.at = "refused"
    BY <2>1, AnsweredClick
  <2>3. QED
    BY <2>1, <2>2, <1>o, <1>s DEF Carried
<1>8. CASE ClickAnswered \/ ClickRefused
  <2>1. UNCHANGED line /\ clicks' \subseteq clicks /\ behind \subseteq behind'
    BY <1>8 DEF ClickAnswered, ClickRefused
  <2>2. UNCHANGED listRead
    BY <1>8 DEF ClickAnswered, ClickRefused, AskList, NoListRead
  <2>3. QED
    BY <2>1, <2>2, <1>o, <1>s
<1>9. CASE CountOne \/ StatsAnswered \/ StatsFail \/ UNCHANGED deskVars
  <2>1. UNCHANGED <<line, listRead, clicks>> /\ behind \subseteq behind'
    BY <1>9 DEF CountOne, StatsAnswered, StatsFail, deskVars
  <2>2. QED
    BY <2>1, <1>o, <1>s
<1>10. CASE Refresh \/ ListAnswered \/ ListFails \/ Midnight \/ HomeHears
  BY <1>10, <1>d DEF Refresh, AskList, ListAnswered, ListFails, Midnight, HomeHears, NoListRead
<1>11. QED
  BY <1>1, <1>2, <1>3, <1>4, <1>5, <1>6, <1>7, <1>8, <1>9, <1>10 DEF DeskNext

(* Every row is shown right, or the answer of its click is on its way.     *)
LEMMA ShownAgreesNext ==
  DeskTypes /\ SentAsOffered /\ OneClick /\ ReadAgrees /\ ShownAgrees /\ [DeskNext]_deskVars => ShownAgrees'
<1> DEFINE Shown(e) == Agrees(listed, e) \/ (e \in DOMAIN listed /\ \E c \in clicks : c.entry = e /\ Carried(c))
<1> SUFFICES ASSUME DeskTypes, SentAsOffered, OneClick, ReadAgrees, ShownAgrees, [DeskNext]_deskVars,
                    desk' # "home", listRead'.at = "none", behind' = {},
                    NEW e \in QueueRows
             PROVE  Shown(e)'
  BY DEF ShownAgrees
<1>d. desk \in {"list", "details"} /\ desk' = desk
  BY SameDesk DEF DeskTypes
<1>o. listRead.at = "none" /\ behind = {} => Shown(e)
  BY <1>d DEF ShownAgrees
<1>t. line \in [QueueRows -> Row] /\ \A c \in clicks : c.entry \in QueueRows
  BY DEF DeskTypes, Click
<1>s. ASSUME UNCHANGED listed, line'[e] = line[e],
             \A c \in clicks : Carried(c) => \E n \in clicks' : n.entry = c.entry /\ Carried(n)
      PROVE  Shown(e) => Shown(e)'
  <2>1. Agrees(listed, e) => Agrees(listed, e)'
    BY <1>s DEF Agrees
  <2>2. (\E c \in clicks : c.entry = e /\ Carried(c)) => \E n \in clicks' : n.entry = e /\ Carried(n)
    BY <1>s
  <2>3. QED
    BY <1>s, <2>1, <2>2 DEF Carried
<1>1. CASE Recalculate
  <2>1. line'[e] = line[e]
    BY <1>1 DEF Recalculate
  <2>2. UNCHANGED <<listed, listRead, behind>>
    BY <1>1, <1>d DEF Recalculate
  <2>3. \A c \in clicks : Carried(c) => \E n \in clicks' : n.entry = c.entry /\ Carried(n)
    BY <1>1, EndedOne DEF Recalculate, Carried
  <2>4. QED
    BY <2>1, <2>2, <2>3, <1>o, <1>s
<1>2. CASE ListAnswered
  <2>1. listRead.at = "read" /\ behind \cap {"others", "overtaken", "unsaid"} = {}
    BY <1>2 DEF ListAnswered
  <2>2. Agrees(listRead.list, e)
    BY <2>1, <1>d DEF ReadAgrees
  <2>3. QED
    BY <1>2, <2>2 DEF ListAnswered, Agrees
<1>3. CASE ClickList \/ ClickDetails
  <2>1. clicks \subseteq clicks'
    BY <1>3 DEF ClickList, ClickDetails, SendClick
  <2>2. QED
    BY <1>3, <2>1, <1>o, <1>s DEF ClickList, ClickDetails
<1>4. CASE Update
  <2>1. PICK c \in clicks :
          /\ c.at = "sent" /\ IsValidTransition(line[c.entry], c.target)
          /\ line' = [line EXCEPT ![c.entry] = c.target]
          /\ Answer(c, "moved") /\ UNCHANGED <<listed, listRead>>
          /\ behind' = IF listRead.at = "read" THEN behind \cup {"overtaken"} ELSE behind
    BY <1>4 DEF Update
  <2>2. PICK n : /\ clicks' = (clicks \ {c}) \cup {n}
                 /\ n.at = "moved" /\ n.entry = c.entry /\ n.reread = c.reread
    BY <2>1, AnsweredClick
  <2>3. ~Carried(c) /\ ~c.reread
    BY <2>1 DEF Carried, SentAsOffered
  <2>4. Shown(e)
    BY <2>1, <1>o
  <2>5. CASE e = c.entry
    <3>1. e \in DOMAIN listed
      BY <2>1, <2>4, <2>5 DEF Agrees, IsValidTransition, ValidNextStatuses, ActiveStatuses
    <3>2. QED
      BY <2>1, <2>2, <2>3, <2>5, <3>1 DEF Carried
  <2>6. CASE e # c.entry
    <3>1. line'[e] = line[e]
      BY <2>1, <2>6, <1>t
    <3>2. \A d \in clicks : Carried(d) => d \in clicks'
      BY <2>2, <2>3
    <3>3. QED
      BY <2>1, <2>4, <3>1, <3>2, <1>s
  <2>7. QED
    BY <2>5, <2>6
<1>5. CASE Refuse
  <2>1. PICK c \in clicks : c.at = "sent" /\ Answer(c, "refused") /\ UNCHANGED <<line, listed, listRead, behind>>
    BY <1>5 DEF Refuse
  <2>2. \A d \in clicks : Carried(d) => d \in clicks'
    BY <2>1 DEF Answer, Carried
  <2>3. QED
    BY <2>1, <2>2, <1>o, <1>s
<1>6. CASE ClickAnswered
  <2>1. PICK c \in clicks :
          /\ c.at = "done" /\ clicks' = clicks \ {c} /\ listed' = Patched(c) /\ UNCHANGED line
          /\ IF desk = "details" THEN AskList ELSE UNCHANGED listRead
          /\ behind' = IF c.reread THEN behind \cup {"overtaken"} ELSE behind
    BY <1>6 DEF ClickAnswered
  <2>2. desk = "list"
    BY <2>1, <1>d DEF AskList, NoListRead
  <2>3. Carried(c) /\ behind = {} /\ listRead.at = "none"
    BY <2>1, <2>2 DEF Carried
  <2>4. /\ line[c.entry] = c.target
        /\ \A d \in clicks : d = c
    BY <2>2, <2>3 DEF OneClick
  <2>5. Shown(e)
    BY <2>3, <1>o
  <2>6. CASE e = c.entry
    BY <2>1, <2>4, <2>5, <2>6 DEF Agrees, Patched
  <2>7. CASE e # c.entry
    <3>1. Agrees(listed, e)
      BY <2>4, <2>5, <2>7
    <3>2. QED
      BY <2>1, <2>7, <3>1 DEF Agrees, Patched
  <2>8. QED
    BY <2>6, <2>7
<1>7. CASE ClickRefused
  <2>1. \A d \in clicks : Carried(d) => d \in clicks'
    BY <1>7 DEF ClickRefused, Carried
  <2>2. QED
    BY <1>7, <2>1, <1>o, <1>s DEF ClickRefused
<1>8. CASE CountOne \/ StatsAnswered \/ StatsFail \/ UNCHANGED deskVars
  <2>1. UNCHANGED <<line, listed, listRead, clicks, behind>>
    BY <1>8 DEF CountOne, StatsAnswered, StatsFail, deskVars
  <2>2. QED
    BY <2>1, <1>o, <1>s
<1>9. CASE SomebodyJoins \/ OtherMoves \/ RecalculateFails \/ ListFails
  BY <1>9 DEF SomebodyJoins, OtherMoves, ByOthers, RecalculateFails, ListFails
<1>10. CASE Refresh \/ ListIsRead \/ Midnight \/ HomeHears
  BY <1>10, <1>d DEF Refresh, AskList, NoListRead, ListIsRead, Midnight, HomeHears
<1>11. QED
  BY <1>1, <1>2, <1>3, <1>4, <1>5, <1>6, <1>7, <1>8, <1>9, <1>10 DEF DeskNext

LEMMA DeskInvNext == DeskInv /\ [DeskNext]_deskVars => DeskInv'
  BY DeskTypesNext, SentAsOfferedNext, OneClickNext, ReadAgreesNext, ShownAgreesNext DEF DeskInv

LEMMA DeskInvAlways == DeskSpec => []DeskInv
  BY DeskInvInit, DeskInvNext, PTL DEF DeskSpec

(* What the list and the details show when nothing is under way is what    *)
(* the database holds, for a queue of any length and any number of clicks. *)
THEOREM Settles == DeskSpec => []DeskSettles
<1>1. DeskInv => DeskSettles
  <2> SUFFICES ASSUME DeskInv, desk # "home", behind = {}, clicks = {}, listRead.at = "none"
               PROVE  /\ \A e \in DOMAIN ActiveRows : e \in DOMAIN listed /\ listed[e] = line[e]
                      /\ \A e \in DOMAIN listed : listed[e] = line[e]
    BY DEF DeskSettles
  <2>1. \A e \in QueueRows : Agrees(listed, e)
    BY DEF DeskInv, ShownAgrees
  <2>2. DOMAIN listed \subseteq QueueRows
    BY DEF DeskInv, DeskTypes, IsList
  <2>3. \A e \in DOMAIN ActiveRows : e \in QueueRows /\ line[e] \in ActiveStatuses
    BY DEF ActiveRows, Joined
  <2>4. QED
    BY <2>1, <2>2, <2>3 DEF Agrees
<1>2. QED
  BY <1>1, DeskInvAlways, PTL

(* A step refuses a click only for one of the three reasons.               *)
LEMMA StepRefuses ==
  ASSUME DeskInv, [DeskNext]_deskVars,
         NEW n \in clicks' \ clicks, n.at = "refused"
  PROVE  line[n.entry] # n.shown \/ <<n.shown, n.target>> \in NeverWorks
<1> USE DEF DeskInv
<1>1. CASE Refuse
  <2>1. PICK c \in clicks :
          c.at = "sent" /\ ~IsValidTransition(line[c.entry], c.target) /\ Answer(c, "refused")
    BY <1>1 DEF Refuse
  <2>2. n.entry = c.entry /\ n.target = c.target /\ n.shown = c.shown
    BY <2>1, AnsweredClick
  <2>3. QED
    BY <2>1, <2>2 DEF SentAsOffered
<1>2. CASE Recalculate \/ RecalculateFails
  BY <1>2, EndedOne DEF Recalculate, RecalculateFails
<1>3. CASE ListIsRead
  BY <1>3, MarkedClicks
<1>4. CASE ClickList \/ ClickDetails
  <2>1. PICK offer \in ListOffers \cup DetailsOffer : SendClick(offer)
    BY <1>4 DEF ClickList, ClickDetails
  <2>2. QED
    BY <2>1, AddedClick
<1>5. CASE Update
  <2>1. PICK c \in clicks : Answer(c, "moved")
    BY <1>5 DEF Update
  <2>2. QED
    BY <2>1, AnsweredClick
<1>6. CASE ClickAnswered \/ ClickRefused
  BY <1>6 DEF ClickAnswered, ClickRefused
<1>7. CASE SomebodyJoins \/ OtherMoves \/ Refresh \/ ListAnswered \/ ListFails \/ CountOne \/ StatsAnswered \/ StatsFail
           \/ Midnight \/ HomeHears \/ UNCHANGED deskVars
  BY <1>7
     DEF SomebodyJoins, OtherMoves, Refresh, ListAnswered, ListFails, CountOne, StatsAnswered, StatsFail, Midnight, HomeHears, deskVars
<1>8. QED
  BY <1>1, <1>2, <1>3, <1>4, <1>5, <1>6, <1>7 DEF DeskNext

(* Behind every refusal, whatever the clicks and the other devices do, is  *)
(* a row that was not as the screen showed it, or a button that never      *)
(* works.                                                                  *)
THEOREM RefusedForCause == DeskSpec => DeskRefusedForCause
<1>1. DeskInv /\ [DeskNext]_deskVars =>
        [\A c \in clicks' \ clicks : c.at = "refused" =>
           \/ line[c.entry] # c.shown
           \/ <<c.shown, c.target>> \in NeverWorks]_deskVars
  BY StepRefuses
<1>2. QED
  BY <1>1, DeskInvAlways, PTL DEF DeskSpec, DeskRefusedForCause

-----------------------------------------------------------------------------
(* The figures of the home page.                                           *)

\* The figures depend on the rows and on the day alone.
LEMMA SameFigures ==
  ASSUME line \in [QueueRows -> Row], \A e \in QueueRows : line'[e] = line[e], past' = past
  PROVE  Figures' = Figures
<1>1. Joined' = Joined
  BY DEF Joined
<1>2. ASSUME NEW status
      PROVE  {e \in Joined : line'[e] = status} = {e \in Joined : line[e] = status}
  BY DEF Joined
<1>3. QED
  BY <1>1, <1>2 DEF Figures, With, ServedAfter

\* Requests that have not counted.
LEMMA FreshStats ==
  /\ IsStatsRead(NoStatsRead) /\ CountedRight(NoStatsRead) /\ NoStatsRead.at = "none"
  /\ IsStatsRead(StatsAsked) /\ CountedRight(StatsAsked) /\ StatsAsked.at = "asked" /\ StatsAsked.before = past
<1>1. NoFigures = [waiting |-> NoFigures.waiting, serving |-> NoFigures.serving, served |-> NoFigures.served]
  BY DEF NoFigures
<1>2. StatsAsked = [at |-> "asked", counted |-> {}, figures |-> NoFigures, before |-> past]
  BY DEF StatsAsked
<1>3. NoStatsRead = [at |-> "none", counted |-> {}, figures |-> NoFigures, before |-> {}]
  BY DEF NoStatsRead
<1>4. IsStatsRead(StatsAsked)
  BY <1>1, <1>2 DEF IsStatsRead
<1>5. IsStatsRead(NoStatsRead)
  BY <1>1, <1>3 DEF IsStatsRead
<1>6. QED
  BY <1>2, <1>3, <1>4, <1>5 DEF CountedRight

LEMMA StatsReadsNext ==
  ASSUME FiguresFollow, [DeskNext]_deskVars
  PROVE  IsStatsRead(statsRead)' /\ unsaid' \in Nat /\ news' \in Nat
<1>f. IsStatsRead(statsRead) /\ unsaid \in Nat /\ news \in Nat
  BY DEF FiguresFollow
<1>1. unsaid' \in Nat
  <2>1. \/ unsaid' = unsaid \/ unsaid' = unsaid + 1
        \/ unsaid > 0 /\ unsaid' = unsaid - 1
    <3>1. CASE SomebodyJoins \/ OtherMoves
      BY <3>1 DEF SomebodyJoins, OtherMoves, ByOthers
    <3>2. CASE Recalculate \/ RecalculateFails
      BY <3>2 DEF Recalculate, RecalculateFails, EndsOne
    <3>3. CASE ~SomebodyJoins /\ ~OtherMoves /\ ~Recalculate /\ ~RecalculateFails
      BY <3>3 DEF DeskNext, Refresh, ListIsRead, ListAnswered, ListFails, CountOne, StatsAnswered, StatsFail, Midnight, HomeHears,
                  ClickList, ClickDetails, Update, Refuse, ClickAnswered, ClickRefused, deskVars
    <3>4. QED
      BY <3>1, <3>2, <3>3
  <2>2. QED
    BY <2>1, <1>f
<1>2. news' \in Nat
  <2>1. \/ news' = news \/ news' = news + 1
        \/ news > 0 /\ news' = news - 1
    <3>1. CASE Recalculate
      BY <3>1 DEF Recalculate
    <3>2. CASE HomeHears
      BY <3>2 DEF HomeHears
    <3>3. CASE ~Recalculate /\ ~HomeHears
      BY <3>3 DEF DeskNext, SomebodyJoins, OtherMoves, RecalculateFails, Refresh, ListIsRead, ListAnswered,
                  ListFails, CountOne, StatsAnswered, StatsFail, Midnight, ClickList, ClickDetails, Update, Refuse, ClickAnswered,
                  ClickRefused, deskVars
    <3>4. QED
      BY <3>1, <3>2, <3>3
  <2>2. QED
    BY <2>1, <1>f
<1>3. CASE CountOne
  <2>1. PICK f \in {"waiting", "serving", "served"} : \E count :
          statsRead' = [statsRead EXCEPT !.counted = @ \cup {f}, !.figures[f] = count]
    BY <1>3 DEF CountOne, NoFigures
  <2>2. statsRead.at = "asked"
    BY <1>3 DEF CountOne
  <2>c. PICK count : statsRead' = [statsRead EXCEPT !.counted = @ \cup {f}, !.figures[f] = count]
    BY <2>1
  <2>r. statsRead' = [at |-> "asked", counted |-> statsRead.counted \cup {f},
                      figures |-> [statsRead.figures EXCEPT ![f] = count], before |-> statsRead.before]
    BY <2>c, <2>2, <1>f DEF IsStatsRead
  <2>g. [statsRead.figures EXCEPT ![f] = count] =
          [waiting |-> IF f = "waiting" THEN count ELSE statsRead.figures.waiting,
           serving |-> IF f = "serving" THEN count ELSE statsRead.figures.serving,
           served |-> IF f = "served" THEN count ELSE statsRead.figures.served]
    BY <1>f DEF IsStatsRead
  <2>3. IsStatsRead(statsRead')
    BY <2>r, <2>g DEF IsStatsRead
  <2>4. QED
    BY <2>3, <1>1, <1>2 DEF IsStatsRead, NoStatsRead, NoFigures
<1>4. CASE StatsAnswered \/ StatsFail \/ HomeHears
  <2>1. statsRead' \in {NoStatsRead, StatsAsked, statsRead}
    BY <1>4 DEF StatsAnswered, StatsFail, HomeHears, AskStats
  <2>2. IsStatsRead(statsRead')
    BY <2>1, <1>f, FreshStats
  <2>3. QED
    BY <2>2, <1>1, <1>2 DEF IsStatsRead, NoStatsRead, NoFigures
<1>5. CASE ~CountOne /\ ~StatsAnswered /\ ~StatsFail /\ ~HomeHears
  <2>1. UNCHANGED statsRead
    BY <1>5 DEF DeskNext, SomebodyJoins, OtherMoves, Recalculate, RecalculateFails, Refresh,
               Midnight, ListIsRead, ListAnswered, ListFails, ClickList, ClickDetails,
               Update, Refuse, ClickAnswered, ClickRefused, deskVars
  <2>2. QED
    BY <2>1, <1>1, <1>2, <1>f DEF IsStatsRead, NoStatsRead, NoFigures
<1>6. QED
  BY <1>3, <1>4, <1>5

LEMMA FiguresFollowNext == DeskTypes /\ FiguresFollow /\ [DeskNext]_deskVars => FiguresFollow'
<1> SUFFICES ASSUME DeskTypes, FiguresFollow, [DeskNext]_deskVars, desk = "home"
             PROVE  /\ clicks' = {} /\ listRead'.at = "none"
                    /\ \/ NewsToCome'
                       \/ /\ CountedRight(statsRead)'
                          /\ IF statsRead'.at = "none" THEN kpis' = Figures' ELSE statsRead'.before = past'
  BY StatsReadsNext, SameDesk DEF FiguresFollow
<1>h. /\ clicks = {} /\ listRead.at = "none" /\ unsaid \in Nat /\ news \in Nat /\ IsStatsRead(statsRead)
      /\ line \in [QueueRows -> Row]
  BY DEF FiguresFollow, DeskTypes
<1>f. \/ NewsToCome
      \/ /\ CountedRight(statsRead)
         /\ IF statsRead.at = "none" THEN kpis = Figures ELSE statsRead.before = past
  BY DEF FiguresFollow
<1>1. CASE SomebodyJoins \/ OtherMoves
  <2>1. unsaid' > 0
    BY <1>1, <1>h DEF SomebodyJoins, OtherMoves, ByOthers
  <2>2. UNCHANGED <<clicks, listRead>>
    BY <1>1 DEF SomebodyJoins, OtherMoves
  <2>3. QED
    BY <2>1, <2>2, <1>h DEF NewsToCome
<1>2. CASE Recalculate
  <2>1. (news' > 0 \/ "unheard" \in behind') /\ UNCHANGED <<clicks, listRead>>
    BY <1>2, <1>h DEF Recalculate, EndsOne
  <2>2. QED
    BY <2>1, <1>h DEF NewsToCome, Uncounted
<1>3. CASE RecalculateFails
  <2>1. "unsaid" \in behind' /\ UNCHANGED <<clicks, listRead>>
    BY <1>3, <1>h DEF RecalculateFails, EndsOne
  <2>2. QED
    BY <2>1, <1>h DEF NewsToCome, Uncounted
<1>4. CASE CountOne
  <2>f. PICK f \in {"waiting", "serving", "served"} :
          \E count \in {Figures[f]} \cup (IF f = "served" THEN {ServedAfter(statsRead.before)} ELSE {}) :
            statsRead' = [statsRead EXCEPT !.counted = @ \cup {f}, !.figures[f] = count]
    BY <1>4 DEF CountOne, NoFigures
  <2>1. PICK count \in {Figures[f]} \cup (IF f = "served" THEN {ServedAfter(statsRead.before)} ELSE {}) :
          statsRead' = [statsRead EXCEPT !.counted = @ \cup {f}, !.figures[f] = count]
    BY <2>f
  <2>2. /\ statsRead.at = "asked"
        /\ UNCHANGED <<desk, line, past, others, unsaid, news, listed, listRead, kpis, clicks, behind>>
    BY <1>4 DEF CountOne
  <2>3. Figures' = Figures /\ NewsToCome' = NewsToCome
    BY <2>2, <1>h, SameFigures DEF NewsToCome
  <2>4. /\ statsRead'.at = "asked" /\ statsRead'.counted = statsRead.counted \cup {f}
        /\ statsRead'.figures = [statsRead.figures EXCEPT ![f] = count]
        /\ statsRead'.before = statsRead.before
    BY <2>1, <2>2, <1>h DEF IsStatsRead
  <2>5. ~NewsToCome => CountedRight(statsRead) /\ statsRead.before = past
    BY <2>2, <1>f
  <2>6. ~NewsToCome => count = Figures[f]
    BY <2>1, <2>5 DEF Figures
  <2>7. ~NewsToCome => CountedRight(statsRead)'
    BY <2>3, <2>4, <2>5, <2>6, <1>h DEF CountedRight, IsStatsRead, Figures
  <2>8. QED
    BY <2>2, <2>3, <2>4, <2>5, <2>7, <1>h
<1>5. CASE StatsAnswered
  <2>1. /\ statsRead.counted = {"waiting", "serving", "served"}
        /\ statsRead' = NoStatsRead /\ kpis' = statsRead.figures
        /\ UNCHANGED <<desk, line, past, others, unsaid, news, listed, listRead, clicks, behind>>
    BY <1>5 DEF StatsAnswered, NoFigures
  <2>2. Figures' = Figures /\ NewsToCome' = NewsToCome
    BY <2>1, <1>h, SameFigures DEF NewsToCome
  <2>3. CountedRight(statsRead) => statsRead.figures = Figures
    BY <2>1, <1>h DEF CountedRight, IsStatsRead, Figures
  <2>4. CountedRight(statsRead)' /\ statsRead'.at = "none"
    BY <2>1 DEF CountedRight, NoStatsRead
  <2>5. QED
    BY <2>1, <2>2, <2>3, <2>4, <1>f, <1>h
<1>6. CASE HomeHears
  <2>1. UNCHANGED <<clicks, listRead>>
    BY <1>6 DEF HomeHears
  <2>2. CASE statsRead.at = "none"
    <3>1. statsRead' = StatsAsked /\ UNCHANGED past
      BY <1>6, <2>2 DEF HomeHears, AskStats
    <3>2. CountedRight(statsRead)' /\ statsRead'.at # "none" /\ statsRead'.before = past'
      BY <3>1 DEF CountedRight, StatsAsked, NoStatsRead
    <3>3. QED
      BY <2>1, <3>2, <1>h
  <2>3. CASE statsRead.at # "none"
    <3>1. "shared" \in behind'
      BY <1>6, <2>3 DEF HomeHears
    <3>2. QED
      BY <2>1, <3>1, <1>h DEF NewsToCome, Uncounted
  <2>4. QED
    BY <2>2, <2>3
<1>7. CASE UNCHANGED deskVars
  <2>1. UNCHANGED <<line, past, unsaid, news, listRead, statsRead, kpis, clicks, behind>>
    BY <1>7 DEF deskVars
  <2>2. Figures' = Figures /\ NewsToCome' = NewsToCome
    BY <2>1, <1>h, SameFigures DEF NewsToCome
  <2>3. CountedRight(statsRead) => CountedRight(statsRead)'
    BY <2>1, <2>2 DEF CountedRight
  <2>4. QED
    BY <2>1, <2>2, <2>3, <1>f, <1>h
<1>8. CASE StatsFail
  <2>1. "uncounted" \in behind' /\ UNCHANGED <<clicks, listRead>>
    BY <1>8 DEF StatsFail
  <2>2. QED
    BY <2>1, <1>h DEF NewsToCome, Uncounted
<1>9. CASE Midnight
  <2>1. "midnight" \in behind' /\ UNCHANGED <<clicks, listRead>>
    BY <1>9 DEF Midnight
  <2>2. QED
    BY <2>1, <1>h DEF NewsToCome, Uncounted
<1>10. /\ ~Refresh /\ ~ListIsRead /\ ~ListAnswered /\ ~ListFails /\ ~ClickList /\ ~ClickDetails
       /\ ~Update /\ ~Refuse /\ ~ClickAnswered /\ ~ClickRefused
  BY <1>h DEF Refresh, ListIsRead, ListAnswered, ListFails, ClickList, ClickDetails, Update, Refuse,
              ClickAnswered, ClickRefused
<1>11. QED
  BY <1>1, <1>2, <1>3, <1>4, <1>5, <1>6, <1>7, <1>8, <1>9, <1>10 DEF DeskNext

(* dashboard-home.page.ts loadKpis and the reload at every QUEUE_UPDATED:  *)
(* once nothing is under way, the three figures, which the API counts one  *)
(* after another while others join and move, are those of the database,    *)
(* unless a request shared the answer of an earlier one or failed, a       *)
(* broadcast never came, because its recalculation failed or the socket    *)
(* was not connected, or midnight has passed; for a queue of any length    *)
(* and any number of other devices.                                        *)
THEOREM FiguresSettled == DeskSpec => []FiguresSettle
<1>1. DeskInit => FiguresFollow
  <2> SUFFICES ASSUME DeskInit
               PROVE  FiguresFollow
    OBVIOUS
  <2>1. statsRead \in {NoStatsRead, StatsAsked}
    BY DEF DeskInit
  <2>2. IsStatsRead(statsRead) /\ CountedRight(statsRead)
    BY <2>1, FreshStats
  <2>3. desk = "home" =>
          statsRead.at = "asked" /\ statsRead.before = past /\ clicks = {} /\ listRead.at = "none"
    BY FreshStats DEF DeskInit, NoListRead
  <2>4. unsaid \in Nat /\ news \in Nat
    BY DEF DeskInit
  <2>5. QED
    BY <2>2, <2>3, <2>4 DEF FiguresFollow
<1>2. DeskInv /\ FiguresFollow /\ [DeskNext]_deskVars => FiguresFollow'
  BY FiguresFollowNext DEF DeskInv
<1>3. FiguresFollow => FiguresSettle
  BY DEF FiguresFollow, FiguresSettle, NewsToCome
<1>4. QED
  BY <1>1, <1>2, <1>3, DeskInvAlways, PTL DEF DeskSpec
=============================================================================
