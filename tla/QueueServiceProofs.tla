------------------------- MODULE QueueServiceProofs -------------------------
(***************************************************************************)
(* Theorems about QueueService, for any number of entries, requests,       *)
(* barbers, priorities and failures.                                       *)
(***************************************************************************)
EXTENDS QueueService, FiniteSetTheorems, TLAPS

(* The number recalculateQueue gives to an entry is 1 or more: only the    *)
(* insert of joinQueue writes position 0.                                  *)
LEMMA RankIsPositive ==
  ASSUME NEW S \in SUBSET Entries, NEW e \in Entries
  PROVE  Rank(S, e) \in Nat /\ Rank(S, e) # 0
<1>1. IsFiniteSet({d \in S : Ahead(d, e)})
  <2>1. {d \in S : Ahead(d, e)} \subseteq Entries
    OBVIOUS
  <2>2. IsFiniteSet(Entries)
    BY QueueAssumption
  <2>3. QED
    BY <2>1, <2>2, FS_Subset
<1>2. Cardinality({d \in S : Ahead(d, e)}) \in Nat
  BY <1>1, FS_CardinalityType
<1>3. QED
  BY <1>2 DEF Rank

(* The transition table never leads back to those who wait, and only leads *)
(* to statuses.                                                            *)
LEMMA NoWayBackToWaiting ==
  ASSUME NEW s, NEW t, IsValidTransition(s, t)
  PROVE  t \in Statuses /\ t # "WAITING"
BY DEF IsValidTransition, ValidNextStatuses, Statuses

-----------------------------------------------------------------------------
(* Types.                                                                  *)

LEMMA TypeOKInit == Init => TypeOK
BY QueueAssumption, SMT
   DEF Init, TypeOK, Idle, Request, Steps, Statuses, Scopes, Listed

(* The locals a step changes keep their types.                             *)
LEMMA ChangedRequest ==
  ASSUME NEW q \in Request, NEW step \in Steps,
         NEW S \in SUBSET Entries, NEW M \in SUBSET Entries, NEW L \in SUBSET Listed
  PROVE  /\ [q EXCEPT !.at = step] \in Request
         /\ [q EXCEPT !.at = step, !.batch = S, !.moved = M] \in Request
         /\ [q EXCEPT !.at = step, !.list = L] \in Request
         /\ [q EXCEPT !.at = step, !.todo = S] \in Request
         /\ [q EXCEPT !.todo = S, !.at = step] \in Request
         /\ [q EXCEPT !.todo = S] \in Request
BY DEF Request

\* Two requests at the same work, whatever they have met.
SameWork(p, q) ==
  /\ p.at = q.at /\ p.subject = q.subject /\ p.target = q.target /\ p.scope = q.scope
  /\ p.batch = q.batch /\ p.moved = q.moved /\ p.todo = q.todo /\ p.list = q.list

(* A request that begins changes of the others only whom they have met.    *)
LEMMA BeginsAlone ==
  ASSUME request \in [Requests -> Request], RequestsConsistent,
         NEW r \in Requests, NEW q \in Request, q.subject \in Entries, q.at # "idle", Begin(r, q)
  PROVE  /\ request' \in [Requests -> Request]
         /\ SameWork(request'[r], q)
         /\ request'[r].met = {request[o].subject : o \in {o \in Requests \ {r} : Runs(o)}}
         /\ \A p \in Requests \ {r} :
              /\ SameWork(request'[p], request[p])
              /\ Runs(p) => request'[p].met = request[p].met \cup {q.subject}
              /\ ~Runs(p) => request'[p] = request[p]
<1> DEFINE M == {request[o].subject : o \in {o \in Requests \ {r} : Runs(o)}}
<1>1. M \in SUBSET Entries
  BY DEF RequestsConsistent, RequestConsistent, Runs, At
<1>2. request' = [p \in Requests |->
        IF p = r THEN [q EXCEPT !.met = M]
        ELSE IF Runs(p) THEN [request[p] EXCEPT !.met = request[p].met \cup {q.subject}]
        ELSE request[p]]
  BY DEF Begin
<1>3. M = {request[o].subject : o \in {o \in Requests \ {r} : Runs(o)}}
  OBVIOUS
<1> HIDE DEF M
<1>4. /\ [q EXCEPT !.met = M] \in Request /\ SameWork([q EXCEPT !.met = M], q)
      /\ [q EXCEPT !.met = M].met = M
  BY <1>1 DEF Request, SameWork
<1>5. ASSUME NEW p \in Requests
      PROVE  LET x == [request[p] EXCEPT !.met = request[p].met \cup {q.subject}]
             IN /\ x \in Request /\ SameWork(x, request[p])
                /\ x.met = request[p].met \cup {q.subject}
  BY DEF Request, SameWork
<1>6. \A p : SameWork(request[p], request[p])
  BY DEF SameWork
<1>7. request' \in [Requests -> Request]
  BY <1>2, <1>4, <1>5
<1>8. QED
  BY <1>2, <1>3, <1>4, <1>5, <1>6, <1>7

LEMMA TypeOKNext == TypeOK /\ RequestsConsistent /\ [Next]_vars => TypeOK'
<1> SUFFICES ASSUME TypeOK, RequestsConsistent, [Next]_vars
             PROVE  TypeOK'
  OBVIOUS
<1> USE DEF TypeOK
<1>i. Idle \in Request
  BY DEF Idle, Request, Steps, Statuses, Scopes
<1>s. \A q \in Request, step \in Steps : [q EXCEPT !.at = step] \in Request
  BY ChangedRequest
<1>q. \A r \in Requests : request[r] \in Request
  OBVIOUS
<1>r. \A r \in Requests : /\ request[r].todo \in SUBSET Entries
                          /\ request[r].batch \in SUBSET Entries
                          /\ request[r].moved \in SUBSET Entries
                          /\ request[r].list \in SUBSET Listed
                          /\ request[r].target \in Statuses
                          /\ request[r].scope \in Scopes
                          /\ request[r].at \in Steps
  BY DEF Request
<1>u. \A r \in Requests : ~At(r, "idle") => request[r].subject \in Entries
  BY DEF RequestsConsistent, RequestConsistent, At
<1>w. {"WAITING", "LEFT"} \subseteq Statuses
  BY DEF Statuses
<1>x. {"idle", "create", "leave", "write", "snapshot", "serving", "save",
       "active", "publish", "claim", "clear", "abandoned"} = Steps
  BY DEF Steps
<1>1. ASSUME NEW r \in Requests, NEW e \in Entries, NEW b \in Scopes, NEW p \in Priorities, JoinAdmit(r, e, b, p)
      PROVE  TypeOK'
  <2>0. [Idle EXCEPT !.at = "create", !.subject = e, !.scope = b] \in Request
    BY <1>i, <1>x DEF Request
  <2>1. request' \in [Requests -> Request]
    BY <1>1, <2>0, <1>i, <1>x, BeginsAlone DEF JoinAdmit, Request, Idle
  <2>2. QED
    BY <1>1, <2>1, QueueAssumption DEF JoinAdmit, notifs
<1>2. ASSUME NEW r \in Requests, NEW e \in Entries, NEW s \in Targets, UpdateRead(r, e, s)
      PROVE  TypeOK'
  <2>0. [Idle EXCEPT !.at = "write", !.subject = e, !.target = s, !.scope = barber[e]] \in Request
    BY <1>i, <1>x, QueueAssumption DEF Request
  <2>1. request' \in [Requests -> Request]
    BY <1>2, <2>0, <1>i, <1>x, BeginsAlone DEF UpdateRead, Request, Idle
  <2>2. QED
    BY <1>2, <2>1 DEF UpdateRead, rows, notifs
<1>3. ASSUME NEW r \in Requests, NEW e \in Entries, LeaveRead(r, e)
      PROVE  TypeOK'
  <2>0. [Idle EXCEPT !.at = "leave", !.subject = e, !.target = "LEFT", !.scope = barber[e]] \in Request
    BY <1>i, <1>w, <1>x DEF Request
  <2>1. request' \in [Requests -> Request]
    BY <1>3, <2>0, <1>i, <1>x, BeginsAlone DEF LeaveRead, Request, Idle
  <2>2. QED
    BY <1>3, <2>1 DEF LeaveRead, rows, notifs
<1>4. ASSUME NEW r \in Requests, JoinCreate(r)
      PROVE  TypeOK'
  <2>1. request' \in [Requests -> Request]
    BY <1>4, <1>s, <1>x DEF JoinCreate, Continue
  <2>2. QED
    BY <1>4, <2>1, <1>w DEF JoinCreate, notifs
<1>5. ASSUME NEW r \in Requests, LeaveCheck(r)
      PROVE  TypeOK'
  <2>1. request' \in [Requests -> Request]
    <3>1. CASE IsValidTransition(status[request[r].subject], "LEFT")
      <4>1. request' = [request EXCEPT ![r] = [request[r] EXCEPT !.at = "write"]]
        BY <1>5, <3>1 DEF LeaveCheck, Continue
      <4>2. QED
        BY <4>1, <1>q, <1>s, <1>x
    <3>2. CASE ~(IsValidTransition(status[request[r].subject], "LEFT"))
      BY <1>5, <3>2, <1>i, <1>q, <1>s, <1>x DEF LeaveCheck, Continue, Finish
    <3>3. QED
      BY <3>1, <3>2
  <2>2. QED
    BY <1>5, <2>1 DEF LeaveCheck, rows, notifs
<1>6. ASSUME NEW r \in Requests, WriteStatus(r)
      PROVE  TypeOK'
  <2>1. request' \in [Requests -> Request]
    BY <1>6, <1>s, <1>x DEF WriteStatus, Continue
  <2>2. QED
    BY <1>6, <2>1, <1>r DEF WriteStatus, notifs
<1>7. ASSUME NEW r \in Requests, Snapshot(r)
      PROVE  TypeOK'
  <2> DEFINE S == QueuedIn(request[r].scope)
             M == {e \in S : position[e] \notin {0, Rank(S, e)}}
  <2>0. /\ [request[r] EXCEPT !.at = "publish"] \in Request
        /\ [request[r] EXCEPT !.at = "serving", !.batch = S, !.moved = M] \in Request
    <3>1. S \in SUBSET Entries /\ M \in SUBSET Entries
      BY DEF QueuedIn, InScope
    <3> HIDE DEF S, M
    <3>2. QED
      BY <3>1, <1>q, <1>x, ChangedRequest
  <2>1. request' \in [Requests -> Request]
    BY <1>7, <2>0 DEF Snapshot
  <2>2. QED
    BY <1>7, <2>1 DEF Snapshot, rows, notifs
<1>8. ASSUME NEW r \in Requests, EstimateWaits(r)
      PROVE  TypeOK'
  <2>1. request' \in [Requests -> Request]
    BY <1>8, <1>q, <1>r, <1>x, ChangedRequest DEF EstimateWaits
  <2>2. QED
    BY <1>8, <2>1 DEF EstimateWaits, rows, notifs
<1>9. ASSUME NEW r \in Requests, RejectEstimates(r)
      PROVE  TypeOK'
  <2>1. request' \in [Requests -> Request]
    BY <1>9, <1>i DEF RejectEstimates, Finish
  <2>2. QED
    BY <1>9, <2>1, <1>u DEF RejectEstimates, At, rows, notifs
<1>10. ASSUME NEW r \in Requests, NEW e \in Entries, SavePosition(r, e)
      PROVE  TypeOK'
  <2>0. /\ [request[r] EXCEPT !.todo = {}, !.at = "active"] \in Request
        /\ [request[r] EXCEPT !.todo = request[r].todo \ {e}] \in Request
    BY <1>q, <1>r, <1>x, ChangedRequest
  <2>1. request' \in [Requests -> Request]
    <3>1. CASE request[r].todo = {e}
      <4>1. request' = [request EXCEPT ![r] = [request[r] EXCEPT !.todo = {}, !.at = "active"]]
        BY <1>10, <3>1 DEF SavePosition
      <4>2. QED
        BY <4>1, <2>0
    <3>2. CASE ~(request[r].todo = {e})
      <4>1. request' = [request EXCEPT ![r] = [request[r] EXCEPT !.todo = request[r].todo \ {e}]]
        BY <1>10, <3>2 DEF SavePosition
      <4>2. QED
        BY <4>1, <2>0
    <3>3. QED
      BY <3>1, <3>2
  <2>2. QED
    BY <1>10, <2>1, RankIsPositive, <1>r DEF SavePosition, notifs
<1>11. ASSUME NEW r \in Requests, ReadActive(r)
      PROVE  TypeOK'
  <2> DEFINE L == ListOf(ActiveIn(request[r].scope))
  <2>0. [request[r] EXCEPT !.at = "publish", !.list = L] \in Request
    <3>1. L \in SUBSET Listed
      <4>1. \A e \in ActiveIn(request[r].scope) : <<e, status[e], position[e]>> \in Listed
        BY DEF Listed, ActiveIn, InScope, ActiveStatuses, Statuses
      <4>2. QED
        BY <4>1 DEF ListOf
    <3> HIDE DEF L
    <3>2. QED
      BY <3>1, <1>q, <1>x, ChangedRequest
  <2>1. request' \in [Requests -> Request]
    BY <1>11, <2>0 DEF ReadActive
  <2>2. QED
    BY <1>11, <2>1 DEF ReadActive, rows, notifs
<1>a. ASSUME NEW r \in Requests, AfterRecalculation(r)
      PROVE  request' \in [Requests -> Request]
  <2>1. [request[r] EXCEPT !.at = "clear", !.list = {}] \in Request
    BY <1>q, <1>x, ChangedRequest
  <2>2. QED
    BY <1>a, <1>i, <2>1 DEF AfterRecalculation, Finish, ClearsKey
<1>12. ASSUME NEW r \in Requests, Publish(r)
      PROVE  TypeOK'
  <2>1. request' \in [Requests -> Request]
    <3>1. CASE Heads(r) # {}
      <4>1. request' = [request EXCEPT ![r] = [request[r] EXCEPT !.at = "claim"]]
        BY <1>12, <3>1 DEF Publish, Continue
      <4>2. QED
        BY <4>1, <1>q, <1>s, <1>x
    <3>2. CASE ~(Heads(r) # {})
      BY <1>12, <3>2, <1>a, <1>q, <1>s, <1>x DEF Publish, Continue
    <3>3. QED
      BY <3>1, <3>2
  <2>2. QED
    BY <1>12, <2>1, <1>r DEF Publish, rows, notifs
<1>13. ASSUME NEW r \in Requests, ClaimNextInLine(r)
      PROVE  TypeOK'
  <2>1. request' \in [Requests -> Request]
    BY <1>13, <1>a DEF ClaimNextInLine
  <2>2. QED
    BY <1>13, <1>r, <2>1 DEF ClaimNextInLine, rows, Heads
<1>14. ASSUME NEW r \in Requests, ClearKey(r)
      PROVE  TypeOK'
  <2>1. request' \in [Requests -> Request]
    BY <1>14, <1>i DEF ClearKey, Finish
  <2>2. QED
    BY <1>14, <2>1, <1>u DEF ClearKey, At, rows
<1>15. ASSUME NEW r \in Requests, Fail(r)
      PROVE  TypeOK'
  <2>1. request' \in [Requests -> Request]
    BY <1>15, <1>i DEF Fail, Finish
  <2>2. QED
    BY <1>15, <2>1, <1>u, QueueAssumption DEF Fail, At, rows, notifs
<1>16. ASSUME NEW r \in Requests, NEW e \in Entries, FailSave(r, e)
      PROVE  TypeOK'
  <2>0. [request[r] EXCEPT !.at = "abandoned", !.todo = request[r].todo \ {e}] \in Request
    BY <1>q, <1>r, <1>x, ChangedRequest
  <2>1. request' \in [Requests -> Request]
    <3>1. CASE request[r].todo = {e}
      BY <1>16, <3>1, <1>i, <2>0 DEF FailSave
    <3>2. CASE ~(request[r].todo = {e})
      <4>1. request' = [request EXCEPT ![r] = [request[r] EXCEPT !.at = "abandoned", !.todo = request[r].todo \ {e}]]
        BY <1>16, <3>2 DEF FailSave
      <4>2. QED
        BY <4>1, <2>0
    <3>3. QED
      BY <3>1, <3>2
  <2>2. QED
    BY <1>16, <2>1, <1>u, QueueAssumption DEF FailSave, At, rows, notifs
<1>17. ASSUME NEW r \in Requests, NEW e \in Entries, LateSave(r, e)
      PROVE  TypeOK'
  <2>0. [request[r] EXCEPT !.todo = request[r].todo \ {e}] \in Request
    BY <1>q, <1>r, <1>x, ChangedRequest
  <2>1. request' \in [Requests -> Request]
    <3>1. CASE request[r].todo = {e}
      BY <1>17, <3>1, <1>i, <2>0 DEF LateSave
    <3>2. CASE ~(request[r].todo = {e})
      <4>1. request' = [request EXCEPT ![r] = [request[r] EXCEPT !.todo = request[r].todo \ {e}]]
        BY <1>17, <3>2 DEF LateSave
      <4>2. QED
        BY <4>1, <2>0
    <3>3. QED
      BY <3>1, <3>2
  <2>2. QED
    BY <1>17, <2>1, RankIsPositive, <1>r DEF LateSave, notifs
<1>18. ASSUME NEW e \in Entries, KeyLapses(e)
      PROVE  TypeOK'
  BY <1>18 DEF KeyLapses, rows
<1>19. CASE UNCHANGED vars
  BY <1>19 DEF vars, rows, notifs
<1>20. QED
  BY <1>1, <1>2, <1>3, <1>4, <1>5, <1>6, <1>7, <1>8, <1>9, <1>10, <1>11, <1>12, <1>13,
     <1>14, <1>15, <1>16, <1>17, <1>18, <1>19 DEF Next, Start, Progress, Failure
-----------------------------------------------------------------------------
(* What requests know about their rows.                                    *)

(* What each of the three callers begins with.                             *)
Begins(r, at, e, s, b) ==
  /\ request'[r].at = at /\ request'[r].subject = e /\ request'[r].target = s
  /\ request'[r].scope = b /\ request'[r].moved = {}
  /\ request'[r].met = {request[o].subject : o \in {o \in Requests \ {r} : Runs(o)}}
  /\ \A p \in Requests \ {r} :
       /\ SameWork(request'[p], request[p])
       /\ Runs(p) => request'[p].met = request[p].met \cup {e}
       /\ ~Runs(p) => request'[p] = request[p]

LEMMA Joins ==
  ASSUME TypeOK, RequestsConsistent,
         NEW r \in Requests, NEW e \in Entries, NEW b \in Scopes, NEW p \in Priorities, JoinAdmit(r, e, b, p)
  PROVE  Begins(r, "create", e, "WAITING", b)
<1> DEFINE q == [Idle EXCEPT !.at = "create", !.subject = e, !.scope = b]
<1>1. q \in Request /\ q.subject = e /\ q.at = "create" /\ q.target = "WAITING" /\ q.scope = b /\ q.moved = {}
  BY DEF Idle, Request, Steps, Statuses
<1>2. Begin(r, q)
  BY DEF JoinAdmit
<1> HIDE DEF q
<1>3. QED
  BY <1>1, <1>2, BeginsAlone DEF TypeOK, Begins, SameWork

LEMMA Updates ==
  ASSUME TypeOK, RequestsConsistent,
         NEW r \in Requests, NEW e \in Entries, NEW s \in Targets, UpdateRead(r, e, s)
  PROVE  Begins(r, "write", e, s, barber[e])
<1> DEFINE q == [Idle EXCEPT !.at = "write", !.subject = e, !.target = s, !.scope = barber[e]]
<1>1. q \in Request /\ q.subject = e /\ q.at = "write" /\ q.target = s /\ q.scope = barber[e] /\ q.moved = {}
  BY QueueAssumption DEF Idle, Request, Steps, TypeOK
<1>2. Begin(r, q)
  BY DEF UpdateRead
<1> HIDE DEF q
<1>3. QED
  BY <1>1, <1>2, BeginsAlone DEF TypeOK, Begins, SameWork

LEMMA Leaves ==
  ASSUME TypeOK, RequestsConsistent, NEW r \in Requests, NEW e \in Entries, LeaveRead(r, e)
  PROVE  Begins(r, "leave", e, "LEFT", barber[e])
<1> DEFINE q == [Idle EXCEPT !.at = "leave", !.subject = e, !.target = "LEFT", !.scope = barber[e]]
<1>1. q \in Request /\ q.subject = e /\ q.at = "leave" /\ q.target = "LEFT" /\ q.scope = barber[e] /\ q.moved = {}
  BY DEF Idle, Request, Steps, Statuses, TypeOK
<1>2. Begin(r, q)
  BY DEF LeaveRead
<1> HIDE DEF q
<1>3. QED
  BY <1>1, <1>2, BeginsAlone DEF TypeOK, Begins, SameWork

(* A request that starts does nothing to those that run but meet them.     *)
LEMMA StartsBeside ==
  ASSUME TypeOK, RequestsConsistent, NEW r \in Requests, Start(r)
  PROVE  \E e \in Entries, at \in {"create", "write", "leave"}, s \in Statuses, b \in Scopes :
           At(r, "idle") /\ Begins(r, at, e, s, b)
<1>1. CASE \E e \in Entries, b \in Scopes, p \in Priorities : JoinAdmit(r, e, b, p)
  BY <1>1, Joins DEF JoinAdmit, Statuses
<1>2. CASE \E e \in Entries, s \in Targets : UpdateRead(r, e, s)
  BY <1>2, Updates, QueueAssumption DEF UpdateRead, TypeOK
<1>3. CASE \E e \in Entries : LeaveRead(r, e)
  BY <1>3, Leaves DEF LeaveRead, TypeOK, Statuses
<1>4. QED
  BY <1>1, <1>2, <1>3 DEF Start

LEMMA ConsistentInit == Init => RequestsConsistent
BY DEF Init, RequestsConsistent, RequestConsistent, Idle, IsJoin

LEMMA ConsistentNext ==
  TypeOK /\ RequestsConsistent /\ [Next]_vars => RequestsConsistent'
<1> SUFFICES ASSUME TypeOK, RequestsConsistent, [Next]_vars, NEW q \in Requests
             PROVE  RequestConsistent(q)'
  BY DEF RequestsConsistent
<1> USE DEF RequestsConsistent, RequestConsistent, IsJoin, At
<1>t. /\ request \in [Requests -> Request]
      /\ status \in [Entries -> Statuses \cup {"ABSENT"}]
      /\ barber \in [Entries -> Scopes]
  BY DEF TypeOK
<1>n. NoEntry \notin Entries
  BY QueueAssumption
<1>a. ASSUME NEW r \in Requests, AfterRecalculation(r), request[r].at \in {"publish", "claim"},
             UNCHANGED <<status, barber>>
      PROVE  RequestConsistent(q)'
  <2>1. CASE ClearsKey(request[r].target)
    <3>1. request' = [request EXCEPT ![r] = [request[r] EXCEPT !.at = "clear", !.list = {}]]
      BY <1>a, <2>1 DEF AfterRecalculation
    <3>2. request[r].target # "WAITING"
      BY <2>1 DEF ClearsKey
    <3>3. QED
      BY <1>a, <3>1, <3>2, <1>t DEF Request
  <2>2. CASE ~ClearsKey(request[r].target)
    <3>1. request' = [request EXCEPT ![r] = Idle]
      BY <1>a, <2>2 DEF AfterRecalculation, Finish
    <3>2. QED
      BY <1>a, <3>1, <1>t, <1>n DEF Request, Idle
  <2>3. QED
    BY <2>1, <2>2
<1>1. ASSUME NEW r \in Requests, NEW e \in Entries, NEW b \in Scopes, NEW p \in Priorities, JoinAdmit(r, e, b, p)
      PROVE  RequestConsistent(q)'
  <2>1. /\ request'[r].at = "create" /\ request'[r].subject = e /\ request'[r].target = "WAITING"
        /\ request'[r].scope = b
        /\ \A o \in Requests \ {r} : SameWork(request'[o], request[o])
    BY <1>1, Joins DEF Begins
  <2>2. QED
    BY <1>1, <2>1, <1>t, <1>n DEF JoinAdmit, SameWork
<1>2. ASSUME NEW r \in Requests, NEW e \in Entries, NEW s \in Targets, UpdateRead(r, e, s)
      PROVE  RequestConsistent(q)'
  <2>1. /\ request'[r].at = "write" /\ request'[r].subject = e /\ request'[r].target = s
        /\ \A o \in Requests \ {r} : SameWork(request'[o], request[o])
    BY <1>2, Updates DEF Begins
  <2>2. QED
    BY <1>2, <2>1, <1>t, <1>n, NoWayBackToWaiting DEF UpdateRead, SameWork, rows
<1>3. ASSUME NEW r \in Requests, NEW e \in Entries, LeaveRead(r, e)
      PROVE  RequestConsistent(q)'
  <2>1. /\ request'[r].at = "leave" /\ request'[r].subject = e /\ request'[r].target = "LEFT"
        /\ \A o \in Requests \ {r} : SameWork(request'[o], request[o])
    BY <1>3, Leaves DEF Begins
  <2>2. QED
    BY <1>3, <2>1, <1>t, <1>n DEF LeaveRead, SameWork, Statuses, rows
<1>4. ASSUME NEW r \in Requests, JoinCreate(r)
      PROVE  RequestConsistent(q)'
  BY <1>4, <1>t, <1>n DEF JoinCreate, Request, Continue
<1>5. ASSUME NEW r \in Requests, LeaveCheck(r)
      PROVE  RequestConsistent(q)'
  BY <1>5, <1>t, <1>n, NoWayBackToWaiting DEF LeaveCheck, Request, Continue, Finish, Idle, rows
<1>6. ASSUME NEW r \in Requests, WriteStatus(r)
      PROVE  RequestConsistent(q)'
  BY <1>6, <1>t, <1>n DEF WriteStatus, Request, Statuses, Continue
<1>7. ASSUME NEW r \in Requests, Snapshot(r)
      PROVE  RequestConsistent(q)'
  BY <1>7, <1>t, <1>n DEF Snapshot, Request, rows
<1>8. ASSUME NEW r \in Requests, EstimateWaits(r)
      PROVE  RequestConsistent(q)'
  BY <1>8, <1>t, <1>n DEF EstimateWaits, Request, rows
<1>9. ASSUME NEW r \in Requests, RejectEstimates(r)
      PROVE  RequestConsistent(q)'
  BY <1>9, <1>t, <1>n DEF RejectEstimates, Request, Finish, Idle, rows
<1>10. ASSUME NEW r \in Requests, NEW e \in Entries, SavePosition(r, e)
      PROVE  RequestConsistent(q)'
  BY <1>10, <1>t, <1>n DEF SavePosition, Request
<1>11. ASSUME NEW r \in Requests, ReadActive(r)
      PROVE  RequestConsistent(q)'
  BY <1>11, <1>t, <1>n DEF ReadActive, Request, rows
<1>12. ASSUME NEW r \in Requests, Publish(r)
      PROVE  RequestConsistent(q)'
  <2>1. CASE Heads(r) # {}
    <3>1. request' = [request EXCEPT ![r] = [request[r] EXCEPT !.at = "claim"]]
      BY <1>12, <2>1 DEF Publish, Continue
    <3>2. QED
      BY <1>12, <3>1, <1>t DEF Publish, Request, rows
  <2>2. CASE Heads(r) = {}
    BY <1>12, <1>a, <2>2 DEF Publish, rows
  <2>3. QED
    BY <2>1, <2>2
<1>13. ASSUME NEW r \in Requests, ClaimNextInLine(r)
      PROVE  RequestConsistent(q)'
  BY <1>13, <1>a DEF ClaimNextInLine, rows
<1>14. ASSUME NEW r \in Requests, ClearKey(r)
      PROVE  RequestConsistent(q)'
  BY <1>14, <1>t, <1>n DEF ClearKey, Request, Finish, Idle, rows
<1>15. ASSUME NEW r \in Requests, Fail(r)
      PROVE  RequestConsistent(q)'
  BY <1>15, <1>t, <1>n DEF Fail, Request, Finish, Idle, rows
<1>16. ASSUME NEW r \in Requests, NEW e \in Entries, FailSave(r, e)
      PROVE  RequestConsistent(q)'
  BY <1>16, <1>t, <1>n DEF FailSave, Request, Idle, rows
<1>17. ASSUME NEW r \in Requests, NEW e \in Entries, LateSave(r, e)
      PROVE  RequestConsistent(q)'
  BY <1>17, <1>t, <1>n DEF LateSave, Request, Idle
<1>18. ASSUME NEW e \in Entries, KeyLapses(e)
      PROVE  RequestConsistent(q)'
  BY <1>18 DEF KeyLapses, rows
<1>19. CASE UNCHANGED vars
  BY <1>19 DEF vars, rows
<1>20. QED
  BY <1>1, <1>2, <1>3, <1>4, <1>5, <1>6, <1>7, <1>8, <1>9, <1>10, <1>11, <1>12, <1>13,
     <1>14, <1>15, <1>16, <1>17, <1>18, <1>19 DEF Next, Start, Progress, Failure
-----------------------------------------------------------------------------
(* NEXT_IN_LINE.                                                           *)

(* No step puts a row back among those who wait: the only writes of a      *)
(* status are the insert and the update of updateStatus, whose target was  *)
(* checked against the transition table.                                   *)
LEMMA OnlyForward ==
  ASSUME TypeOK, RequestsConsistent, [Next]_vars, NEW e \in Entries
  PROVE  /\ status'[e] = "WAITING" => status[e] \in {"ABSENT", "WAITING"}
         /\ status'[e] = "ABSENT" => status[e] = "ABSENT"
<1> DEFINE Forward == /\ status'[e] = "WAITING" => status[e] \in {"ABSENT", "WAITING"}
                      /\ status'[e] = "ABSENT" => status[e] = "ABSENT"
<1>t. /\ status \in [Entries -> Statuses \cup {"ABSENT"}]
      /\ \A r \in Requests : request[r].target \in Statuses
  BY DEF TypeOK, Request
<1>1. ASSUME UNCHANGED status
      PROVE  Forward
  BY <1>1
<1>2. ASSUME NEW r \in Requests, JoinCreate(r)
      PROVE  Forward
  BY <1>2, <1>t DEF JoinCreate, RequestsConsistent, RequestConsistent, At
<1>3. ASSUME NEW r \in Requests, WriteStatus(r)
      PROVE  Forward
  BY <1>3, <1>t DEF WriteStatus, RequestsConsistent, RequestConsistent, At, IsJoin, Statuses
<1> HIDE DEF Forward
<1>4. ASSUME NEW r \in Requests, Start(r)
      PROVE  Forward
  BY <1>4, <1>1 DEF Start, JoinAdmit, UpdateRead, LeaveRead, rows
<1>5. ASSUME NEW r \in Requests, Progress(r)
      PROVE  Forward
  BY <1>5, <1>1, <1>2, <1>3
     DEF Progress, LeaveCheck, Snapshot, EstimateWaits, RejectEstimates, SavePosition,
         LateSave, ReadActive, Publish, ClaimNextInLine, ClearKey, rows
<1>6. ASSUME NEW r \in Requests, Failure(r)
      PROVE  Forward
  BY <1>6, <1>1 DEF Failure, Fail, FailSave, rows
<1>7. ASSUME NEW d \in Entries, KeyLapses(d)
      PROVE  Forward
  BY <1>7, <1>1 DEF KeyLapses, rows
<1>8. ASSUME UNCHANGED vars
      PROVE  Forward
  BY <1>8, <1>1 DEF vars, rows
<1>9. Forward
  BY <1>4, <1>5, <1>6, <1>7, <1>8 DEF Next
<1>10. QED
  BY <1>9 DEF Forward

LEMMA NoticeInit == Init => KeyGuardsNotice
BY DEF Init, KeyGuardsNotice

LEMMA NoticeNext ==
  TypeOK /\ RequestsConsistent /\ KeyGuardsNotice /\ [Next]_vars => KeyGuardsNotice'
<1> SUFFICES ASSUME TypeOK, RequestsConsistent, KeyGuardsNotice, [Next]_vars,
                    NEW e \in Entries,
                    status'[e] \in {"ABSENT", "WAITING"}, e \notin lapsed'
             PROVE  nextSent'[e] <= IF e \in keys' THEN 1 ELSE 0
  BY DEF KeyGuardsNotice
<1> DEFINE Guarded == nextSent'[e] <= IF e \in keys' THEN 1 ELSE 0
<1>w. status[e] \in {"ABSENT", "WAITING"}
  BY OnlyForward
<1>t. nextSent \in [Entries -> Nat]
  BY DEF TypeOK
<1>1. ASSUME UNCHANGED <<keys, nextSent, lapsed>>
      PROVE  Guarded
  BY <1>1, <1>w DEF KeyGuardsNotice
<1>2. ASSUME NEW r \in Requests, ClaimNextInLine(r)
      PROVE  Guarded
  <2>1. e \notin lapsed
    BY <1>2 DEF ClaimNextInLine
  <2>2. nextSent[e] <= IF e \in keys THEN 1 ELSE 0
    BY <1>w, <2>1 DEF KeyGuardsNotice
  <2>3. CASE e \in {d \in Heads(r) : Claimable(d)}
    <3>1. e \notin keys
      BY <2>3 DEF Claimable
    <3>2. e \in keys' /\ nextSent'[e] = nextSent[e] + 1
      BY <1>2, <2>3 DEF ClaimNextInLine
    <3>3. QED
      BY <2>2, <3>1, <3>2, <1>t
  <2>4. CASE e \notin {d \in Heads(r) : Claimable(d)}
    <3>1. nextSent'[e] = nextSent[e] /\ (e \in keys' <=> e \in keys)
      BY <1>2, <2>4 DEF ClaimNextInLine
    <3>2. QED
      BY <2>2, <3>1
  <2>5. QED
    BY <2>3, <2>4
<1>3. ASSUME NEW r \in Requests, ClearKey(r)
      PROVE  Guarded
  \* The key that is cleared is that of an entry that no longer waits.
  <2>1. status[request[r].subject] \notin {"ABSENT", "WAITING"}
    BY <1>3 DEF ClearKey, At, RequestsConsistent, RequestConsistent
  <2>2. e \in keys' <=> e \in keys
    BY <1>3, <2>1, <1>w DEF ClearKey
  <2>3. QED
    BY <1>3, <2>2, <1>w DEF ClearKey, KeyGuardsNotice
<1>4. ASSUME NEW d \in Entries, KeyLapses(d)
      PROVE  Guarded
  BY <1>4, <1>w DEF KeyLapses, KeyGuardsNotice
<1> HIDE DEF Guarded
<1>5. ASSUME NEW r \in Requests, Start(r)
      PROVE  Guarded
  BY <1>5, <1>1 DEF Start, JoinAdmit, UpdateRead, LeaveRead, notifs
<1>6. ASSUME NEW r \in Requests, Progress(r)
      PROVE  Guarded
  BY <1>6, <1>1, <1>2, <1>3
     DEF Progress, JoinCreate, WriteStatus, LeaveCheck, Snapshot, EstimateWaits,
         RejectEstimates, SavePosition, LateSave, ReadActive, Publish, notifs
<1>7. ASSUME NEW r \in Requests, Failure(r)
      PROVE  Guarded
  BY <1>7, <1>1 DEF Failure, Fail, FailSave, notifs
<1>8. ASSUME UNCHANGED vars
      PROVE  Guarded
  BY <1>8, <1>1 DEF vars, notifs
<1>9. Guarded
  BY <1>4, <1>5, <1>6, <1>7, <1>8 DEF Next
<1>10. QED
  BY <1>9 DEF Guarded
-----------------------------------------------------------------------------
(* Positions.                                                              *)

LEMMA CarriedInit == Init => UnnumberedIsCarried
BY DEF Init, UnnumberedIsCarried

(* A request that carries a row does so until it has numbered the row, or  *)
(* answers with an error.                                                  *)
LEMMA CarrierKeeps ==
  ASSUME TypeOK, RequestsConsistent, [Next]_vars,
         NEW e \in Entries, status[e] = "WAITING", position'[e] = 0,
         NEW c \in Requests, Carries(c, e)
  PROVE  Carries(c, e)' \/ e \in orphans'
<1> DEFINE Held == Carries(c, e)' \/ e \in orphans'
<1>t. /\ position \in [Entries -> Nat]
      /\ barber \in [Entries -> Scopes]
      /\ request \in [Requests -> Request]
      /\ \A r \in Requests : request[r].batch \in SUBSET Entries
  BY DEF TypeOK, Request
<1>o. ASSUME NEW r \in Requests, NEW x, r # c, request' = [request EXCEPT ![r] = x]
      PROVE  Held
  BY <1>o, <1>t DEF Carries, At, IsJoin
<1>u. ASSUME request' = request
      PROVE  Held
  BY <1>u DEF Carries, At, IsJoin
<1>1. ASSUME NEW r \in Requests, Start(r)
      PROVE  Held
  <2>1. At(r, "idle") /\ \A p \in Requests \ {r} : SameWork(request'[p], request[p])
    BY <1>1, StartsBeside DEF Begins
  <2>2. r # c
    BY <2>1 DEF Carries, At
  <2>3. QED
    BY <2>1, <2>2 DEF SameWork, Carries, At, IsJoin
<1>2. ASSUME NEW r \in Requests, JoinCreate(r) \/ LeaveCheck(r) \/ WriteStatus(r) \/ ReadActive(r)
                                 \/ Publish(r) \/ ClaimNextInLine(r) \/ ClearKey(r)
      PROVE  Held
  <2>1. r # c
    BY <1>2 DEF JoinCreate, LeaveCheck, WriteStatus, ReadActive, Publish, ClaimNextInLine,
                ClearKey, Carries, At
  <2>2. PICK x : request' = [request EXCEPT ![r] = x]
    BY <1>2 DEF JoinCreate, LeaveCheck, WriteStatus, ReadActive, Publish, ClaimNextInLine,
                ClearKey, Continue, Finish, AfterRecalculation
  <2>3. QED
    BY <2>1, <2>2, <1>o
<1>3. ASSUME NEW r \in Requests, Snapshot(r)
      PROVE  Held
  <2> DEFINE S == QueuedIn(request[r].scope)
             M == {d \in S : position[d] \notin {0, Rank(S, d)}}
  <2>1. PICK x : request' = [request EXCEPT ![r] = x]
    BY <1>3 DEF Snapshot
  <2>2. CASE r = c
    <3>1. e \in S
      BY <1>3, <2>2 DEF QueuedIn, InScope, Carries, At, IsJoin, Snapshot,
                        RequestsConsistent, RequestConsistent
    <3>2. request' = [request EXCEPT ![r] = [request[r] EXCEPT !.at = "serving", !.batch = S, !.moved = M]]
      BY <1>3, <3>1 DEF Snapshot
    <3> HIDE DEF S, M
    <3>3. QED
      BY <3>1, <3>2, <2>2, <1>t DEF Carries, At, IsJoin, Request
  <2>3. QED
    BY <2>1, <2>2, <1>o
<1>4. ASSUME NEW r \in Requests, EstimateWaits(r)
      PROVE  Held
  <2>1. request' = [request EXCEPT ![r] = [request[r] EXCEPT !.at = "save", !.todo = request[r].batch]]
    BY <1>4 DEF EstimateWaits
  <2>2. CASE r = c
    BY <1>4, <2>1, <2>2, <1>t DEF EstimateWaits, Carries, At, IsJoin, Request
  <2>3. QED
    BY <2>1, <2>2, <1>o
<1>5. ASSUME NEW r \in Requests, RejectEstimates(r) \/ Fail(r)
      PROVE  Held
  <2>1. CASE r = c
    BY <1>5, <2>1 DEF RejectEstimates, Fail, Carries, At
  <2>2. QED
    BY <1>5, <2>1, <1>o DEF RejectEstimates, Fail, Finish
<1>6. ASSUME NEW r \in Requests, NEW d \in Entries, SavePosition(r, d)
      PROVE  Held
  \* What is saved is not 0, so it is another row's position.
  <2>1. d # e
    BY <1>6, <1>t, RankIsPositive DEF SavePosition
  <2>2. PICK x : request' = [request EXCEPT ![r] = x]
    BY <1>6 DEF SavePosition
  <2>3. CASE r = c
    <3>1. e \in request[r].todo
      BY <1>6, <2>3 DEF Carries, At, SavePosition
    <3>2. request' = [request EXCEPT ![r] = [request[r] EXCEPT !.todo = request[r].todo \ {d}]]
      BY <1>6, <2>1, <3>1 DEF SavePosition
    <3>3. QED
      BY <1>6, <2>1, <2>3, <3>1, <3>2, <1>t DEF SavePosition, Carries, At, IsJoin, Request
  <2>4. QED
    BY <2>2, <2>3, <1>o
<1>7. ASSUME NEW r \in Requests, NEW d \in Entries, LateSave(r, d)
      PROVE  Held
  <2>1. r # c
    BY <1>7 DEF LateSave, Carries, At
  <2>2. PICK x : request' = [request EXCEPT ![r] = x]
    BY <1>7 DEF LateSave
  <2>3. QED
    BY <2>1, <2>2, <1>o
<1>8. ASSUME NEW r \in Requests, NEW d \in Entries, FailSave(r, d)
      PROVE  Held
  <2>1. PICK x : request' = [request EXCEPT ![r] = x]
    BY <1>8 DEF FailSave
  <2>2. CASE r = c
    BY <1>8, <2>2 DEF FailSave, Carries
  <2>3. QED
    BY <2>1, <2>2, <1>o
<1>9. ASSUME (\E d \in Entries : KeyLapses(d)) \/ UNCHANGED vars
      PROVE  Held
  BY <1>9, <1>u DEF KeyLapses, vars
<1> HIDE DEF Held
<1>10. Held
  BY <1>1, <1>2, <1>3, <1>4, <1>5, <1>6, <1>7, <1>8, <1>9 DEF Next, Progress, Failure
<1>11. QED
  BY <1>10 DEF Held

(* A row gets to wait without a position only by its insert, and a caller  *)
(* that was told of an error stays told.                                   *)
LEMMA OnlyInsertUnnumbers ==
  ASSUME TypeOK, RequestsConsistent, [Next]_vars,
         NEW e \in Entries, status'[e] = "WAITING", position'[e] = 0,
         \A r \in Requests : JoinCreate(r) => request[r].subject # e
  PROVE  status[e] = "WAITING" /\ position[e] = 0 /\ orphans \subseteq orphans'
<1> DEFINE Before == status[e] = "WAITING" /\ position[e] = 0 /\ orphans \subseteq orphans'
<1>t. /\ status \in [Entries -> Statuses \cup {"ABSENT"}]
      /\ position \in [Entries -> Nat]
      /\ \A r \in Requests : request[r].batch \in SUBSET Entries
      /\ \A r \in Requests : request[r].target \in Statuses
  BY DEF TypeOK, Request
<1>1. ASSUME UNCHANGED <<status, position>>, orphans \subseteq orphans'
      PROVE  Before
  BY <1>1
<1>2. ASSUME NEW r \in Requests, JoinCreate(r)
      PROVE  Before
  BY <1>2, <1>t DEF JoinCreate
<1>3. ASSUME NEW r \in Requests, WriteStatus(r)
      PROVE  Before
  BY <1>3, <1>t DEF WriteStatus, RequestsConsistent, RequestConsistent, At, IsJoin
<1>4. ASSUME NEW r \in Requests, NEW d \in Entries, SavePosition(r, d) \/ LateSave(r, d)
      PROVE  Before
  BY <1>4, <1>t, RankIsPositive DEF SavePosition, LateSave
<1> HIDE DEF Before
<1>5. ASSUME NEW r \in Requests, Start(r)
      PROVE  Before
  BY <1>5, <1>1 DEF Start, JoinAdmit, UpdateRead, LeaveRead, rows
<1>6. ASSUME NEW r \in Requests, Progress(r)
      PROVE  Before
  BY <1>6, <1>1, <1>2, <1>3, <1>4
     DEF Progress, LeaveCheck, Snapshot, EstimateWaits, RejectEstimates, ReadActive, Publish,
         ClaimNextInLine, ClearKey, rows
<1>7. ASSUME NEW r \in Requests, Failure(r)
      PROVE  Before
  BY <1>7, <1>1 DEF Failure, Fail, FailSave, rows
<1>8. ASSUME (\E d \in Entries : KeyLapses(d)) \/ UNCHANGED vars
      PROVE  Before
  BY <1>8, <1>1 DEF KeyLapses, vars, rows
<1>9. Before
  BY <1>5, <1>6, <1>7, <1>8 DEF Next
<1>10. QED
  BY <1>9 DEF Before

LEMMA CarriedNext ==
  TypeOK /\ RequestsConsistent /\ UnnumberedIsCarried /\ [Next]_vars => UnnumberedIsCarried'
<1> SUFFICES ASSUME TypeOK, RequestsConsistent, UnnumberedIsCarried, [Next]_vars,
                    NEW e \in Entries,
                    status'[e] = "WAITING", position'[e] = 0
             PROVE  e \in orphans' \/ \E r \in Requests : Carries(r, e)'
  BY DEF UnnumberedIsCarried
\* The insert is followed by a recalculation of its own.
<1>1. CASE \E r \in Requests : JoinCreate(r) /\ request[r].subject = e
  BY <1>1 DEF JoinCreate, Continue, Carries, At, IsJoin, TypeOK, Request,
              RequestsConsistent, RequestConsistent
<1>2. CASE ~ \E r \in Requests : JoinCreate(r) /\ request[r].subject = e
  <2>1. status[e] = "WAITING" /\ position[e] = 0 /\ orphans \subseteq orphans'
    BY <1>2, OnlyInsertUnnumbers
  <2>2. CASE e \in orphans
    BY <2>1, <2>2
  <2>3. CASE e \notin orphans
    BY <2>1, <2>3, CarrierKeeps DEF UnnumberedIsCarried
  <2>4. QED
    BY <2>2, <2>3
<1>3. QED
  BY <1>1, <1>2

-----------------------------------------------------------------------------
(* Requests that meet.                                                     *)

LEMMA MeetingsInit == Init => MeetingsKept
BY DEF Init, MeetingsKept, Idle, At, Runs

LEMMA MeetingsNext ==
  TypeOK /\ RequestsConsistent /\ MeetingsKept /\ [Next]_vars => MeetingsKept'
<1> SUFFICES ASSUME TypeOK, RequestsConsistent, MeetingsKept, [Next]_vars
             PROVE  MeetingsKept'
  OBVIOUS
<1>t. /\ status \in [Entries -> Statuses \cup {"ABSENT"}]
      /\ request \in [Requests -> Request]
  BY DEF TypeOK
<1>n. NoEntry \notin Entries
  BY QueueAssumption
<1>u. \A r \in Requests : ~At(r, "idle") => request[r].subject \in Entries
  BY DEF RequestsConsistent, RequestConsistent, At
\* A request that starts: it meets all that run, and they meet it.
<1>s. ASSUME NEW r \in Requests, NEW e \in Entries, NEW at, NEW s, NEW b, UNCHANGED status,
             Begins(r, at, e, s, b), At(r, "idle"),
             at = "write" => IsValidTransition(status[e], s)
      PROVE  MeetingsKept'
  <2> SUFFICES ASSUME NEW p \in Requests, Runs(p)'
               PROVE  /\ \A q \in Requests \ {p} : Runs(q)' => request'[q].subject \in request'[p].met
                      /\ At(p, "write")' /\ request'[p].subject \notin request'[p].met =>
                           IsValidTransition(status'[request'[p].subject], request'[p].target)
    BY DEF MeetingsKept
  <2>1. CASE p = r
    BY <1>s, <2>1 DEF Begins, SameWork, Runs, At
  <2>2. CASE p # r
    <3>1. Runs(p) /\ request'[p].met = request[p].met \cup {e}
      BY <1>s, <2>2 DEF Begins, SameWork, Runs, At
    <3>2. \A q \in Requests \ {p} : Runs(q)' => request'[q].subject \in request'[p].met
      BY <1>s, <2>2, <3>1 DEF Begins, SameWork, Runs, At, MeetingsKept
    <3>3. QED
      BY <1>s, <2>2, <3>1, <3>2 DEF Begins, SameWork, At, MeetingsKept
  <2>3. QED
    BY <2>1, <2>2
\* A step that moves a request on its entry, or ends it.
<1>m. ASSUME NEW r \in Requests, UNCHANGED status, ~At(r, "idle"),
             \A q \in Requests \ {r} : request'[q] = request[q],
             request'[r].subject = request[r].subject,
             request'[r].target = request[r].target,
             request'[r].met = request[r].met,
             request'[r].at = "write" => IsValidTransition(status[request[r].subject], request[r].target)
      PROVE  MeetingsKept'
  BY <1>m DEF MeetingsKept, At, Runs
<1>f. ASSUME NEW r \in Requests, UNCHANGED status, Finish(r)
      PROVE  MeetingsKept'
  BY <1>f, <1>t DEF MeetingsKept, At, Runs, Finish, Idle
<1>a. ASSUME NEW r \in Requests, UNCHANGED status, ~At(r, "idle"), AfterRecalculation(r)
      PROVE  MeetingsKept'
  <2>1. CASE ClearsKey(request[r].target)
    <3>1. request' = [request EXCEPT ![r] = [request[r] EXCEPT !.at = "clear", !.list = {}]]
      BY <1>a, <2>1 DEF AfterRecalculation
    <3>2. QED
      BY <1>a, <3>1, <1>m, <1>t DEF Request
  <2>2. QED
    BY <1>a, <2>1, <1>f DEF AfterRecalculation
\* A step that writes the status of the request's entry.
<1>w. ASSUME NEW r \in Requests, NEW s, ~At(r, "idle"),
             status' = [status EXCEPT ![request[r].subject] = s], Continue(r, "snapshot")
      PROVE  MeetingsKept'
  <2> DEFINE e == request[r].subject
  <2>1. e \in Entries /\ Runs(r)
    BY <1>w, <1>u DEF Runs
  <2>2. /\ request'[r].at = "snapshot" /\ request'[r].subject = e /\ request'[r].met = request[r].met
        /\ \A q \in Requests \ {r} : request'[q] = request[q]
    BY <1>w, <1>t DEF Continue, Request
  <2>3. \A d \in Entries \ {e} : status'[d] = status[d]
    BY <1>w, <1>t
  <2> HIDE DEF e
  <2>4. \A p \in Requests \ {r} : Runs(p) => e \in request[p].met
    BY <2>1 DEF MeetingsKept, e
  <2> SUFFICES ASSUME NEW p \in Requests, Runs(p)'
               PROVE  /\ \A q \in Requests \ {p} : Runs(q)' => request'[q].subject \in request'[p].met
                      /\ At(p, "write")' /\ request'[p].subject \notin request'[p].met =>
                           IsValidTransition(status'[request'[p].subject], request'[p].target)
    BY DEF MeetingsKept
  <2>5. Runs(p) /\ request'[p].met = request[p].met /\ \A q \in Requests : Runs(q)' => Runs(q) /\ request'[q].subject = request[q].subject
    BY <2>1, <2>2 DEF Runs, At, e
  <2>6. ASSUME At(p, "write")', request'[p].subject \notin request'[p].met
        PROVE  IsValidTransition(status'[request'[p].subject], request'[p].target)
    <3>1. p # r /\ request'[p] = request[p]
      BY <2>2, <2>6 DEF At
    <3>2. request[p].subject \in Entries \ {e}
      BY <2>4, <2>5, <2>6, <3>1, <1>u DEF Runs
    <3>3. QED
      BY <2>3, <2>5, <2>6, <3>1, <3>2 DEF MeetingsKept, At
  <2>7. QED
    BY <2>5, <2>6 DEF MeetingsKept
<1>1. ASSUME NEW r \in Requests, NEW e \in Entries, NEW b \in Scopes, NEW p \in Priorities, JoinAdmit(r, e, b, p)
      PROVE  MeetingsKept'
  <2>1. Begins(r, "create", e, "WAITING", b)
    BY <1>1, Joins
  <2>2. QED
    BY <1>1, <2>1, <1>s DEF JoinAdmit
<1>2. ASSUME NEW r \in Requests, NEW e \in Entries, NEW s \in Targets, UpdateRead(r, e, s)
      PROVE  MeetingsKept'
  <2>1. Begins(r, "write", e, s, barber[e])
    BY <1>2, Updates
  <2>2. QED
    BY <1>2, <2>1, <1>s DEF UpdateRead, rows
<1>3. ASSUME NEW r \in Requests, NEW e \in Entries, LeaveRead(r, e)
      PROVE  MeetingsKept'
  <2>1. Begins(r, "leave", e, "LEFT", barber[e])
    BY <1>3, Leaves
  <2>2. QED
    BY <1>3, <2>1, <1>s DEF LeaveRead, rows
<1>4. ASSUME NEW r \in Requests, JoinCreate(r) \/ WriteStatus(r)
      PROVE  MeetingsKept'
  BY <1>4, <1>w DEF JoinCreate, WriteStatus, At
<1>5. ASSUME NEW r \in Requests, LeaveCheck(r)
      PROVE  MeetingsKept'
  <2>1. CASE IsValidTransition(status[request[r].subject], "LEFT")
    <3>1. request' = [request EXCEPT ![r] = [request[r] EXCEPT !.at = "write"]]
      BY <1>5, <2>1 DEF LeaveCheck, Continue
    <3>2. request[r].target = "LEFT"
      BY <1>5 DEF LeaveCheck, At, RequestsConsistent, RequestConsistent
    <3>3. QED
      BY <1>5, <2>1, <3>1, <3>2, <1>m, <1>t DEF LeaveCheck, At, rows, Request
  <2>2. QED
    BY <1>5, <2>1, <1>f DEF LeaveCheck, rows
<1>6. ASSUME NEW r \in Requests, Snapshot(r)
      PROVE  MeetingsKept'
  <2> DEFINE S == QueuedIn(request[r].scope)
             M == {e \in S : position[e] \notin {0, Rank(S, e)}}
  <2>1. \/ request' = [request EXCEPT ![r] = [request[r] EXCEPT !.at = "publish"]]
        \/ request' = [request EXCEPT ![r] = [request[r] EXCEPT !.at = "serving", !.batch = S, !.moved = M]]
    BY <1>6 DEF Snapshot
  <2> HIDE DEF S, M
  <2>2. /\ \A q \in Requests \ {r} : request'[q] = request[q]
       /\ request'[r].subject = request[r].subject
       /\ request'[r].target = request[r].target /\ request'[r].met = request[r].met
       /\ request'[r].at # "write"
    BY <2>1, <1>t DEF Request
  <2>3. QED
    BY <1>6, <2>2, <1>m DEF Snapshot, At, rows
<1>7. ASSUME NEW r \in Requests, EstimateWaits(r)
      PROVE  MeetingsKept'
  BY <1>7, <1>m, <1>t DEF EstimateWaits, At, rows, Request
<1>8. ASSUME NEW r \in Requests, RejectEstimates(r) \/ ClearKey(r) \/ Fail(r)
      PROVE  MeetingsKept'
  BY <1>8, <1>f DEF RejectEstimates, ClearKey, Fail, rows
<1>9. ASSUME NEW r \in Requests, NEW e \in Entries, SavePosition(r, e) \/ LateSave(r, e) \/ FailSave(r, e)
      PROVE  MeetingsKept'
  <2>0. UNCHANGED status /\ request[r].at \in {"save", "abandoned"}
    BY <1>9 DEF SavePosition, LateSave, FailSave, rows, At
  <2>1. \/ request' = [request EXCEPT ![r] = [request[r] EXCEPT !.todo = {}, !.at = "active"]]
        \/ request' = [request EXCEPT ![r] = [request[r] EXCEPT !.todo = request[r].todo \ {e}]]
        \/ request' = [request EXCEPT ![r] = [request[r] EXCEPT !.at = "abandoned", !.todo = request[r].todo \ {e}]]
        \/ Finish(r)
    BY <1>9 DEF SavePosition, LateSave, FailSave, Finish
  <2>2. CASE Finish(r)
    BY <2>0, <2>2, <1>f
  <2>3. CASE ~Finish(r)
    <3>1. /\ \A q \in Requests \ {r} : request'[q] = request[q]
         /\ request'[r].subject = request[r].subject
         /\ request'[r].target = request[r].target /\ request'[r].met = request[r].met
         /\ request'[r].at # "write"
      <4>1. CASE request' = [request EXCEPT ![r] = [request[r] EXCEPT !.todo = {}, !.at = "active"]]
        BY <4>1, <1>t DEF Request
      <4>2. CASE request' = [request EXCEPT ![r] = [request[r] EXCEPT !.todo = request[r].todo \ {e}]]
        BY <2>0, <4>2, <1>t DEF Request
      <4>3. CASE request' = [request EXCEPT ![r] = [request[r] EXCEPT !.at = "abandoned",
                                                                     !.todo = request[r].todo \ {e}]]
        BY <4>3, <1>t DEF Request
      <4>4. QED
        BY <2>1, <2>3, <4>1, <4>2, <4>3
    <3>2. QED
      BY <2>0, <3>1, <1>m DEF At
  <2>4. QED
    BY <2>2, <2>3
<1>10. ASSUME NEW r \in Requests, ReadActive(r)
      PROVE  MeetingsKept'
  <2>1. PICK L : request' = [request EXCEPT ![r] = [request[r] EXCEPT !.at = "publish", !.list = L]]
    BY <1>10 DEF ReadActive
  <2>2. /\ \A q \in Requests \ {r} : request'[q] = request[q]
       /\ request'[r].subject = request[r].subject
       /\ request'[r].target = request[r].target /\ request'[r].met = request[r].met
       /\ request'[r].at # "write"
    BY <2>1, <1>t DEF Request
  <2>3. QED
    BY <1>10, <2>2, <1>m DEF ReadActive, At, rows
<1>11. ASSUME NEW r \in Requests, Publish(r) \/ ClaimNextInLine(r)
      PROVE  MeetingsKept'
  <2>0. UNCHANGED status /\ ~At(r, "idle")
    BY <1>11 DEF Publish, ClaimNextInLine, rows, At
  <2>1. \/ request' = [request EXCEPT ![r] = [request[r] EXCEPT !.at = "claim"]]
        \/ AfterRecalculation(r)
    BY <1>11 DEF Publish, ClaimNextInLine, Continue
  <2>2. QED
    BY <2>0, <2>1, <1>m, <1>a, <1>t DEF Request
<1>12. ASSUME (\E d \in Entries : KeyLapses(d)) \/ UNCHANGED vars
      PROVE  MeetingsKept'
  BY <1>12 DEF KeyLapses, vars, rows, MeetingsKept, At, Runs
<1>13. QED
  BY <1>1, <1>2, <1>3, <1>4, <1>5, <1>6, <1>7, <1>8, <1>9, <1>10, <1>11, <1>12
     DEF Next, Start, Progress, Failure

-----------------------------------------------------------------------------
(* The times of joining.                                                   *)

LEMMA JoinTimesInit == Init => JoinTimesDiffer
BY DEF Init, JoinTimesDiffer, Idle, At

LEMMA JoinTimesNext == TypeOK /\ RequestsConsistent /\ JoinTimesDiffer /\ [Next]_vars => JoinTimesDiffer'
<1> SUFFICES ASSUME TypeOK, RequestsConsistent, JoinTimesDiffer, [Next]_vars
             PROVE  JoinTimesDiffer'
  OBVIOUS
<1>t. /\ status \in [Entries -> Statuses \cup {"ABSENT"}]
      /\ joinedAt \in [Entries -> Nat] /\ clock \in Nat
      /\ request \in [Requests -> Request]
  BY DEF TypeOK
<1>1. ASSUME NEW r \in Requests, NEW e \in Entries, NEW b \in Scopes, NEW p \in Priorities, JoinAdmit(r, e, b, p)
      PROVE  JoinTimesDiffer'
  <2>1. clock' = clock + 1 /\ joinedAt' = [joinedAt EXCEPT ![e] = clock + 1] /\ UNCHANGED status
    BY <1>1 DEF JoinAdmit
  <2>2. request'[r].subject = e /\ \A q \in Requests \ {r} : SameWork(request'[q], request[q])
    BY <1>1, Joins DEF Begins
  <2>3. \A q \in Requests : At(q, "create")' =>
          joinedAt'[request'[q].subject] = IF q = r THEN clock + 1 ELSE joinedAt[request[q].subject]
    BY <1>1, <2>1, <2>2, <1>t DEF JoinAdmit, At, SameWork
  <2>4. \A q \in Requests \ {r} : At(q, "create")' => At(q, "create")
    BY <2>2, <1>t DEF At, SameWork
  <2>5. \A q \in Requests : At(q, "create")' => joinedAt'[request'[q].subject] # 0
    BY <2>3, <2>4, <1>t DEF JoinTimesDiffer
  <2>6. QED
    BY <2>1, <2>5, <1>t DEF JoinTimesDiffer
\* A step that stamps nothing and sends no insert.
<1>k. ASSUME UNCHANGED <<joinedAt, clock>>,
             \A e \in Entries : joinedAt[e] = 0 => status'[e] = "ABSENT",
             \A q \in Requests : At(q, "create")' => At(q, "create") /\ request'[q].subject = request[q].subject
      PROVE  JoinTimesDiffer'
  BY <1>k DEF JoinTimesDiffer
<1>r. ASSUME UNCHANGED <<status, joinedAt, clock>>, NEW r \in Requests,
             \A q \in Requests \ {r} : request'[q] = request[q], request'[r].at # "create"
      PROVE  JoinTimesDiffer'
  <2>1. \A q \in Requests : At(q, "create")' => At(q, "create") /\ request'[q].subject = request[q].subject
    BY <1>r DEF At
  <2>2. QED
    BY <2>1, <1>k, <1>r DEF JoinTimesDiffer
<1>2. ASSUME NEW r \in Requests, JoinCreate(r) \/ WriteStatus(r)
      PROVE  JoinTimesDiffer'
  <2>1. PICK s : /\ status' = [status EXCEPT ![request[r].subject] = s] /\ Continue(r, "snapshot")
                 /\ UNCHANGED <<joinedAt, clock>>
    BY <1>2 DEF JoinCreate, WriteStatus
  <2>2. request[r].subject \in Entries /\ joinedAt[request[r].subject] # 0
    BY <1>2 DEF JoinCreate, WriteStatus, At, RequestsConsistent, RequestConsistent, JoinTimesDiffer
  <2>3. \A q \in Requests : At(q, "create")' => At(q, "create") /\ request'[q] = request[q]
    BY <2>1, <1>t DEF At, Continue, Request
  <2>4. QED
    BY <2>1, <2>2, <2>3, <1>k, <1>t DEF JoinTimesDiffer
<1>3. ASSUME NEW r \in Requests, NEW e \in Entries, LeaveRead(r, e) \/ \E s \in Targets : UpdateRead(r, e, s)
      PROVE  JoinTimesDiffer'
  <2>1. /\ request'[r].at # "create"
        /\ \A q \in Requests \ {r} : SameWork(request'[q], request[q])
    BY <1>3, Updates, Leaves DEF Begins
  <2>2. \A q \in Requests : At(q, "create")' => At(q, "create") /\ request'[q].subject = request[q].subject
    BY <2>1 DEF SameWork, At
  <2>3. UNCHANGED <<status, joinedAt, clock>>
    BY <1>3 DEF UpdateRead, LeaveRead, rows
  <2>4. QED
    BY <2>2, <2>3, <1>k DEF JoinTimesDiffer
<1>4. ASSUME NEW r \in Requests,
             LeaveCheck(r) \/ RejectEstimates(r) \/ ClearKey(r) \/ Fail(r) \/ Publish(r) \/ ClaimNextInLine(r)
      PROVE  JoinTimesDiffer'
  <2>1. \/ Continue(r, "write") \/ Continue(r, "claim") \/ Finish(r)
        \/ request' = [request EXCEPT ![r] = [request[r] EXCEPT !.at = "clear", !.list = {}]]
    BY <1>4 DEF LeaveCheck, RejectEstimates, ClearKey, Fail, Publish, ClaimNextInLine, AfterRecalculation
  <2>2. (\A q \in Requests \ {r} : request'[q] = request[q]) /\ request'[r].at # "create"
    <3>1. CASE Continue(r, "write") \/ Continue(r, "claim")
      BY <3>1, <1>t DEF Continue, Request
    <3>2. CASE Finish(r)
      BY <3>2, <1>t DEF Finish, Idle
    <3>3. CASE request' = [request EXCEPT ![r] = [request[r] EXCEPT !.at = "clear", !.list = {}]]
      BY <3>3, <1>t DEF Request
    <3>4. QED
      BY <2>1, <3>1, <3>2, <3>3
  <2>3. UNCHANGED <<status, joinedAt, clock>>
    BY <1>4 DEF LeaveCheck, RejectEstimates, ClearKey, Fail, Publish, ClaimNextInLine, rows
  <2>4. QED
    BY <2>2, <2>3, <1>r
<1>5. ASSUME NEW r \in Requests, Snapshot(r) \/ EstimateWaits(r) \/ ReadActive(r)
      PROVE  JoinTimesDiffer'
  <2>1. (\A q \in Requests \ {r} : request'[q] = request[q]) /\ request'[r].at # "create"
    <3>1. CASE Snapshot(r)
      <4>1. PICK B, M :
              \/ request' = [request EXCEPT ![r] = [request[r] EXCEPT !.at = "publish"]]
              \/ request' = [request EXCEPT ![r] = [request[r] EXCEPT !.at = "serving", !.batch = B, !.moved = M]]
        BY <3>1 DEF Snapshot
      <4>2. QED
        BY <4>1, <1>t DEF Request
    <3>2. CASE EstimateWaits(r)
      BY <3>2, <1>t DEF EstimateWaits, Request
    <3>3. CASE ReadActive(r)
      <4>1. PICK L : request' = [request EXCEPT ![r] = [request[r] EXCEPT !.at = "publish", !.list = L]]
        BY <3>3 DEF ReadActive
      <4>2. QED
        BY <4>1, <1>t DEF Request
    <3>4. QED
      BY <1>5, <3>1, <3>2, <3>3
  <2>2. QED
    BY <1>5, <2>1, <1>r DEF Snapshot, EstimateWaits, ReadActive, rows
<1>6. ASSUME NEW r \in Requests, NEW e \in Entries, SavePosition(r, e) \/ LateSave(r, e) \/ FailSave(r, e)
      PROVE  JoinTimesDiffer'
  <2>1. request[r].at \in {"save", "abandoned"} /\ UNCHANGED <<status, joinedAt, clock>>
    BY <1>6 DEF SavePosition, LateSave, FailSave, At, rows
  <2>2. \/ request' = [request EXCEPT ![r] = [request[r] EXCEPT !.todo = {}, !.at = "active"]]
        \/ request' = [request EXCEPT ![r] = [request[r] EXCEPT !.todo = request[r].todo \ {e}]]
        \/ request' = [request EXCEPT ![r] = [request[r] EXCEPT !.at = "abandoned", !.todo = request[r].todo \ {e}]]
        \/ Finish(r)
    BY <1>6 DEF SavePosition, LateSave, FailSave, Finish
  <2>3. (\A q \in Requests \ {r} : request'[q] = request[q]) /\ request'[r].at # "create"
    <3>1. CASE Finish(r)
      BY <3>1, <1>t DEF Finish, Idle
    <3>2. CASE request' = [request EXCEPT ![r] = [request[r] EXCEPT !.todo = {}, !.at = "active"]]
      BY <3>2, <1>t DEF Request
    <3>3. CASE request' = [request EXCEPT ![r] = [request[r] EXCEPT !.todo = request[r].todo \ {e}]]
      BY <2>1, <3>3, <1>t DEF Request
    <3>4. CASE request' = [request EXCEPT ![r] = [request[r] EXCEPT !.at = "abandoned",
                                                                   !.todo = request[r].todo \ {e}]]
      BY <3>4, <1>t DEF Request
    <3>5. QED
      BY <2>2, <3>1, <3>2, <3>3, <3>4
  <2>4. QED
    BY <2>1, <2>3, <1>r
<1>7. ASSUME (\E d \in Entries : KeyLapses(d)) \/ UNCHANGED vars
      PROVE  JoinTimesDiffer'
  BY <1>7 DEF KeyLapses, vars, rows, JoinTimesDiffer, At
<1>8. QED
  BY <1>1, <1>2, <1>3, <1>4, <1>5, <1>6, <1>7 DEF Next, Start, Progress, Failure

-----------------------------------------------------------------------------
(* Requests that met no other.                                             *)

\* What is known of the queue stays known while no row is written.
LEMMA StillKnown ==
  ASSUME UNCHANGED rows, NEW r, NEW q, q = request'[r], KnowsTheQueue(q, view')
  PROVE  KnowsTheQueue(request[r], view)'
<1>1. \A s : QueuedIn(s)' = QueuedIn(s) /\ ActiveIn(s)' = ActiveIn(s)
  BY DEF QueuedIn, InScope, ActiveIn, rows
<1>2. \A S : ListOf(S)' = ListOf(S)
  BY DEF ListOf, rows
<1>3. \A S, e : Rank(S, e)' = Rank(S, e)
  BY DEF Rank, Ahead, rows
<1>4. QED
  BY <1>1, <1>2, <1>3 DEF KnowsTheQueue, rows

\* A position that is written changes neither who is queued nor the ranks.
LEMMA SameQueue ==
  ASSUME UNCHANGED <<status, barber, priority, joinedAt>>
  PROVE  /\ \A s : QueuedIn(s)' = QueuedIn(s)
         /\ \A S, e : Rank(S, e)' = Rank(S, e)
<1>1. \A s : QueuedIn(s)' = QueuedIn(s)
  BY DEF QueuedIn, InScope
<1>2. \A S, e : Rank(S, e)' = Rank(S, e)
  BY DEF Rank, Ahead
<1>3. QED
  BY <1>1, <1>2

LEMMA KnowsInit == Init => AloneKnows
BY DEF Init, AloneKnows, KnowsTheQueue, Idle

\* While a request that has met no other runs, nobody else takes a step.
LEMMA AloneSteps ==
  ASSUME TypeOK, RequestsConsistent, MeetingsKept, [Next]_vars,
         NEW r \in Requests, Runs(r)', request'[r].met = {}
  PROVE  \/ Start(r) \/ Progress(r) \/ Failure(r)
         \/ (\E d \in Entries : KeyLapses(d)) \/ UNCHANGED vars
<1>1. ASSUME NEW q \in Requests \ {r}, Start(q)
      PROVE  FALSE
  <2>1. PICK e \in Entries : /\ \A p \in Requests \ {q} : SameWork(request'[p], request[p])
                             /\ Runs(r) => request'[r].met = request[r].met \cup {e}
    BY <1>1, StartsBeside DEF Begins
  <2>2. QED
    BY <2>1 DEF Runs, At, SameWork
<1>2. ASSUME NEW q \in Requests \ {r}, Progress(q) \/ Failure(q)
      PROVE  FALSE
  <2>1. Runs(q)
    BY <1>2 DEF Progress, Failure, JoinCreate, LeaveCheck, WriteStatus, Snapshot, EstimateWaits,
                RejectEstimates, SavePosition, LateSave, ReadActive, Publish, ClaimNextInLine,
                ClearKey, Fail, FailSave, Runs, At
  <2>2. \E x : request' = [request EXCEPT ![q] = x]
    BY <1>2 DEF Progress, Failure, JoinCreate, LeaveCheck, WriteStatus, Snapshot, EstimateWaits,
                RejectEstimates, SavePosition, LateSave, ReadActive, Publish, ClaimNextInLine,
                ClearKey, Fail, FailSave, Continue, Finish, AfterRecalculation
  <2>3. request'[r] = request[r]
    BY <2>2 DEF TypeOK
  <2>4. QED
    BY <2>1, <2>3 DEF MeetingsKept, Runs, At
<1>3. QED
  BY <1>1, <1>2 DEF Next

\* On its way a request forgets nobody it has met.
LEMMA MetKept ==
  ASSUME TypeOK, NEW r \in Requests, Progress(r) \/ Failure(r), Runs(r)'
  PROVE  request'[r].met = request[r].met
<1>t. request \in [Requests -> Request] /\ request[r] \in Request
  BY DEF TypeOK
<1>1. ~Finish(r)
  BY <1>t DEF Finish, Idle, Runs, At
<1> DEFINE Kept == request'[r].met = request[r].met
<1> SUFFICES Kept
  OBVIOUS
<1>2. ASSUME NEW step, Continue(r, step)
      PROVE  Kept
  BY <1>2, <1>t DEF Continue, Request
<1>3. CASE JoinCreate(r) \/ LeaveCheck(r) \/ WriteStatus(r)
  BY <1>1, <1>2, <1>3 DEF JoinCreate, LeaveCheck, WriteStatus
<1>4. CASE Snapshot(r)
  <2>1. PICK B, M :
          \/ request' = [request EXCEPT ![r] = [request[r] EXCEPT !.at = "publish"]]
          \/ request' = [request EXCEPT ![r] = [request[r] EXCEPT !.at = "serving", !.batch = B, !.moved = M]]
    BY <1>4 DEF Snapshot
  <2>2. QED
    BY <2>1, <1>t DEF Request
<1>5. CASE EstimateWaits(r)
  BY <1>5, <1>t DEF EstimateWaits, Request
<1>6. CASE ReadActive(r)
  <2>1. PICK L : request' = [request EXCEPT ![r] = [request[r] EXCEPT !.at = "publish", !.list = L]]
    BY <1>6 DEF ReadActive
  <2>2. QED
    BY <2>1, <1>t DEF Request
<1>7. ASSUME AfterRecalculation(r)
      PROVE  Kept
  <2>1. request' = [request EXCEPT ![r] = [request[r] EXCEPT !.at = "clear", !.list = {}]]
    BY <1>1, <1>7 DEF AfterRecalculation
  <2>2. QED
    BY <2>1, <1>t DEF Request
<1>8. CASE Publish(r) \/ ClaimNextInLine(r)
  BY <1>2, <1>7, <1>8 DEF Publish, ClaimNextInLine
<1>9. CASE RejectEstimates(r) \/ ClearKey(r) \/ Fail(r)
  BY <1>1, <1>9 DEF RejectEstimates, ClearKey, Fail
<1>10. CASE \E e \in Entries : SavePosition(r, e) \/ LateSave(r, e) \/ FailSave(r, e)
  <2>1. PICK e \in Entries : SavePosition(r, e) \/ LateSave(r, e) \/ FailSave(r, e)
    BY <1>10
  <2>2. PICK T :
          \/ request' = [request EXCEPT ![r] = [request[r] EXCEPT !.todo = T, !.at = "active"]]
          \/ request' = [request EXCEPT ![r] = [request[r] EXCEPT !.todo = T]]
          \/ request' = [request EXCEPT ![r] = [request[r] EXCEPT !.at = "abandoned", !.todo = T]]
    BY <2>1, <1>1 DEF SavePosition, LateSave, FailSave, Finish
  <2>3. QED
    BY <2>2, <1>t DEF Request
<1> HIDE DEF Kept
<1>11. QED
  BY <1>3, <1>4, <1>5, <1>6, <1>8, <1>9, <1>10 DEF Progress, Failure

LEMMA KnowsNext ==
  ASSUME TypeOK, RequestsConsistent, MeetingsKept, [Next]_vars,
         NEW r \in Requests, request[r].met = {} => KnowsTheQueue(request[r], view),
         Runs(r)', request'[r].met = {}
  PROVE  KnowsTheQueue(request[r], view)'
<1>o. \/ Start(r) \/ Progress(r) \/ Failure(r)
      \/ (\E d \in Entries : KeyLapses(d)) \/ UNCHANGED vars
  BY AloneSteps
<1>t. /\ status \in [Entries -> Statuses \cup {"ABSENT"}] /\ position \in [Entries -> Nat]
      /\ barber \in [Entries -> Scopes] /\ request \in [Requests -> Request]
      /\ request[r] \in Request
  BY DEF TypeOK
<1>b. request[r].at # "idle" => request[r].subject \in Entries
  BY DEF RequestsConsistent, RequestConsistent
<1>k. request[r].at # "idle" => KnowsTheQueue(request[r], view)
  <2>1. (\E d \in Entries : KeyLapses(d)) \/ UNCHANGED vars => request' = request
    BY DEF KeyLapses, vars
  <2>2. request[r].at # "idle" => ~Start(r)
    BY DEF Start, JoinAdmit, UpdateRead, LeaveRead, At
  <2>3. QED
    BY <1>o, <2>1, <2>2, MetKept
<1>f. ASSUME UNCHANGED rows, Finish(r)
      PROVE  KnowsTheQueue(request[r], view)'
  <2>1. request'[r] = Idle
    BY <1>f, <1>t DEF Finish
  <2>2. KnowsTheQueue(Idle, view')
    BY DEF KnowsTheQueue, Idle
  <2>3. QED
    BY <1>f, <2>1, <2>2, StillKnown
<1>1. CASE \E e \in Entries, b \in Scopes, p \in Priorities : JoinAdmit(r, e, b, p)
  <2>1. request'[r].at = "create" /\ request'[r].moved = {}
    BY <1>1, Joins DEF Begins
  <2>2. QED
    BY <2>1 DEF KnowsTheQueue
<1>2. CASE \E e \in Entries : LeaveRead(r, e) \/ \E s \in Targets : UpdateRead(r, e, s)
  <2>1. /\ request'[r].at \in {"write", "leave"} /\ request'[r].moved = {}
        /\ request'[r].scope = barber[request'[r].subject] /\ UNCHANGED rows
    <3>1. CASE \E e \in Entries : LeaveRead(r, e)
      BY <3>1, Leaves DEF LeaveRead, Begins, rows
    <3>2. CASE \E e \in Entries, s \in Targets : UpdateRead(r, e, s)
      BY <3>2, Updates DEF UpdateRead, Begins, rows
    <3>3. QED
      BY <1>2, <3>1, <3>2
  <2>2. QED
    BY <2>1 DEF KnowsTheQueue, rows
<1>3. CASE JoinCreate(r) \/ WriteStatus(r)
  <2>1. /\ request' = [request EXCEPT ![r] = [request[r] EXCEPT !.at = "snapshot"]]
        /\ UNCHANGED barber /\ request[r].at \in {"create", "write"}
    BY <1>3 DEF JoinCreate, WriteStatus, Continue, At
  <2>2. /\ request'[r].at = "snapshot" /\ request'[r].moved = request[r].moved
        /\ request'[r].subject = request[r].subject /\ request'[r].scope = request[r].scope
        /\ request'[r].target = request[r].target
    BY <2>1, <1>t DEF Request
  <2>3. request[r].moved = {}
    BY <2>1, <1>k DEF KnowsTheQueue
  <2>4. ASSUME request[r].target = "CALLED"
        PROVE  request[r].subject \in {e \in Entries : /\ request[r].scope \in {NoBarber, barber'[e]}
                                                       /\ status'[e] \in {"WAITING", "CALLED"}}
    <3>1. WriteStatus(r) /\ request[r].at = "write"
      BY <1>3, <2>4 DEF JoinCreate, At, RequestsConsistent, RequestConsistent, IsJoin, WriteStatus
    <3>2. request[r].scope = barber[request[r].subject]
      BY <3>1, <1>k DEF KnowsTheQueue
    <3>3. status'[request[r].subject] = "CALLED"
      BY <3>1, <2>1, <2>4, <1>b, <1>t DEF WriteStatus
    <3>4. QED
      BY <3>2, <3>3, <2>1, <1>b
  <2>5. request[r].target = "CALLED" => (request[r].subject \in QueuedIn(request[r].scope))'
    BY <2>2, <2>4 DEF QueuedIn, InScope
  <2>6. QED
    BY <2>2, <2>3, <2>5 DEF KnowsTheQueue
<1>4. CASE LeaveCheck(r)
  <2>1. UNCHANGED rows /\ request[r].at = "leave"
    BY <1>4 DEF LeaveCheck, At
  <2>2. CASE Continue(r, "write")
    <3>1. request'[r] = [request[r] EXCEPT !.at = "write"]
      BY <2>2, <1>t DEF Continue
    <3> DEFINE q == [request[r] EXCEPT !.at = "write"]
    <3>2. KnowsTheQueue(q, view')
      BY <2>1, <1>k, <1>t DEF KnowsTheQueue, Request
    <3> HIDE DEF q
    <3>3. QED
      BY <3>1, <3>2, <2>1, StillKnown DEF q
  <2>3. QED
    BY <1>4, <2>1, <2>2, <1>f DEF LeaveCheck
<1>5. CASE Snapshot(r)
  <2> DEFINE S == QueuedIn(request[r].scope)
             M == {e \in S : position[e] \notin {0, Rank(S, e)}}
             p == [request[r] EXCEPT !.at = "publish"]
             q == [request[r] EXCEPT !.at = "serving", !.batch = S, !.moved = M]
  <2>1. UNCHANGED rows /\ request[r].at = "snapshot" /\ request[r].moved = {}
    BY <1>5, <1>k DEF Snapshot, At, KnowsTheQueue
  <2>2. request'[r] = IF S = {} THEN p ELSE q
    BY <1>5, <1>t DEF Snapshot
  <2>3. S = QueuedIn(request[r].scope)
    OBVIOUS
  <2> HIDE DEF S, M
  <2>4. /\ p.at = "publish" /\ p.moved = request[r].moved /\ p.scope = request[r].scope
        /\ p.target = request[r].target /\ p.subject = request[r].subject
        /\ q.at = "serving" /\ q.batch = S /\ q.scope = request[r].scope
        /\ q.target = request[r].target /\ q.subject = request[r].subject
    BY <1>t DEF Request
  <2> HIDE DEF p, q
  <2>5. S = {} => KnowsTheQueue(p, view')
    BY <2>1, <2>3, <2>4, <1>k DEF KnowsTheQueue
  <2>6. KnowsTheQueue(q, view')
    BY <2>1, <2>3, <2>4, <1>k DEF KnowsTheQueue
  <2>7. QED
    BY <2>1, <2>2, <2>5, <2>6, StillKnown
<1>6. CASE EstimateWaits(r)
  <2> DEFINE q == [request[r] EXCEPT !.at = "save", !.todo = request[r].batch]
  <2>1. UNCHANGED rows /\ request[r].at = "serving" /\ request'[r] = q
    BY <1>6, <1>t DEF EstimateWaits, At
  <2>2. KnowsTheQueue(q, view')
    BY <2>1, <1>k, <1>t DEF KnowsTheQueue, Request
  <2> HIDE DEF q
  <2>3. QED
    BY <2>1, <2>2, StillKnown
<1>7. CASE RejectEstimates(r) \/ Fail(r) \/ ClearKey(r)
  BY <1>7, <1>f DEF RejectEstimates, Fail, ClearKey
<1>8. CASE \E e \in Entries : SavePosition(r, e)
  <2>1. PICK e \in Entries : SavePosition(r, e)
    BY <1>8
  <2>2. /\ request[r].at = "save" /\ e \in request[r].todo
        /\ position' = [position EXCEPT ![e] = Rank(request[r].batch, e)]
        /\ UNCHANGED <<status, barber, priority, joinedAt>>
    BY <2>1 DEF SavePosition, At
  <2>3. /\ request[r].batch = QueuedIn(request[r].scope)
        /\ \A d \in request[r].batch \ request[r].todo : position[d] = Rank(request[r].batch, d)
        /\ request[r].target = "CALLED" => request[r].subject \in QueuedIn(request[r].scope)
    BY <2>2, <1>k DEF KnowsTheQueue
  <2>4. \A d \in request[r].batch \ (request[r].todo \ {e}) : position'[d] = Rank(request[r].batch, d)
    BY <2>2, <2>3, <1>t DEF Request
  <2>5. /\ request'[r].scope = request[r].scope /\ request'[r].batch = request[r].batch
        /\ request'[r].target = request[r].target /\ request'[r].subject = request[r].subject
        /\ \/ request'[r].at = "save" /\ request'[r].todo = request[r].todo \ {e}
           \/ request'[r].at = "active" /\ request[r].todo = {e}
    <3>1. CASE request[r].todo = {e}
      BY <2>1, <3>1, <1>t DEF SavePosition, Request
    <3>2. CASE request[r].todo # {e}
      BY <2>1, <2>2, <3>2, <1>t DEF SavePosition, Request
    <3>3. QED
      BY <3>1, <3>2
  <2>6. QueuedIn(request[r].scope)' = QueuedIn(request[r].scope)
    BY <2>2, <2>5 DEF QueuedIn, InScope
  <2>7. \A S, d : Rank(S, d)' = Rank(S, d)
    BY <2>2, SameQueue
  <2>8. QED
    BY <2>3, <2>4, <2>5, <2>6, <2>7 DEF KnowsTheQueue
<1>9. CASE \E e \in Entries : LateSave(r, e) \/ FailSave(r, e)
  <2>1. PICK e \in Entries : LateSave(r, e) \/ FailSave(r, e)
    BY <1>9
  <2>2. /\ UNCHANGED <<status, barber>> /\ request[r].at \in {"save", "abandoned"}
        /\ request[r].target = "CALLED" => request[r].subject \in QueuedIn(request[r].scope)
    BY <2>1, <1>k DEF LateSave, FailSave, At, rows, KnowsTheQueue
  <2>3. \/ request'[r] = Idle
        \/ /\ request'[r].at = "abandoned" /\ request'[r].scope = request[r].scope
           /\ request'[r].target = request[r].target /\ request'[r].subject = request[r].subject
    <3>1. CASE request[r].todo = {e}
      BY <2>1, <3>1, <1>t DEF LateSave, FailSave
    <3>2. CASE request[r].todo # {e}
      <4>1. CASE LateSave(r, e)
        BY <3>2, <4>1, <1>t DEF LateSave, At, Request
      <4>2. CASE FailSave(r, e)
        <5>1. request' = [request EXCEPT ![r] = [request[r] EXCEPT !.at = "abandoned", !.todo = request[r].todo \ {e}]]
          BY <3>2, <4>2 DEF FailSave
        <5>2. QED
          BY <5>1, <1>t DEF Request
      <4>3. QED
        BY <2>1, <4>1, <4>2
    <3>3. QED
      BY <3>1, <3>2
  <2>4. CASE request'[r] = Idle
    BY <2>4 DEF KnowsTheQueue, Idle
  <2>5. CASE request'[r].at = "abandoned" /\ request'[r].scope = request[r].scope
             /\ request'[r].target = request[r].target /\ request'[r].subject = request[r].subject
    <3>1. QueuedIn(request[r].scope)' = QueuedIn(request[r].scope)
      BY <2>2, <2>5 DEF QueuedIn, InScope
    <3>2. QED
      BY <2>2, <2>5, <3>1 DEF KnowsTheQueue
  <2>6. QED
    BY <2>3, <2>4, <2>5
<1>10. CASE ReadActive(r)
  <2> DEFINE L == ListOf(ActiveIn(request[r].scope))
             q == [request[r] EXCEPT !.at = "publish", !.list = L]
  <2>1. UNCHANGED rows /\ request[r].at = "active" /\ request'[r] = q
    BY <1>10, <1>t DEF ReadActive, At
  <2>2. L = ListOf(ActiveIn(request[r].scope))
    OBVIOUS
  <2> HIDE DEF L
  <2>3. KnowsTheQueue(q, view')
    BY <2>1, <2>2, <1>k, <1>t DEF KnowsTheQueue, Request
  <2> HIDE DEF q
  <2>4. QED
    BY <2>1, <2>3, StillKnown
<1>11. CASE Publish(r) \/ ClaimNextInLine(r)
  <2>1. /\ UNCHANGED rows /\ request[r].at \in {"publish", "claim"}
        /\ view' = IF request[r].at = "publish" THEN [scope |-> request[r].scope, list |-> request[r].list] ELSE view
        /\ \/ request[r].at = "publish" /\ Heads(r) # {} /\ Continue(r, "claim")
           \/ AfterRecalculation(r)
    BY <1>11 DEF Publish, ClaimNextInLine, At
  <2>2. (QueuedIn(request[r].scope) # {} \/ request[r].moved # {}) =>
          view' = [scope |-> request[r].scope, list |-> ListOf(ActiveIn(request[r].scope))]
            \/ (request[r].at = "claim" /\ view' = view)
    BY <2>1, <1>k DEF KnowsTheQueue
  <2>3. Heads(r) # {} => request[r].moved # {}
    BY DEF Heads
  <2>4. request[r].at = "claim" => view = [scope |-> request[r].scope, list |-> ListOf(ActiveIn(request[r].scope))]
    BY <2>1, <1>k DEF KnowsTheQueue
  <2>5. request[r].target = "CALLED" => request[r].subject \in QueuedIn(request[r].scope)
    BY <2>1, <1>k DEF KnowsTheQueue
  <2>6. CASE Heads(r) # {} /\ request[r].at = "publish" /\ Continue(r, "claim")
    <3> DEFINE q == [request[r] EXCEPT !.at = "claim"]
    <3>1. request'[r] = q
      BY <2>6, <1>t DEF Continue
    <3>2. q.at = "claim" /\ q.scope = request[r].scope /\ q.target = request[r].target /\ q.subject = request[r].subject
      BY <1>t DEF Request
    <3> HIDE DEF q
    <3>3. KnowsTheQueue(q, view')
      BY <2>2, <2>3, <2>4, <2>5, <2>6, <3>2 DEF KnowsTheQueue
    <3>4. QED
      BY <2>1, <3>1, <3>3, StillKnown
  <2>7. CASE AfterRecalculation(r) /\ ClearsKey(request[r].target)
    <3> DEFINE q == [request[r] EXCEPT !.at = "clear", !.list = {}]
    <3>1. request'[r] = q
      BY <2>7, <1>t DEF AfterRecalculation
    <3>2. q.at = "clear" /\ q.scope = request[r].scope /\ q.target = request[r].target /\ q.subject = request[r].subject
      BY <1>t DEF Request
    <3> HIDE DEF q
    <3>3. KnowsTheQueue(q, view')
      BY <2>2, <2>4, <2>5, <3>2 DEF KnowsTheQueue
    <3>4. QED
      BY <2>1, <3>1, <3>3, StillKnown
  <2>8. CASE AfterRecalculation(r) /\ ~ClearsKey(request[r].target)
    BY <2>1, <2>8, <1>f DEF AfterRecalculation
  <2>9. QED
    BY <2>1, <2>6, <2>7, <2>8
<1>12. CASE (\E d \in Entries : KeyLapses(d)) \/ UNCHANGED vars
  <2>1. request' = request /\ UNCHANGED rows /\ view' = view
    BY <1>12 DEF KeyLapses, vars
  <2>2. request[r].at # "idle"
    BY <2>1 DEF Runs, At
  <2>3. QED
    BY <2>1, <2>2, <1>k, StillKnown
<1>13. QED
  BY <1>o, <1>1, <1>2, <1>3, <1>4, <1>5, <1>6, <1>7, <1>8, <1>9, <1>10, <1>11, <1>12
     DEF Start, Progress, Failure

-----------------------------------------------------------------------------
(* Ranks.                                                                  *)

(* assignPositions numbers the rows it is given 1..n: where no two join    *)
(* at once, sortQueueEntries leaves no two rows in one place, and a        *)
(* smaller number means a higher priority or, among equals, an earlier     *)
(* join.                                                                   *)
LEMMA RanksNumberTheQueue ==
  ASSUME NEW S \in SUBSET Entries,
         priority \in [Entries -> Nat], joinedAt \in [Entries -> Nat],
         \A d, e \in S : d # e => joinedAt[d] # joinedAt[e]
  PROVE  /\ {Rank(S, e) : e \in S} = 1..Cardinality(S)
         /\ \A d, e \in S : Rank(S, d) < Rank(S, e) => Ahead(d, e)
<1> DEFINE Front(e) == {d \in S : Ahead(d, e)}
<1>1. IsFiniteSet(S) /\ Cardinality(S) \in Nat
  BY QueueAssumption, FS_Subset, FS_CardinalityType
<1>2. ASSUME NEW e \in S
      PROVE  /\ IsFiniteSet(Front(e)) /\ Cardinality(Front(e)) \in Nat
             /\ Cardinality(Front(e)) < Cardinality(S)
             /\ Rank(S, e) = 1 + Cardinality(Front(e))
  <2>1. Front(e) \in SUBSET S /\ e \notin Front(e)
    BY DEF Ahead, GoesBefore
  <2>2. Rank(S, e) = 1 + Cardinality(Front(e))
    BY DEF Rank
  <2> HIDE DEF Front
  <2>3. IsFiniteSet(Front(e)) /\ Cardinality(Front(e)) <= Cardinality(S) /\ Cardinality(Front(e)) # Cardinality(S)
    BY <2>1, <1>1, FS_Subset
  <2>4. Cardinality(Front(e)) \in Nat
    BY <2>3, FS_CardinalityType
  <2>5. QED
    BY <2>2, <2>3, <2>4, <1>1
<1>3. ASSUME NEW d \in S, NEW e \in S, Ahead(d, e)
      PROVE  Rank(S, d) < Rank(S, e)
  <2>1. Front(d) \in SUBSET Front(e) /\ d \in Front(e) /\ d \notin Front(d)
    BY <1>3 DEF Ahead, GoesBefore
  <2>2. IsFiniteSet(Front(e)) /\ IsFiniteSet(Front(d))
        /\ Cardinality(Front(d)) \in Nat /\ Cardinality(Front(e)) \in Nat
        /\ Rank(S, d) = 1 + Cardinality(Front(d)) /\ Rank(S, e) = 1 + Cardinality(Front(e))
    BY <1>2
  <2> HIDE DEF Front
  <2>3. Cardinality(Front(d)) <= Cardinality(Front(e)) /\ Cardinality(Front(d)) # Cardinality(Front(e))
    BY <2>1, <2>2, FS_Subset
  <2>4. QED
    BY <2>2, <2>3
<1>4. \A d, e \in S : d = e \/ Ahead(d, e) \/ Ahead(e, d)
  BY DEF Ahead, GoesBefore
<1>5. \A d, e \in S : Rank(S, d) \in 1..Cardinality(S) /\ (Rank(S, d) = Rank(S, e) => d = e)
  <2>1. ASSUME NEW e \in S
        PROVE  Rank(S, e) \in 1..Cardinality(S)
    <3>1. /\ Cardinality(Front(e)) \in Nat /\ Cardinality(Front(e)) < Cardinality(S)
          /\ Rank(S, e) = 1 + Cardinality(Front(e))
      BY <1>2
    <3> HIDE DEF Front
    <3>2. QED
      BY <3>1, <1>1
  <2>2. QED
    BY <2>1, <1>3, <1>4
<1>6. {Rank(S, e) : e \in S} = 1..Cardinality(S)
  <2> DEFINE f == [e \in S |-> Rank(S, e)]
             n == Cardinality(S)
  <2>1. f \in Injection(S, 1..n)
    BY <1>5 DEF Injection, IsInjective
  <2>2. \A e \in S : f[e] = Rank(S, e)
    OBVIOUS
  <2>3. n = Cardinality(S)
    OBVIOUS
  <2> HIDE DEF f, n
  <2>4. IsFiniteSet(1..n) /\ Cardinality(1..n) = n
    BY <1>1, <2>3, FS_Interval
  <2>5. f \in Surjection(S, 1..n)
    BY <2>1, <2>3, <2>4, FS_Injection
  <2>6. \A k \in 1..n : \E e \in S : f[e] = k
    BY <2>5 DEF Surjection
  <2>7. QED
    BY <2>2, <2>3, <2>6, <1>5
<1>7. \A d, e \in S : Rank(S, d) < Rank(S, e) => Ahead(d, e)
  <2> SUFFICES ASSUME NEW d \in S, NEW e \in S, Rank(S, d) < Rank(S, e)
               PROVE  Ahead(d, e)
    OBVIOUS
  <2>1. Rank(S, d) \in Nat /\ Rank(S, e) \in Nat
    BY RankIsPositive
  <2>2. ~Ahead(e, d) /\ d # e
    BY <2>1, <1>3
  <2>3. QED
    BY <2>2, <1>4
<1>8. QED
  BY <1>6, <1>7

-----------------------------------------------------------------------------
(* The theorems.                                                           *)

LEMMA Inductive == Spec => []IInv
<1>1. Init => IInv
  BY TypeOKInit, ConsistentInit, NoticeInit, CarriedInit, MeetingsInit DEF IInv
<1>2. IInv /\ [Next]_vars => IInv'
  BY TypeOKNext, ConsistentNext, NoticeNext, CarriedNext, MeetingsNext DEF IInv
<1>3. QED
  BY <1>1, <1>2, PTL DEF Spec

(* Every variable keeps its type, whatever overlaps and whatever fails.    *)
THEOREM TypeCorrect == Spec => []TypeOK
<1>1. IInv => TypeOK
  BY DEF IInv
<1>2. QED
  BY <1>1, Inductive, PTL

(* queue.service.ts, step 6 of recalculateQueue: however many              *)
(* recalculations overlap, a customer who still waits has heard            *)
(* NEXT_IN_LINE at most once while the key of the first notice lives.      *)
THEOREM NextInLineOnce == Spec => []NextInLineOnceWhileWaiting
<1>1. IInv => NextInLineOnceWhileWaiting
  <2> SUFFICES ASSUME IInv, NEW e \in Entries, status[e] = "WAITING", e \notin lapsed
               PROVE  nextSent[e] <= 1
    BY DEF NextInLineOnceWhileWaiting
  <2>1. nextSent[e] \in Nat
    BY DEF IInv, TypeOK
  <2>2. nextSent[e] <= IF e \in keys THEN 1 ELSE 0
    BY DEF IInv, KeyGuardsNotice
  <2>3. QED
    BY <2>1, <2>2
<1>2. QED
  BY <1>1, Inductive, PTL

(* joinQueue inserts a row with position 0: a row that waits without a     *)
(* position is one its joinQueue will still number, or whose joinQueue     *)
(* answered with an error.                                                 *)
THEOREM NoRowLeftUnnumbered == Spec => []UnnumberedOnlyWhileJoining
<1>1. IInv => UnnumberedOnlyWhileJoining
  BY DEF IInv, UnnumberedIsCarried, Carries, UnnumberedOnlyWhileJoining
<1>2. QED
  BY <1>1, Inductive, PTL

(* The only write that makes a row wait is its insert, although            *)
(* updateStatus writes a status it checked against an older one.           *)
THEOREM NobodyWaitsAgain == Spec => NeverBackToWaiting
<1>1. IInv /\ [Next]_vars =>
        [\A e \in Entries : status'[e] = "WAITING" => status[e] \in {"ABSENT", "WAITING"}]_status
  BY OnlyForward DEF IInv
<1>2. QED
  BY <1>1, Inductive, PTL DEF Spec, NeverBackToWaiting

(* updateStatus reads a row, checks the transition and writes by id alone, *)
(* with nothing that holds the row meanwhile: whatever overlaps and        *)
(* whatever fails, a status that no transition leads to is written only by *)
(* a request that another request on the same row ran beside.              *)
THEOREM OverwrittenOnlyWhenMet == Spec => OnlyMetCallersOverwrite
<1> DEFINE Justified(e) ==
      status'[e] # status[e] =>
        \/ status[e] = "ABSENT" /\ status'[e] = "WAITING"
        \/ IsValidTransition(status[e], status'[e])
        \/ \E r \in Requests : At(r, "write") /\ request[r].subject = e /\ e \in request[r].met
<1>1. IInv /\ [Next]_vars => [\A e \in Entries : Justified(e)]_status
  <2> SUFFICES ASSUME IInv, [Next]_vars, NEW e \in Entries
               PROVE  Justified(e)
    OBVIOUS
  <2>t. status \in [Entries -> Statuses \cup {"ABSENT"}]
    BY DEF IInv, TypeOK
  <2>1. ASSUME NEW r \in Requests, JoinCreate(r)
        PROVE  Justified(e)
    BY <2>1, <2>t DEF JoinCreate, At, IInv, RequestsConsistent, RequestConsistent
  <2>2. ASSUME NEW r \in Requests, WriteStatus(r)
        PROVE  Justified(e)
    <3>1. At(r, "write") /\ Runs(r) /\ status' = [status EXCEPT ![request[r].subject] = request[r].target]
      BY <2>2 DEF WriteStatus, At, Runs
    <3>2. request[r].subject \notin request[r].met =>
            IsValidTransition(status[request[r].subject], request[r].target)
      BY <3>1 DEF IInv, MeetingsKept
    <3>3. QED
      BY <3>1, <3>2, <2>t
  <2>3. ASSUME UNCHANGED status
        PROVE  Justified(e)
    BY <2>3
  <2> HIDE DEF Justified
  <2>4. ASSUME NEW r \in Requests, Start(r)
        PROVE  Justified(e)
    BY <2>4, <2>3 DEF Start, JoinAdmit, UpdateRead, LeaveRead, rows
  <2>5. ASSUME NEW r \in Requests, Progress(r)
        PROVE  Justified(e)
    BY <2>5, <2>1, <2>2, <2>3
       DEF Progress, LeaveCheck, Snapshot, EstimateWaits, RejectEstimates, SavePosition,
           LateSave, ReadActive, Publish, ClaimNextInLine, ClearKey, rows
  <2>6. ASSUME NEW r \in Requests, Failure(r)
        PROVE  Justified(e)
    BY <2>6, <2>3 DEF Failure, Fail, FailSave, rows
  <2>7. ASSUME (\E d \in Entries : KeyLapses(d)) \/ UNCHANGED vars
        PROVE  Justified(e)
    BY <2>7, <2>3 DEF KeyLapses, vars, rows
  <2>8. QED
    BY <2>4, <2>5, <2>6, <2>7 DEF Next
<1>2. QED
  BY <1>1, Inductive, PTL DEF Spec, OnlyMetCallersOverwrite

LEMMA AloneInductive == Spec => []AloneInv
<1>1. Init => AloneInv
  BY JoinTimesInit, KnowsInit DEF AloneInv
<1>2. IInv /\ AloneInv /\ [Next]_vars => AloneInv'
  <2> SUFFICES ASSUME IInv, AloneInv, [Next]_vars
               PROVE  AloneInv'
    OBVIOUS
  <2>1. JoinTimesDiffer'
    BY JoinTimesNext DEF IInv, AloneInv
  <2>2. ASSUME NEW r \in Requests, request'[r].met = {}
        PROVE  KnowsTheQueue(request[r], view)'
    <3>1. CASE Runs(r)'
      BY <2>2, <3>1, KnowsNext DEF IInv, AloneInv, AloneKnows
    <3>2. CASE ~Runs(r)'
      BY <3>2 DEF Runs, At, KnowsTheQueue
    <3>3. QED
      BY <3>1, <3>2
  <2>3. QED
    BY <2>1, <2>2 DEF AloneInv, AloneKnows
<1>3. QED
  BY <1>1, <1>2, Inductive, PTL DEF Spec

(* recalculateQueue, with any number of requests, any of which may overlap *)
(* or fail: the rows it has just written are numbered 1..n, by priority    *)
(* and then by the time of joining, if no other request - nor the updates  *)
(* that one that failed has left behind - ran beside it, whatever          *)
(* overlapped before.                                                      *)
THEOREM NumberedInTurn == Spec => []PositionsRanked
<1>1. IInv /\ AloneInv => PositionsRanked
  <2> SUFFICES ASSUME IInv, AloneInv, NEW r \in Requests, At(r, "active"), request[r].met = {}
               PROVE  LET Q == {e \in Entries : /\ request[r].scope \in {NoBarber, barber[e]}
                                                /\ status[e] \in {"WAITING", "CALLED"}}
                      IN /\ {position[e] : e \in Q} = 1..Cardinality(Q)
                         /\ \A d, e \in Q : position[d] < position[e] =>
                              \/ priority[d] > priority[e]
                              \/ priority[d] = priority[e] /\ joinedAt[d] < joinedAt[e]
    BY DEF PositionsRanked
  <2> DEFINE Q == {e \in Entries : /\ request[r].scope \in {NoBarber, barber[e]}
                                   /\ status[e] \in {"WAITING", "CALLED"}}
  <2>1. QueuedIn(request[r].scope) = Q
    BY DEF QueuedIn, InScope
  <2>2. Q \in SUBSET Entries /\ \A e \in Q : status[e] # "ABSENT"
    OBVIOUS
  <2> HIDE DEF Q
  <2>3. \A e \in Q : position[e] = Rank(Q, e)
    BY <2>1 DEF AloneInv, AloneKnows, KnowsTheQueue, At
  <2>4. priority \in [Entries -> Nat] /\ joinedAt \in [Entries -> Nat]
    BY DEF IInv, TypeOK
  <2>5. \A d, e \in Q : d # e => joinedAt[d] # joinedAt[e]
    BY <2>2 DEF AloneInv, JoinTimesDiffer
  <2>6. /\ {Rank(Q, e) : e \in Q} = 1..Cardinality(Q)
        /\ \A d, e \in Q : Rank(Q, d) < Rank(Q, e) => Ahead(d, e)
    BY <2>2, <2>4, <2>5, RanksNumberTheQueue
  <2>7. {position[e] : e \in Q} = {Rank(Q, e) : e \in Q}
    BY <2>3
  <2>8. /\ {position[e] : e \in Q} = 1..Cardinality(Q)
        /\ \A d, e \in Q : position[d] < position[e] =>
             \/ priority[d] > priority[e]
             \/ priority[d] = priority[e] /\ joinedAt[d] < joinedAt[e]
    BY <2>3, <2>6, <2>7 DEF Ahead, GoesBefore
  <2>9. QED
    BY <2>8 DEF Q
<1>2. QED
  BY <1>1, Inductive, AloneInductive, PTL

(* recalculateQueue and updateStatus, with any number of requests, any of  *)
(* which may overlap or fail: the list that was broadcast before           *)
(* NEXT_IN_LINE or QUEUE_CALLED goes out is what the database holds at     *)
(* that moment, if no other request ran beside this one - although the     *)
(* list is read in a query of its own, and not at all when nobody is left  *)
(* to number, and although others may have broadcast before.               *)
THEOREM ToldWhatIsShown == Spec => []ToastsAfterTheirBroadcast
<1>1. AloneInv => ToastsAfterTheirBroadcast
  <2> SUFFICES ASSUME AloneInv, NEW r \in Requests, request[r].met = {},
                      At(r, "claim") \/ (At(r, "clear") /\ request[r].target = "CALLED")
               PROVE  /\ view.scope = request[r].scope
                      /\ view.list = {<<e, status[e], position[e]>> :
                           e \in {d \in Entries : /\ view.scope \in {NoBarber, barber[d]}
                                                  /\ status[d] \in {"WAITING", "CALLED", "SERVING"}}}
    BY DEF ToastsAfterTheirBroadcast
  <2>1. view = [scope |-> request[r].scope, list |-> ListOf(ActiveIn(request[r].scope))]
    BY DEF AloneInv, AloneKnows, KnowsTheQueue, At
  <2>2. view.scope = request[r].scope /\ view.list = ListOf(ActiveIn(view.scope))
    BY <2>1
  <2>3. ActiveIn(view.scope) = {d \in Entries : /\ view.scope \in {NoBarber, barber[d]}
                                                /\ status[d] \in {"WAITING", "CALLED", "SERVING"}}
    BY DEF ActiveIn, InScope, ActiveStatuses
  <2>4. QED
    BY <2>2, <2>3 DEF ListOf
<1>2. QED
  BY <1>1, AloneInductive, PTL
=============================================================================
