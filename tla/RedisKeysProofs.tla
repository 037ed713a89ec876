--------------------------- MODULE RedisKeysProofs ---------------------------
(***************************************************************************)
(* Theorems about what the API keeps in Redis: TicketCounter, for any      *)
(* number of joins, appointments, days and failures, and Accounts, for any *)
(* users, roles and shop names, any number of attempts, and any finite     *)
(* number of overlapping calls.                                            *)
(***************************************************************************)
EXTENDS TicketCounter, Accounts, FiniteSetTheorems, TLAPS

-----------------------------------------------------------------------------
(* Ticket numbers.                                                         *)

LEMMA InvInit == Init => IInv
<1> SUFFICES ASSUME Init
             PROVE  IInv
  OBVIOUS
<1>1. 1 \in Days /\ \A d \in Days : d >= 1
  BY TicketAssumption DEF Days
<1>2. TypeOK
  BY <1>1, TicketAssumption DEF Init, TypeOK, Join
<1>3. TicketsBelowCounter /\ TicketsUnique
  BY DEF Init, TicketsBelowCounter, TicketsUnique, InFlight
<1>4. QED
  BY <1>2, <1>3 DEF IInv

(* Every variable keeps its type.  The invariant is needed where a call    *)
(* writes to the counter of its date.                                      *)
LEMMA TypeNext == IInv /\ [Next]_vars => TypeOK'
<1> SUFFICES ASSUME IInv, [Next]_vars
             PROVE  TypeOK'
  OBVIOUS
<1> USE DEF TypeOK
<1>t. TypeOK /\ \A j \in Joins : InFlight(j) => join[j].day \in Days
  BY DEF IInv, TicketsBelowCounter
<1>j. ASSUME NEW j \in Joins
      PROVE  join[j] \in Join
  BY <1>t
<1>n. \A d \in Days : NextNumber(d) \in Nat /\ KeyRunsOut(d) \in Nat
  BY <1>t DEF NextNumber, KeyRunsOut, Days
<1>1. ASSUME NEW j \in Joins, NEW a \in Appointments \cup {NoAppointment}, Begin(j, a)
      PROVE  TypeOK'
  <2>1. [join[j] EXCEPT !.at = "incr", !.day = today, !.appointment = a] \in Join
    BY <1>j, <1>t DEF Join
  <2>2. QED
    BY <1>1, <2>1, <1>t DEF Begin, Step
<1>2. ASSUME NEW j \in Joins, Incr(j) \/ FailAfterIncr(j)
      PROVE  TypeOK'
  <2> DEFINE n == NextNumber(join[j].day)
  <2>0. join[j].day \in Days /\ n \in Nat
    BY <1>2, <1>t, <1>n DEF Incr, FailAfterIncr, InFlight
  <2>1. /\ [join[j] EXCEPT !.at = AfterIncr(n), !.ticket = n] \in Join
        /\ [join[j] EXCEPT !.at = "failed", !.ticket = n] \in Join
    <3> HIDE DEF n
    <3>1. QED
      BY <1>j, <2>0 DEF Join, AfterIncr
  <2>2. QED
    BY <1>2, <2>0, <2>1, <1>t, TicketAssumption DEF Incr, FailAfterIncr, Step
<1>3. ASSUME NEW j \in Joins, SetExpiry(j)
      PROVE  TypeOK'
  <2>1. [join[j] EXCEPT !.at = "create"] \in Join
    BY <1>j DEF Join
  <2>2. QED
    BY <1>3, <2>1, <1>t, <1>n DEF SetExpiry, Step
<1>4. ASSUME NEW j \in Joins, Create(j) \/ Fail(j)
      PROVE  TypeOK'
  <2>1. /\ [join[j] EXCEPT !.at = "failed"] \in Join
        /\ [join[j] EXCEPT !.at = "joined", !.joinedOn = today] \in Join
    BY <1>j, <1>t DEF Join
  <2>2. QED
    BY <1>4, <2>1, <1>t, TicketAssumption DEF Create, Fail, Step
<1>5. ASSUME Midnight
      PROVE  TypeOK'
  <2>1. today + 1 \in Days
    BY <1>5, <1>t, TicketAssumption DEF Midnight, Days
  <2>2. QED
    BY <1>5, <2>1, <1>t DEF Midnight
<1>6. ASSUME NEW d \in Days, KeyExpires(d)
      PROVE  TypeOK'
  BY <1>6, <1>t DEF KeyExpires
<1>7. CASE UNCHANGED vars
  BY <1>7, <1>t DEF vars
<1>8. QED
  BY <1>1, <1>2, <1>3, <1>4, <1>5, <1>6, <1>7 DEF Next

(* Numbers that were given out stay at or below their counter for as long  *)
(* as a join may still count on their date, and a new number is above it.  *)
LEMMA NumbersNext == IInv /\ [Next]_vars => TicketsBelowCounter' /\ TicketsUnique'
<1> SUFFICES ASSUME IInv, [Next]_vars
             PROVE  TicketsBelowCounter' /\ TicketsUnique'
  OBVIOUS
<1> USE DEF TicketsBelowCounter, TicketsUnique, InFlight
<1>t. /\ today \in Days
      /\ counter \in [Days -> Nat]
      /\ expiry \in [Days -> Nat]
      /\ join \in [Joins -> Join]
      /\ \A j \in Joins : join[j] \in Join /\ join[j].ticket \in Nat /\ join[j].day \in Days \cup {0}
      /\ \A d \in Days : d \in Nat \ {0}
      /\ 0 \notin Days
  BY DEF IInv, TypeOK, Join, Days
<1>i. TicketsBelowCounter /\ TicketsUnique
  BY DEF IInv
<1>1. ASSUME NEW j \in Joins, NEW a \in Appointments \cup {NoAppointment}, Begin(j, a)
      PROVE  TicketsBelowCounter' /\ TicketsUnique'
  BY <1>1, <1>t, <1>i DEF Begin, Step, Join
<1>2. ASSUME NEW j \in Joins, Incr(j) \/ FailAfterIncr(j)
      PROVE  TicketsBelowCounter' /\ TicketsUnique'
  <2> DEFINE d == join[j].day
             n == counter[d] + 1
  <2>1. /\ d \in Days /\ d >= today - 1 /\ d <= today
        /\ join[j].ticket = 0
        /\ counter' = [counter EXCEPT ![d] = n]
        /\ UNCHANGED <<today, expiry>>
    BY <1>2, <1>t, <1>i DEF Incr, FailAfterIncr, NextNumber
  <2>2. /\ join'[j].day = d /\ join'[j].ticket = n
        /\ join'[j].at \in {"expire", "create", "failed"}
        /\ \A i \in Joins \ {j} : join'[i] = join[i]
    <3> DEFINE step == IF Incr(j) THEN AfterIncr(n) ELSE "failed"
    <3>1. join' = [join EXCEPT ![j] = [join[j] EXCEPT !.at = step, !.ticket = n]]
      BY <1>2 DEF Incr, FailAfterIncr, NextNumber, Step
    <3>2. step \in {"expire", "create", "failed"}
      BY DEF AfterIncr
    <3> HIDE DEF step, n
    <3>3. QED
      BY <3>1, <3>2, <1>t DEF Join
  <2>3. \A i \in Joins \ {j} : join[i].day = d => join[i].ticket <= counter[d]
    BY <2>1, <1>i, <1>t
  <2>4. n \in Nat /\ counter[d] \in Nat /\ n > counter[d]
    BY <2>1, <1>t
  <2> HIDE DEF n
  <2>5. TicketsUnique'
    <3> SUFFICES ASSUME NEW i \in Joins, NEW k \in Joins, i # k, join'[i].day = join'[k].day,
                        join'[i].ticket = join'[k].ticket
                 PROVE  join'[i].ticket = 0
      OBVIOUS
    <3>1. CASE i # j /\ k # j
      BY <3>1, <2>2, <1>i
    <3>2. CASE i = j \/ k = j
      BY <3>2, <2>2, <2>3, <2>4, <1>t
    <3>3. QED
      BY <3>1, <3>2
  <2>6. TicketsBelowCounter'
    BY <2>1, <2>2, <2>4, <1>i, <1>t
  <2>7. QED
    BY <2>5, <2>6
<1>3. ASSUME NEW j \in Joins, SetExpiry(j)
      PROVE  TicketsBelowCounter' /\ TicketsUnique'
  BY <1>3, <1>t, <1>i DEF SetExpiry, Step, Join, KeyRunsOut
<1>4. ASSUME NEW j \in Joins, Create(j) \/ Fail(j)
      PROVE  TicketsBelowCounter' /\ TicketsUnique'
  <2>1. /\ UNCHANGED <<today, counter, expiry>>
        /\ join'[j].day = join[j].day /\ join'[j].ticket = join[j].ticket
        /\ join'[j].at \in {"joined", "failed"}
        /\ \A i \in Joins \ {j} : join'[i] = join[i]
    <3>1. \/ join' = [join EXCEPT ![j] = [join[j] EXCEPT !.at = "failed"]]
          \/ join' = [join EXCEPT ![j] = [join[j] EXCEPT !.at = "joined", !.joinedOn = today]]
      BY <1>4 DEF Create, Fail, Step
    <3>2. UNCHANGED <<today, counter, expiry>>
      BY <1>4 DEF Create, Fail
    <3>3. CASE join' = [join EXCEPT ![j] = [join[j] EXCEPT !.at = "failed"]]
      BY <3>2, <3>3, <1>t DEF Join
    <3>4. CASE join' = [join EXCEPT ![j] = [join[j] EXCEPT !.at = "joined", !.joinedOn = today]]
      BY <3>2, <3>4, <1>t DEF Join
    <3>5. QED
      BY <3>1, <3>3, <3>4
  <2>2. QED
    BY <2>1, <1>i, <1>t
<1>5. ASSUME Midnight
      PROVE  TicketsBelowCounter' /\ TicketsUnique'
  BY <1>5, <1>t, <1>i DEF Midnight
<1>6. ASSUME NEW d \in Days, KeyExpires(d)
      PROVE  TicketsBelowCounter' /\ TicketsUnique'
  \* Nobody counts on that date any more.
  BY <1>6, <1>t, <1>i DEF KeyExpires
<1>7. CASE UNCHANGED vars
  BY <1>7, <1>t, <1>i DEF vars
<1>8. QED
  BY <1>1, <1>2, <1>3, <1>4, <1>5, <1>6, <1>7 DEF Next

(* queue.service.ts, INCR of the day's counter: two joins that count on    *)
(* the same date never get the same number, whatever fails, whatever runs  *)
(* past midnight and whenever the key runs out.                            *)
THEOREM TicketsDiffer == Spec => []TicketsUnique
<1>1. IInv /\ [Next]_vars => IInv'
  BY TypeNext, NumbersNext DEF IInv
<1>2. IInv => TicketsUnique
  BY DEF IInv
<1>3. QED
  BY InvInit, <1>1, <1>2, PTL DEF Spec

(* One step of the counters gives one join a number that is new, or is a   *)
(* step that TicketOffice does not see.                                    *)
LEMMA StepGives ==
  ASSUME IInv, IInv', [Next]_vars
  PROVE  [Office!Next]_Given
<1> USE DEF TicketsUnique
<1>t. /\ join \in [Joins -> Join]
      /\ \A j \in Joins : join[j] \in Join /\ join[j].ticket \in Nat
  BY DEF IInv, TypeOK, Join
<1>g. ASSUME NEW j \in Joins, Incr(j) \/ FailAfterIncr(j)
      PROVE  Office!Next
  <2> DEFINE n == NextNumber(join[j].day)
  <2>1. join[j].ticket = 0 /\ join[j].day \in Days /\ n \in Nat \ {0}
    BY <1>g DEF Incr, FailAfterIncr, InFlight, IInv, TypeOK, TicketsBelowCounter, NextNumber
  <2>2. /\ join'[j].day = join[j].day /\ join'[j].ticket = n
        /\ \A i \in Joins \ {j} : join'[i] = join[i]
    <3> DEFINE step == IF Incr(j) THEN AfterIncr(n) ELSE "failed"
    <3>1. join' = [join EXCEPT ![j] = [join[j] EXCEPT !.at = step, !.ticket = n]]
      BY <1>g DEF Incr, FailAfterIncr, Step
    <3> HIDE DEF step, n
    <3>2. QED
      BY <3>1, <1>t DEF Join
  <2> HIDE DEF n
  <2>3. Given[j] = <<>> /\ Given'[j] = <<join[j].day, n>>
    BY <2>1, <2>2 DEF Given
  <2>4. \A i \in Joins : Given[i] # Given'[j]
    <3> SUFFICES ASSUME NEW i \in Joins \ {j}, Given[i] = Given'[j]
                 PROVE  FALSE
      BY <2>3
    <3>1. join[i].ticket # 0 /\ Given[i] = <<join[i].day, join[i].ticket>>
      BY <2>3 DEF Given
    <3>2. <<join[i].day, join[i].ticket>> = <<join[j].day, n>>
      BY <3>1, <2>3
    <3>3. join[i].day = join[j].day /\ join[i].ticket = n
      BY <3>2
    <3>4. join'[i].day = join'[j].day /\ join'[i].ticket = join'[j].ticket
      BY <3>3, <2>2
    <3>5. QED
      BY <3>1, <3>4, <2>1, <2>2 DEF IInv
  <2>5. Given' = [Given EXCEPT ![j] = Given'[j]]
    BY <2>2 DEF Given
  <2>6. QED
    BY <2>3, <2>4, <2>5 DEF Office!Next, Office!Give
<1>1. ASSUME NEW j \in Joins, NEW a \in Appointments \cup {NoAppointment}, Begin(j, a)
      PROVE  UNCHANGED Given
  <2>1. join[j].ticket = 0
    BY <1>1 DEF Begin, IInv, TicketsBelowCounter
  <2>2. \A i \in Joins : join'[i].ticket = join[i].ticket /\ (i # j => join'[i] = join[i])
    BY <1>1, <1>t DEF Begin, Step, Join
  <2>3. QED
    BY <2>1, <2>2 DEF Given
<1>2. ASSUME NEW j \in Joins, SetExpiry(j) \/ Create(j) \/ Fail(j)
      PROVE  UNCHANGED Given
  <2>1. \/ join' = [join EXCEPT ![j] = [join[j] EXCEPT !.at = "create"]]
        \/ join' = [join EXCEPT ![j] = [join[j] EXCEPT !.at = "failed"]]
        \/ join' = [join EXCEPT ![j] = [join[j] EXCEPT !.at = "joined", !.joinedOn = today]]
    BY <1>2 DEF SetExpiry, Create, Fail, Step
  <2>2. \A i \in Joins : join'[i].ticket = join[i].ticket /\ join'[i].day = join[i].day
    <3>1. CASE join' = [join EXCEPT ![j] = [join[j] EXCEPT !.at = "create"]]
      BY <3>1, <1>t DEF Join
    <3>2. CASE join' = [join EXCEPT ![j] = [join[j] EXCEPT !.at = "failed"]]
      BY <3>2, <1>t DEF Join
    <3>3. CASE join' = [join EXCEPT ![j] = [join[j] EXCEPT !.at = "joined", !.joinedOn = today]]
      BY <3>3, <1>t DEF Join
    <3>4. QED
      BY <2>1, <3>1, <3>2, <3>3
  <2>3. QED
    BY <2>2 DEF Given
<1>3. ASSUME UNCHANGED join
      PROVE  UNCHANGED Given
  BY <1>3 DEF Given
<1>4. QED
  BY <1>g, <1>1, <1>2, <1>3 DEF Next, vars, Midnight, KeyExpires

(* queue.service.ts joinQueue: with a counter per date that runs out after *)
(* two days, each join gets at most one ticket and keeps it, and no other  *)
(* join of that date ever has the same: TicketCounter implements           *)
(* TicketOffice.                                                           *)
THEOREM TicketsAsPromised == Spec => TicketPromise
<1>1. Init => Office!Init
  BY DEF Init, Office!Init, Given
<1>2. IInv /\ [Next]_vars => IInv'
  BY TypeNext, NumbersNext DEF IInv
<1>3. IInv /\ IInv' /\ [Next]_vars => [Office!Next]_Given
  BY StepGives
<1>4. QED
  BY InvInit, <1>1, <1>2, <1>3, PTL DEF Spec, TicketPromise, Office!Spec

(* The counters that will never run out, and why: a step that makes one    *)
(* leaves behind the join that has yet to send EXPIRE, or failed to.       *)
LEMMA ExpiryNext ==
  ASSUME IInv, OnlyFailuresLoseExpiry, [Next]_vars
  PROVE  OnlyFailuresLoseExpiry'
<1> USE DEF OnlyFailuresLoseExpiry
<1>t. /\ today \in Days /\ counter \in [Days -> Nat] /\ expiry \in [Days -> Nat]
      /\ join \in [Joins -> Join]
      /\ \A j \in Joins : join[j] \in Join /\ join[j].day \in Days \cup {0}
      /\ \A j \in Joins : InFlight(j) => join[j].day \in Days
      /\ \A d \in Days : d \in Nat \ {0}
  BY DEF IInv, TypeOK, TicketsBelowCounter, Join, Days
<1>1. ASSUME NEW j \in Joins, NEW a \in Appointments \cup {NoAppointment}, Begin(j, a)
      PROVE  OnlyFailuresLoseExpiry'
  <2>1. UNCHANGED <<counter, expiry>> /\ join[j].at = "idle" /\ \A i \in Joins \ {j} : join'[i] = join[i]
    BY <1>1, <1>t DEF Begin, Step
  <2>2. QED
    BY <2>1
<1>2. ASSUME NEW j \in Joins, Incr(j) \/ FailAfterIncr(j)
      PROVE  OnlyFailuresLoseExpiry'
  <2> DEFINE d == join[j].day
             n == counter[d] + 1
             step == IF Incr(j) THEN AfterIncr(n) ELSE "failed"
  <2>1. /\ d \in Days /\ join[j].at = "incr" /\ UNCHANGED expiry
        /\ counter' = [counter EXCEPT ![d] = n]
        /\ join' = [join EXCEPT ![j] = [join[j] EXCEPT !.at = step, !.ticket = n]]
    BY <1>2, <1>t DEF Incr, FailAfterIncr, NextNumber, InFlight, Step
  <2>2. n = 1 => step \in {"expire", "failed"}
    BY DEF AfterIncr
  <2> HIDE DEF step, n
  <2>3. /\ join'[j].day = d /\ join'[j].ticket = n /\ join'[j].at = step
        /\ \A i \in Joins \ {j} : join'[i] = join[i]
    BY <2>1, <1>t DEF Join
  <2>4. n = 1 \/ (counter[d] > 0 /\ n > 0)
    BY <2>1, <1>t DEF n
  <2>5. QED
    BY <2>1, <2>2, <2>3, <2>4, <1>t
<1>3. ASSUME NEW j \in Joins, SetExpiry(j)
      PROVE  OnlyFailuresLoseExpiry'
  <2>1. /\ join[j].at = "expire" /\ join[j].day \in Days /\ UNCHANGED counter
        /\ expiry' = [expiry EXCEPT ![join[j].day] = today + 2]
        /\ \A i \in Joins \ {j} : join'[i] = join[i]
    BY <1>3, <1>t DEF SetExpiry, InFlight, KeyRunsOut, Step
  <2>2. QED
    BY <2>1, <1>t
<1>4. ASSUME NEW j \in Joins, Create(j)
      PROVE  OnlyFailuresLoseExpiry'
  <2>1. /\ join[j].at = "create" /\ UNCHANGED <<counter, expiry>>
        /\ \A i \in Joins \ {j} : join'[i] = join[i]
    BY <1>4, <1>t DEF Create, Step
  <2>2. QED
    BY <2>1
<1>5. ASSUME NEW j \in Joins, Fail(j)
      PROVE  OnlyFailuresLoseExpiry'
  <2>1. /\ UNCHANGED <<counter, expiry>>
        /\ join'[j].day = join[j].day /\ join'[j].ticket = join[j].ticket /\ join'[j].at = "failed"
        /\ \A i \in Joins \ {j} : join'[i] = join[i]
    BY <1>5, <1>t DEF Fail, Step, Join
  <2>2. QED
    BY <2>1
<1>6. ASSUME NEW d \in Days, KeyExpires(d)
      PROVE  OnlyFailuresLoseExpiry'
  BY <1>6, <1>t DEF KeyExpires
<1>7. ASSUME UNCHANGED <<counter, expiry, join>>
      PROVE  OnlyFailuresLoseExpiry'
  BY <1>7
<1>8. QED
  BY <1>1, <1>2, <1>3, <1>4, <1>5, <1>6, <1>7 DEF Next, Midnight, vars

(* queue.service.ts joinQueue, EXPIRE after the first INCR of a day: a     *)
(* counter that keeps no time to live has a first join that is still to    *)
(* set it, or that failed.                                                 *)
THEOREM ExpiryLostByFailure == Spec => []OnlyFailuresLoseExpiry
<1>1. Init => OnlyFailuresLoseExpiry
  BY DEF Init, OnlyFailuresLoseExpiry
<1>2. IInv /\ [Next]_vars => IInv'
  BY TypeNext, NumbersNext DEF IInv
<1>3. IInv /\ OnlyFailuresLoseExpiry /\ [Next]_vars => OnlyFailuresLoseExpiry'
  BY ExpiryNext
<1>4. QED
  BY InvInit, <1>1, <1>2, <1>3, PTL DEF Spec

-----------------------------------------------------------------------------
(* Accounts.                                                               *)

(* What becomes of a call: it is replaced, ends, or goes on.               *)
LEMMA IdleIsLegal == LegalCall(Idle)
<1>1. 0 \in 0..MaxAttempts /\ 0 \in 0..LastSuffix
  BY AccountsAssumption
<1>2. QED
  BY <1>1 DEF LegalCall, Idle, CallType, StepsOf, Operations, Steps, Args

LEMMA Replaced ==
  ASSUME CallsLegal, NEW c \in Calls, NEW d, LegalCall(d), call' = [call EXCEPT ![c] = d]
  PROVE  call' \in [Calls -> CallType] /\ \A x \in Calls : LegalCall(call'[x])
<1>1. d \in CallType /\ call \in [Calls -> CallType] /\ \A x \in Calls : LegalCall(call[x])
  BY DEF LegalCall, CallsLegal, AccountsTypeOK
<1>2. \A x \in Calls : call'[x] = IF x = c THEN d ELSE call[x]
  BY <1>1
<1>3. QED
  BY <1>1, <1>2

LEMMA Ended ==
  ASSUME CallsLegal, NEW c \in Calls, End(c)
  PROVE  call' \in [Calls -> CallType] /\ \A x \in Calls : LegalCall(call'[x])
  BY IdleIsLegal, Replaced DEF End

LEMMA GoneOn ==
  ASSUME CallsLegal, NEW c \in Calls, NEW step \in StepsOf(call[c].op) \ {"count", "store"}, Go(c, step)
  PROVE  call' \in [Calls -> CallType] /\ \A x \in Calls : LegalCall(call'[x])
<1> DEFINE d == [call[c] EXCEPT !.at = step]
<1>1. LegalCall(call[c]) /\ call \in [Calls -> CallType]
  BY DEF CallsLegal, AccountsTypeOK
<1>2. call[c] \in CallType /\ call[c].op \in Operations \cup {"none"}
  BY <1>1 DEF CallType
<1>3. step \in Steps
  BY <1>2 DEF StepsOf, Steps, Operations
<1>4. d \in CallType /\ d.op = call[c].op /\ d.at = step /\ d.user = call[c].user
      /\ d.arg = call[c].arg /\ d.seen = call[c].seen /\ d.token = call[c].token
  BY <1>2, <1>3 DEF CallType
<1>5. call' = [call EXCEPT ![c] = d]
  BY <1>1 DEF Go
<1> HIDE DEF d
<1>6. LegalCall(d)
  BY <1>1, <1>4 DEF LegalCall
<1>7. QED
  BY <1>5, <1>6, Replaced

(* What a call is, by the step it is at.                                   *)
LEMMA CallAt ==
  ASSUME CallsLegal, NEW c \in Calls
  PROVE  /\ call \in [Calls -> CallType] /\ LegalCall(call[c]) /\ call[c] \in CallType
         /\ call[c].op \in Operations \cup {"none"} /\ call[c].at \in StepsOf(call[c].op)
         /\ ~At(c, "idle") => User(c) \in Users /\ call[c].op \in Operations
<1>1. call \in [Calls -> CallType] /\ LegalCall(call[c])
  BY DEF CallsLegal, AccountsTypeOK
<1>2. call[c] \in CallType /\ call[c].op \in Operations \cup {"none"} /\ call[c].at \in StepsOf(call[c].op)
  BY <1>1 DEF LegalCall, CallType
<1>3. call[c].op = "none" => call[c].at = "idle"
  BY <1>2 DEF StepsOf, Operations
<1>4. QED
  BY <1>1, <1>2, <1>3 DEF LegalCall, At, User

(* A call that writes no row, key or token: its record is all that counts. *)
LEMMA OnlyCalls ==
  ASSUME CallsLegal, UNCHANGED <<codes, rows, sessions, now, story, ghosts>>,
         call' \in [Calls -> CallType], \A c \in Calls : LegalCall(call'[c])
  PROVE  CallsLegal'
  BY DEF CallsLegal, AccountsTypeOK, codes, rows, sessions, ghosts, LegalCall

LEMMA LegalStart ==
  ASSUME CallsLegal, NEW c \in Calls, NEW op \in story, NEW u \in Users, Start(c, op, u)
  PROVE  CallsLegal'
<1>1. PICK arg \in ArgsOf(op), token \in TokensOf(op, u) :
        call' = [call EXCEPT ![c] = [Idle EXCEPT !.op = op, !.at = "begin", !.user = u,
                                                 !.arg = arg, !.token = token]]
  BY DEF Start
<1> DEFINE d == [Idle EXCEPT !.op = op, !.at = "begin", !.user = u, !.arg = arg, !.token = token]
<1>2. op \in Operations /\ held[u] \subseteq Tokens
  BY DEF CallsLegal, AccountsTypeOK
<1>3. /\ arg \in Args /\ (op = "login" => arg \in Roles) /\ (op = "createShop" => arg \in Names)
  BY <1>2 DEF ArgsOf, Args, Operations
<1>4. token \in Tokens \cup {NoToken} /\ (op = "refreshToken" => token \in Tokens)
  BY <1>2 DEF TokensOf
<1>5. Idle \in CallType
  BY IdleIsLegal DEF LegalCall
<1>6. d \in CallType
  BY <1>2, <1>3, <1>4, <1>5 DEF CallType, Steps
<1>7. d.op = op /\ d.at = "begin" /\ d.user = u /\ d.arg = arg /\ d.token = token
  BY DEF Idle
<1> HIDE DEF d
<1>8. "begin" \in StepsOf(op)
  BY <1>2 DEF StepsOf, Operations
<1>9. LegalCall(d)
  BY <1>2, <1>3, <1>4, <1>6, <1>7, <1>8 DEF LegalCall
<1>10. call' \in [Calls -> CallType] /\ \A x \in Calls : LegalCall(call'[x])
  BY <1>1, <1>9, Replaced DEF d
<1>11. signedOut' \subseteq Users
  BY DEF Start, CallsLegal, AccountsTypeOK
<1>12. QED
  BY <1>10, <1>11 DEF Start, CallsLegal, AccountsTypeOK, codes, rows, sessions, LegalCall

(* One-time codes.                                                         *)
LEMMA LegalCodes ==
  ASSUME CallsLegal, NEW c \in Calls, OneTimeCode(c)
  PROVE  CallsLegal'
<1> DEFINE Typed == call' \in [Calls -> CallType] /\ \A x \in Calls : LegalCall(call'[x])
<1>a. User(c) \in Users /\ call[c].at \in StepsOf(call[c].op) /\ call[c].op \in Operations
      /\ call \in [Calls -> CallType] /\ LegalCall(call[c]) /\ call[c] \in CallType
  BY CallAt DEF OneTimeCode, At, CheckLock, SetCode, ReadCode, Compare, Count, Lock, Clear
<1>m. MaxAttempts \in Nat /\ 0 \in 0..MaxAttempts
  BY AccountsAssumption
<1>1. CASE CheckLock(c)
  <2>1. Typed
    BY <1>1, <1>a, GoneOn, Ended DEF CheckLock, StepsOf
  <2>2. QED
    BY <1>1, <2>1, OnlyCalls DEF CheckLock
<1>2. CASE SetCode(c)
  <2>1. call[c].op = "requestOtp"
    BY <1>2, <1>a DEF SetCode, At, StepsOf, Operations
  <2>2. Typed
    BY <1>2, <2>1, GoneOn DEF SetCode, StepsOf
  <2>3. QED
    BY <1>2, <1>a, <2>2 DEF SetCode, CallsLegal, AccountsTypeOK, rows, sessions, ghosts, LegalCall
<1>3. CASE ReadCode(c)
  <2>1. call[c].op = "verifyOtp"
    BY <1>3, <1>a DEF ReadCode, At, StepsOf, Operations
  <2>2. Typed
    BY <1>3, <2>1, GoneOn, Ended DEF ReadCode, StepsOf
  <2>3. QED
    BY <1>3, <2>2, OnlyCalls DEF ReadCode
<1>4. CASE Compare(c)
  <2>1. call[c].op = "verifyOtp"
    BY <1>4, <1>a DEF Compare, At, StepsOf, Operations
  <2>2. attempts[User(c)] \in 0..MaxAttempts /\ wrong \in [Users -> 0..MaxAttempts]
    BY <1>a DEF CallsLegal, AccountsTypeOK
  <2>3. Typed
    <3>1. CASE Go(c, "lock") \/ Go(c, "succeed")
      BY <3>1, <2>1, GoneOn DEF StepsOf
    <3>2. CASE /\ ~IsOtpLocked(attempts[User(c)])
               /\ call' = [call EXCEPT ![c].at = "count", ![c].seen = attempts[User(c)]]
      <4> DEFINE d == [call[c] EXCEPT !.at = "count", !.seen = attempts[User(c)]]
      <4>1. d \in CallType
        BY <1>a, <2>2 DEF CallType, Steps
      <4>2. d.at = "count" /\ d.seen = attempts[User(c)] /\ d.op = "verifyOtp" /\ d.user = call[c].user
            /\ d.arg = call[c].arg /\ d.token = call[c].token
        BY <1>a, <2>1 DEF CallType
      <4>3. call' = [call EXCEPT ![c] = d]
        BY <3>2, <1>a
      <4> HIDE DEF d
      <4>4. d.seen < MaxAttempts
        BY <3>2, <4>2, <2>2, <1>m DEF IsOtpLocked
      <4>5. LegalCall(d)
        BY <4>1, <4>2, <4>4, <1>a, <2>1 DEF LegalCall, StepsOf
      <4>6. QED
        BY <4>3, <4>5, Replaced
    <3>3. QED
      BY <1>4, <3>1, <3>2 DEF Compare
  <2>4. wrong' \in [Users -> 0..MaxAttempts]
    <3>1. CASE UNCHANGED wrong
      BY <3>1, <2>2
    <3>2. CASE wrong' = [wrong EXCEPT ![User(c)] = IF @ < MaxAttempts THEN @ + 1 ELSE @]
      <4> DEFINE n == IF wrong[User(c)] < MaxAttempts THEN wrong[User(c)] + 1 ELSE wrong[User(c)]
      <4>1. n \in 0..MaxAttempts
        BY <2>2, <1>a, <1>m
      <4>2. wrong' = [wrong EXCEPT ![User(c)] = n]
        BY <3>2
      <4> HIDE DEF n
      <4>3. QED
        BY <4>1, <4>2, <2>2
    <3>3. QED
      BY <1>4, <3>1, <3>2 DEF Compare
  <2>5. QED
    BY <1>4, <2>3, <2>4 DEF Compare, CallsLegal, AccountsTypeOK, codes, rows, sessions, LegalCall
<1>5. CASE Count(c)
  <2>1. call[c].seen + 1 \in 0..MaxAttempts
    BY <1>5, <1>a, <1>m DEF Count, At, LegalCall, CallType
  <2>2. Typed
    BY <1>5, Ended DEF Count
  <2>3. attempts' \in [Users -> 0..MaxAttempts]
    BY <1>5, <2>1 DEF Count, CallsLegal, AccountsTypeOK
  <2>4. QED
    BY <1>5, <2>2, <2>3 DEF Count, CallsLegal, AccountsTypeOK, rows, sessions, ghosts, LegalCall
<1>6. CASE Lock(c)
  <2>1. call[c].op = "verifyOtp"
    BY <1>6, <1>a DEF Lock, At, StepsOf, Operations
  <2>2. Typed
    BY <1>6, <2>1, GoneOn DEF Lock, StepsOf
  <2>3. QED
    BY <1>6, <1>a, <2>2 DEF Lock, CallsLegal, AccountsTypeOK, rows, sessions, ghosts, LegalCall
<1>7. CASE Clear(c)
  <2>1. At(c, "succeed") => call[c].op = "verifyOtp"
    BY <1>a DEF At, StepsOf, Operations
  <2>2. Typed
    BY <1>7, <2>1, GoneOn, Ended DEF Clear, StepsOf
  <2>3. attempts' \in [Users -> 0..MaxAttempts] /\ wrong' \in [Users -> 0..MaxAttempts]
    BY <1>7, <1>m DEF Clear, CallsLegal, AccountsTypeOK
  <2>4. code' \subseteq Users /\ overtaken' \subseteq Users
    BY <1>7, <1>a DEF Clear, CallsLegal, AccountsTypeOK
  <2>5. QED
    BY <1>7, <2>2, <2>3, <2>4 DEF Clear, CallsLegal, AccountsTypeOK, rows, sessions, LegalCall
<1>8. QED
  BY <1>1, <1>2, <1>3, <1>4, <1>5, <1>6, <1>7 DEF OneTimeCode

(* One more row of user_roles.                                             *)
LEMMA OneMoreRow ==
  ASSUME granted \in [Users -> [Roles -> Nat]], NEW u \in Users, NEW r \in Roles,
         granted' = [granted EXCEPT ![u][r] = @ + 1]
  PROVE  /\ granted' \in [Users -> [Roles -> Nat]]
         /\ granted'[u][r] = granted[u][r] + 1
         /\ \A v \in Users, q \in Roles : v # u \/ q # r => granted'[v][q] = granted[v][q]
<1> DEFINE f == [granted[u] EXCEPT ![r] = @ + 1]
<1>1. f \in [Roles -> Nat] /\ f[r] = granted[u][r] + 1 /\ \A q \in Roles \ {r} : f[q] = granted[u][q]
  OBVIOUS
<1>2. granted' = [granted EXCEPT ![u] = f]
  OBVIOUS
<1> HIDE DEF f
<1>3. QED
  BY <1>1, <1>2

LEMMA RoleAskedIsARole == ASSUME CallsLegal, NEW c \in Calls PROVE RoleAsked(c) \in Roles
  BY AccountsAssumption DEF CallsLegal, LegalCall, RoleAsked

(* Signing in.                                                             *)
LEMMA LegalSignIn ==
  ASSUME CallsLegal, NEW c \in Calls, SignIn(c)
  PROVE  CallsLegal'
<1> DEFINE Typed == call' \in [Calls -> CallType] /\ \A x \in Calls : LegalCall(call'[x])
<1>a. User(c) \in Users /\ call[c].at \in StepsOf(call[c].op) /\ call[c].op \in Operations
      /\ call \in [Calls -> CallType] /\ LegalCall(call[c]) /\ call[c] \in CallType
  BY CallAt DEF SignIn, At, FindUser, CreateUser, MarkVerified, FindRole, GrantRole
<1>g. granted \in [Users -> [Roles -> Nat]]
  BY DEF CallsLegal, AccountsTypeOK
<1>1. CASE FindUser(c)
  <2>1. call[c].op \in {"verifyOtp", "login"}
    BY <1>1, <1>a DEF FindUser, At, StepsOf, Operations
  <2>2. PICK step \in {"create", "verify", "findRole"} :
          Go(c, step) /\ (step = "verify" => call[c].op = "verifyOtp")
                      /\ (step = "findRole" => call[c].op = "login")
                      /\ (step = "create" => User(c) \notin present)
    BY <1>1, <2>1 DEF FindUser
  <2>3. CASE call[c].op = "verifyOtp"
    <3>1. step \in StepsOf(call[c].op) \ {"count", "store"}
      BY <2>2, <2>3 DEF StepsOf
    <3>2. QED
      BY <3>1, <2>2, <1>1, GoneOn, OnlyCalls DEF FindUser
  <2>4. CASE call[c].op = "login"
    <3>1. step \in StepsOf(call[c].op) \ {"count", "store"}
      BY <2>2, <2>4 DEF StepsOf
    <3>2. QED
      BY <3>1, <2>2, <1>1, GoneOn, OnlyCalls DEF FindUser
  <2>5. QED
    BY <2>1, <2>3, <2>4
<1>2. CASE CreateUser(c)
  <2>1. call[c].op \in {"verifyOtp", "login"}
    BY <1>2, <1>a DEF CreateUser, At, StepsOf, Operations
  <2>2. "readRoles" \in StepsOf(call[c].op) \ {"count", "store"}
    BY <2>1 DEF StepsOf
  <2>3. Typed
    BY <1>2, <2>2, GoneOn, Ended DEF CreateUser
  <2>4. present' \subseteq Users /\ active' \subseteq present'
    BY <1>2, <1>a DEF CreateUser, CallsLegal, AccountsTypeOK
  <2>5. granted' \in [Users -> [Roles -> Nat]]
    <3>1. CASE UNCHANGED granted
      BY <3>1, <1>g
    <3>2. CASE granted' = [granted EXCEPT ![User(c)][RoleAsked(c)] = @ + 1]
      BY <3>2, <1>g, <1>a, RoleAskedIsARole, OneMoreRow
    <3>3. QED
      BY <1>2, <3>1, <3>2 DEF CreateUser, RoleAsked
  <2>6. QED
    BY <1>2, <2>3, <2>4, <2>5 DEF CreateUser, CallsLegal, AccountsTypeOK, codes, sessions, ghosts, LegalCall
<1>3. CASE MarkVerified(c)
  <2>1. call[c].op = "verifyOtp"
    BY <1>3, <1>a DEF MarkVerified, At, StepsOf, Operations
  <2>2. QED
    BY <1>3, <2>1, GoneOn, OnlyCalls DEF MarkVerified, StepsOf
<1>4. CASE FindRole(c)
  <2>1. call[c].op = "login"
    BY <1>4, <1>a DEF FindRole, At, StepsOf, Operations
  <2>2. Typed
    BY <1>4, <2>1, GoneOn DEF FindRole, StepsOf
  <2>3. QED
    BY <1>4, <2>2, OnlyCalls DEF FindRole
<1>5. CASE GrantRole(c)
  <2>1. call[c].op = "login"
    BY <1>5, <1>a DEF GrantRole, At, StepsOf, Operations
  <2>2. Typed
    BY <1>5, <2>1, GoneOn DEF GrantRole, StepsOf
  <2>3. granted' \in [Users -> [Roles -> Nat]]
    BY <1>5, <2>1, <1>a, <1>g, RoleAskedIsARole, OneMoreRow DEF GrantRole, RoleAsked
  <2>4. QED
    BY <1>5, <2>2, <2>3 DEF GrantRole, CallsLegal, AccountsTypeOK, codes, sessions, ghosts, LegalCall
<1>6. QED
  BY <1>1, <1>2, <1>3, <1>4, <1>5 DEF SignIn

(* Tokens.                                                                 *)
LEMMA LegalSession ==
  ASSUME CallsLegal, NEW c \in Calls, Session(c)
  PROVE  CallsLegal'
<1> DEFINE Typed == call' \in [Calls -> CallType] /\ \A x \in Calls : LegalCall(call'[x])
<1>a. User(c) \in Users /\ call[c].at \in StepsOf(call[c].op) /\ call[c].op \in Operations
      /\ call \in [Calls -> CallType] /\ LegalCall(call[c]) /\ call[c] \in CallType
  BY CallAt DEF Session, At, ReadRoles, Store, CompareToken, FindActive, Logout
<1>1. CASE ReadRoles(c)
  <2> DEFINE token == [second |-> now, roles |-> granted[User(c)], slugs |-> {s.slug : s \in ShopsOf(User(c))}]
             d == [call[c] EXCEPT !.at = "store", !.token = token]
  <2>1. token \in Tokens
    <3>1. now \in 0..LastSecond /\ granted[User(c)] \in [Roles -> Nat]
      BY <1>a DEF CallsLegal, AccountsTypeOK
    <3>2. {s.slug : s \in ShopsOf(User(c))} \in SUBSET Slugs
      BY DEF CallsLegal, AccountsTypeOK, ShopsOf
    <3>3. QED
      BY <3>1, <3>2 DEF Tokens
  <2>2. call' = [call EXCEPT ![c] = d]
    BY <1>1, <1>a DEF ReadRoles
  <2> HIDE DEF token
  <2>3. d \in CallType /\ d.at = "store" /\ d.token = token /\ d.op = call[c].op
        /\ d.user = call[c].user /\ d.arg = call[c].arg
    BY <1>a, <2>1 DEF CallType, Steps
  <2> HIDE DEF d
  <2>4. "store" \in StepsOf(call[c].op)
    BY <1>1, <1>a DEF ReadRoles, At, StepsOf, Operations
  <2>5. LegalCall(d)
    BY <2>1, <2>3, <2>4, <1>a DEF LegalCall
  <2>6. Typed
    BY <2>2, <2>5, Replaced
  <2>7. QED
    BY <1>1, <2>6, OnlyCalls DEF ReadRoles
<1>2. CASE Store(c)
  <2>1. call[c].token \in Tokens
    BY <1>2, <1>a DEF Store, At, LegalCall
  <2>2. Typed
    BY <1>2, Ended DEF Store
  <2>3. refresh' \in [Users -> Tokens \cup {NoToken}]
    BY <1>2, <2>1 DEF Store, CallsLegal, AccountsTypeOK
  <2>4. held' \in [Users -> SUBSET Tokens]
    <3>1. held[User(c)] \cup {call[c].token} \in SUBSET Tokens
      BY <2>1, <1>a DEF CallsLegal, AccountsTypeOK
    <3>2. QED
      BY <1>2, <3>1 DEF Store, CallsLegal, AccountsTypeOK
  <2>5. QED
    BY <1>2, <2>2, <2>3, <2>4 DEF Store, CallsLegal, AccountsTypeOK, codes, rows, ghosts, LegalCall
<1>3. CASE CompareToken(c)
  <2>1. call[c].op = "refreshToken"
    BY <1>3 DEF CompareToken
  <2>2. Typed
    BY <1>3, <2>1, GoneOn, Ended DEF CompareToken, StepsOf
  <2>3. QED
    BY <1>3, <2>2, OnlyCalls DEF CompareToken
<1>4. CASE FindActive(c)
  <2>1. call[c].op = "refreshToken"
    BY <1>4, <1>a DEF FindActive, At, StepsOf, Operations
  <2>2. Typed
    BY <1>4, <2>1, GoneOn, Ended DEF FindActive, StepsOf
  <2>3. QED
    BY <1>4, <2>2, OnlyCalls DEF FindActive
<1>5. CASE Logout(c)
  <2>1. Typed
    BY <1>5, Ended DEF Logout
  <2>2. refresh' \in [Users -> Tokens \cup {NoToken}] /\ signedOut' \subseteq Users
    BY <1>5, <1>a DEF Logout, CallsLegal, AccountsTypeOK
  <2>3. QED
    BY <1>5, <2>1, <2>2 DEF Logout, CallsLegal, AccountsTypeOK, codes, rows, LegalCall
<1>6. QED
  BY <1>1, <1>2, <1>3, <1>4, <1>5 DEF Session

(* Opening a shop.                                                         *)
LEMMA LegalShops ==
  ASSUME CallsLegal, NEW c \in Calls, OpenShop(c)
  PROVE  CallsLegal'
<1> DEFINE Typed == call' \in [Calls -> CallType] /\ \A x \in Calls : LegalCall(call'[x])
<1>a. User(c) \in Users /\ call[c].at \in StepsOf(call[c].op) /\ call[c].op \in Operations
      /\ call \in [Calls -> CallType] /\ LegalCall(call[c]) /\ call[c] \in CallType
  BY CallAt DEF OpenShop, At, FindOwnShop, FindSlug, InsertShop
<1>o. call[c].op = "createShop"
  BY <1>a DEF OpenShop, FindOwnShop, FindSlug, InsertShop, At, StepsOf, Operations
<1>1. CASE FindOwnShop(c)
  <2>1. Typed
    BY <1>1, <1>o, GoneOn, Ended DEF FindOwnShop, StepsOf
  <2>2. QED
    BY <1>1, <2>1, OnlyCalls DEF FindOwnShop
<1>2. CASE FindSlug(c)
  <2>1. Typed
    <3>1. CASE Go(c, "insert")
      BY <3>1, <1>o, GoneOn DEF StepsOf
    <3>2. CASE call[c].suffix < LastSuffix /\ call' = [call EXCEPT ![c].suffix = @ + 1]
      <4> DEFINE d == [call[c] EXCEPT !.suffix = @ + 1]
      <4>1. call[c].suffix + 1 \in 0..LastSuffix
        BY <3>2, <1>a, AccountsAssumption DEF CallType
      <4>2. d \in CallType /\ d.at = call[c].at /\ d.op = call[c].op /\ d.user = call[c].user
            /\ d.arg = call[c].arg /\ d.seen = call[c].seen /\ d.token = call[c].token
        BY <4>1, <1>a DEF CallType
      <4>3. call' = [call EXCEPT ![c] = d]
        BY <3>2, <1>a
      <4> HIDE DEF d
      <4>4. LegalCall(d)
        BY <4>2, <1>a DEF LegalCall
      <4>5. QED
        BY <4>3, <4>4, Replaced
    <3>3. QED
      BY <1>2, <3>1, <3>2 DEF FindSlug
  <2>2. QED
    BY <1>2, <2>1, OnlyCalls DEF FindSlug
<1>3. CASE InsertShop(c)
  <2>1. Typed
    BY <1>3, Ended DEF InsertShop
  <2>2. Slug(c) \in Slugs
    BY <1>a, <1>o DEF LegalCall, CallType, Slug, Slugs
  <2>3. shops' \subseteq [owner : Users, slug : Slugs]
    BY <1>3, <2>2, <1>a DEF InsertShop, CallsLegal, AccountsTypeOK
  <2>4. QED
    BY <1>3, <2>1, <2>3 DEF InsertShop, CallsLegal, AccountsTypeOK, codes, sessions, ghosts, LegalCall
<1>4. QED
  BY <1>1, <1>2, <1>3 DEF OpenShop

(* What no call does.                                                      *)
LEMMA LegalElse ==
  ASSUME CallsLegal, \/ \E u \in Users : KeysExpire(u) \/ SessionLapses(u) \/ Deactivate(u)
                     \/ Tick
                     \/ UNCHANGED accountVars
  PROVE  CallsLegal'
<1>1. CASE UNCHANGED accountVars
  BY <1>1 DEF accountVars, codes, rows, sessions, ghosts, CallsLegal, AccountsTypeOK, LegalCall
<1>2. CASE Tick
  <2>1. now' \in 0..LastSecond
    BY <1>2, AccountsAssumption DEF Tick, CallsLegal, AccountsTypeOK
  <2>2. QED
    BY <1>2, <2>1 DEF Tick, codes, rows, sessions, ghosts, CallsLegal, AccountsTypeOK, LegalCall
<1>3. ASSUME NEW u \in Users, KeysExpire(u)
      PROVE  CallsLegal'
  <2>1. code' \subseteq Users /\ locked' \subseteq Users /\ attempts' \in [Users -> 0..MaxAttempts]
    BY <1>3, AccountsAssumption DEF KeysExpire, CallsLegal, AccountsTypeOK
  <2>2. QED
    BY <1>3, <2>1 DEF KeysExpire, rows, sessions, ghosts, CallsLegal, AccountsTypeOK, LegalCall
<1>4. ASSUME NEW u \in Users, SessionLapses(u)
      PROVE  CallsLegal'
  BY <1>4 DEF SessionLapses, codes, rows, ghosts, CallsLegal, AccountsTypeOK, LegalCall
<1>5. ASSUME NEW u \in Users, Deactivate(u)
      PROVE  CallsLegal'
  BY <1>5 DEF Deactivate, codes, sessions, ghosts, CallsLegal, AccountsTypeOK, LegalCall
<1>6. QED
  BY <1>1, <1>2, <1>3, <1>4, <1>5

LEMMA LegalFail ==
  ASSUME CallsLegal, NEW c \in Calls, CallFails(c)
  PROVE  CallsLegal'
  BY Ended, OnlyCalls DEF CallFails

LEMMA LegalInit == AccountsInit => CallsLegal
<1> SUFFICES ASSUME AccountsInit
             PROVE  CallsLegal
  OBVIOUS
<1>1. 0 \in 0..MaxAttempts /\ 0 \in 0..LastSecond /\ story \subseteq Operations
  BY AccountsAssumption DEF AccountsInit
<1>2. Idle \in CallType
  BY IdleIsLegal DEF LegalCall
<1>3. AccountsTypeOK
  BY <1>1, <1>2 DEF AccountsInit, AccountsTypeOK
<1>4. QED
  BY <1>3, IdleIsLegal DEF AccountsInit, CallsLegal

LEMMA CallsLegalAlways == AccountsSpec => []CallsLegal
<1>1. CallsLegal /\ [AccountsNext]_accountVars => CallsLegal'
  BY LegalStart, LegalFail, LegalCodes, LegalSignIn, LegalSession, LegalShops, LegalElse
     DEF AccountsNext
<1>2. QED
  BY <1>1, LegalInit, PTL DEF AccountsSpec

(* auth.service.ts and shops.service.ts: every key, row and token keeps    *)
(* its type.  The attempts stay below OTP_MAX_ATTEMPTS although a call     *)
(* writes back what it read, since none writes that read the maximum.      *)
THEOREM AccountsTyped == AccountsSpec => []AccountsTypeOK
<1>1. CallsLegal => AccountsTypeOK
  BY DEF CallsLegal
<1>2. QED
  BY <1>1, CallsLegalAlways, PTL

-----------------------------------------------------------------------------
(* What the record of a call becomes, and that the others stay.            *)
LEMMA Ending ==
  ASSUME CallsLegal, NEW c \in Calls, End(c)
  PROVE  call'[c] = Idle /\ \A d \in Calls \ {c} : call'[d] = call[d]
  BY DEF CallsLegal, AccountsTypeOK, End

LEMMA Going ==
  ASSUME CallsLegal, NEW c \in Calls, NEW step, Go(c, step)
  PROVE  /\ call'[c] = [call[c] EXCEPT !.at = step] /\ call'[c].at = step
         /\ call'[c].op = call[c].op /\ call'[c].user = call[c].user /\ call'[c].arg = call[c].arg
         /\ call'[c].seen = call[c].seen /\ call'[c].suffix = call[c].suffix
         /\ \A d \in Calls \ {c} : call'[d] = call[d]
<1>1. call[c] \in CallType /\ call \in [Calls -> CallType]
  BY DEF CallsLegal, AccountsTypeOK
<1>2. QED
  BY <1>1 DEF Go, CallType

LEMMA SameCall ==
  ASSUME CallsLegal, NEW c \in Calls,
         CallFails(c) \/ OneTimeCode(c) \/ SignIn(c) \/ Session(c) \/ OpenShop(c)
  PROVE  /\ \A d \in Calls \ {c} : call'[d] = call[d]
         /\ \/ call'[c] = Idle
            \/ call'[c].op = call[c].op /\ call'[c].user = call[c].user /\ call'[c].arg = call[c].arg
         /\ call'[c].at # "begin"
         /\ call'[c].at \in {"count", "lock"} => Compare(c)
         /\ call'[c].at \in {"findSlug", "insert"} => OpenShop(c)
         /\ call'[c].at \in {"create", "verify", "findRole", "grant"} => FindUser(c) \/ FindRole(c)
<1>t. call[c] \in CallType /\ call \in [Calls -> CallType] /\ Idle.at = "idle"
  BY DEF CallsLegal, AccountsTypeOK, Idle
<1>1. CASE CallFails(c)
  BY <1>1, <1>t, Ending DEF CallFails
<1>2. CASE OneTimeCode(c)
  <2>1. CASE Compare(c) /\ ~IsOtpLocked(attempts[User(c)])
              /\ call' = [call EXCEPT ![c].at = "count", ![c].seen = attempts[User(c)]]
    <3>1. call'[c] = [call[c] EXCEPT !.at = "count", !.seen = attempts[User(c)]]
          /\ \A d \in Calls \ {c} : call'[d] = call[d]
      BY <2>1, <1>t
    <3>2. QED
      BY <2>1, <3>1, <1>t DEF CallType
  <2>2. CASE \/ End(c)
              \/ \E step \in {"setCode", "readCode", "clear", "compare", "succeed", "clearLocked", "findUser"} :
                   Go(c, step)
    BY <2>2, <1>t, Going, Ending
  <2>3. CASE Compare(c) /\ \E step \in {"lock"} : Go(c, step)
    BY <2>3, Going
  <2>4. QED
    BY <1>2, <2>1, <2>2, <2>3 DEF OneTimeCode, CheckLock, SetCode, ReadCode, Compare, Count, Lock, Clear
<1>3. CASE SignIn(c)
  <2>1. CASE End(c) \/ \E step \in {"readRoles"} : Go(c, step)
    BY <2>1, <1>t, Going, Ending
  <2>2. CASE (FindUser(c) \/ FindRole(c)) /\ \E step \in {"create", "verify", "findRole", "grant"} : Go(c, step)
    BY <2>2, Going
  <2>3. QED
    <3>1. CASE FindUser(c)
      <4>1. \E step \in {"create", "verify", "findRole"} : Go(c, step)
        BY <3>1 DEF FindUser
      <4>2. QED
        BY <3>1, <4>1, <2>2
    <3>2. CASE FindRole(c)
      BY <3>2, <2>1, <2>2 DEF FindRole
    <3>3. CASE CreateUser(c) \/ MarkVerified(c) \/ GrantRole(c)
      BY <3>3, <2>1 DEF CreateUser, MarkVerified, GrantRole
    <3>4. QED
      BY <1>3, <3>1, <3>2, <3>3 DEF SignIn
<1>4. CASE Session(c)
  <2>1. CASE End(c) \/ \E step \in {"findActive", "readRoles"} : Go(c, step)
    BY <2>1, <1>t, Going, Ending
  <2>2. CASE ReadRoles(c)
    <3>1. PICK token : call' = [call EXCEPT ![c].at = "store", ![c].token = token]
      BY <2>2 DEF ReadRoles
    <3>2. call'[c] = [call[c] EXCEPT !.at = "store", !.token = token]
          /\ \A d \in Calls \ {c} : call'[d] = call[d]
      BY <3>1, <1>t
    <3>3. QED
      BY <3>2, <1>t DEF CallType
  <2>3. QED
    BY <1>4, <2>1, <2>2 DEF Session, Store, CompareToken, FindActive, Logout
<1>5. CASE OpenShop(c)
  <2>1. CASE End(c) \/ \E step \in {"findSlug", "insert"} : Go(c, step)
    BY <2>1, <1>5, <1>t, Going, Ending
  <2>2. CASE FindSlug(c) /\ call' = [call EXCEPT ![c].suffix = @ + 1]
    <3>1. call'[c] = [call[c] EXCEPT !.suffix = @ + 1]
          /\ \A d \in Calls \ {c} : call'[d] = call[d]
      BY <2>2, <1>t
    <3>2. QED
      BY <2>2, <3>1, <1>t, <1>5 DEF CallType, FindSlug, At
  <2>3. QED
    BY <1>5, <2>1, <2>2 DEF OpenShop, FindOwnShop, FindSlug, InsertShop
<1>6. QED
  BY <1>1, <1>2, <1>3, <1>4, <1>5

(* A call that begins has nothing behind it.                               *)
LEMMA Started ==
  ASSUME CallsLegal, NEW c \in Calls, NEW op \in story, NEW u \in Users, Start(c, op, u)
  PROVE  /\ \A d \in Calls \ {c} : call'[d] = call[d]
         /\ call'[c].op = op /\ call'[c].at = "begin" /\ call'[c].user = u /\ call'[c].suffix = 0
<1>1. call \in [Calls -> CallType]
  BY DEF CallsLegal, AccountsTypeOK
<1>2. QED
  BY <1>1 DEF Start, Idle

-----------------------------------------------------------------------------
(* Sessions.  A call of a user who logged out alone goes on with something *)
(* else than signing in, or brings a token that is not stored.             *)
LEMMA StillQuiet ==
  ASSUME CallsLegal, SignedOutQuiet, NEW c \in Calls,
         signedOut' \subseteq signedOut, \A u \in signedOut' : refresh'[u] = NoToken,
         \A d \in Calls \ {c} : call'[d] = call[d],
         \/ call'[c] = Idle
         \/ call'[c].user \in signedOut' =>
              ~SignsIn(call'[c].op) /\ (call'[c].op = "refreshToken" => call'[c].at = "begin")
  PROVE  SignedOutQuiet'
<1> SUFFICES ASSUME NEW u \in signedOut', NEW d \in Calls, call'[d].user = u
             PROVE  ~SignsIn(call'[d].op) /\ (call'[d].op = "refreshToken" => call'[d].at = "begin")
  BY DEF SignedOutQuiet, OfUser, User, At, SignsIn
<1>1. CASE d # c
  BY <1>1 DEF SignedOutQuiet, OfUser, User, At
<1>2. CASE d = c
  BY <1>2 DEF Idle, SignsIn
<1>3. QED
  BY <1>1, <1>2

LEMMA QuietCalls ==
  ASSUME CallsLegal, SignedOutQuiet, NEW c \in Calls,
         CallFails(c) \/ OneTimeCode(c) \/ SignIn(c) \/ Session(c) \/ OpenShop(c)
  PROVE  SignedOutQuiet'
<1>a. /\ call[c].at \in StepsOf(call[c].op) /\ call[c].op \in Operations \cup {"none"}
      /\ LegalCall(call[c]) /\ (call[c].at # "idle" => User(c) \in Users)
  BY CallAt DEF At
<1>q. User(c) \in signedOut =>
        ~SignsIn(call[c].op) /\ (call[c].op = "refreshToken" => call[c].at = "begin")
  BY DEF SignedOutQuiet, OfUser, At
<1>r. \A u \in signedOut : refresh[u] = NoToken
  BY DEF SignedOutQuiet
<1>s. refresh \in [Users -> Tokens \cup {NoToken}] /\ signedOut \subseteq Users
  BY DEF CallsLegal, AccountsTypeOK
<1>1. CASE CallFails(c) \/ OneTimeCode(c) \/ SignIn(c) \/ OpenShop(c)
  <2>1. UNCHANGED <<signedOut, refresh>>
    BY <1>1 DEF CallFails, OneTimeCode, SignIn, OpenShop, CheckLock, SetCode, ReadCode, Compare, Count,
                Lock, Clear, FindUser, CreateUser, MarkVerified, FindRole, GrantRole, FindOwnShop, FindSlug,
                InsertShop, sessions, ghosts
  <2>2. CallFails(c) \/ call[c].op # "refreshToken"
    BY <1>1, <1>a DEF OneTimeCode, SignIn, OpenShop, CheckLock, SetCode, ReadCode, Compare, Count,
                Lock, Clear, FindUser, CreateUser, MarkVerified, FindRole, GrantRole, FindOwnShop, FindSlug,
                InsertShop, At, StepsOf, Operations
  <2>3. CallFails(c) => call'[c] = Idle
    BY Ending DEF CallFails
  <2>4. QED
    BY <2>1, <2>2, <2>3, <1>q, <1>r, SameCall, StillQuiet DEF User
<1>2. CASE Session(c)
  <2>1. CASE ReadRoles(c) \/ Store(c) \/ FindActive(c)
    <3>1. User(c) \notin signedOut
      BY <2>1, <1>a, <1>q DEF ReadRoles, Store, FindActive, At, StepsOf, Operations, SignsIn
    <3>2. UNCHANGED signedOut
      BY <2>1 DEF ReadRoles, Store, FindActive, ghosts
    <3>3. \A u \in signedOut : refresh'[u] = NoToken
      BY <2>1, <3>1, <1>r, <1>s DEF ReadRoles, Store, FindActive, sessions
    <3>4. QED
      BY <3>1, <3>2, <3>3, <1>2, SameCall, StillQuiet DEF User, Idle
  <2>2. CASE CompareToken(c)
    <3>1. UNCHANGED <<signedOut, refresh>>
      BY <2>2 DEF CompareToken, sessions, ghosts
    <3>2. call[c].token \in Tokens
      BY <2>2, <1>a DEF CompareToken, LegalCall
    <3>3. User(c) \in signedOut => End(c)
      BY <2>2, <3>2, <1>r, AccountsAssumption DEF CompareToken
    <3>4. QED
      BY <3>1, <3>3, <1>r, <1>2, SameCall, Ending, StillQuiet DEF User, Idle
  <2>3. CASE Logout(c)
    <3>1. call'[c] = Idle /\ \A d \in Calls \ {c} : call'[d] = call[d]
      BY <2>3, Ending DEF Logout
    <3>2. \A u \in signedOut' : refresh'[u] = NoToken
      BY <2>3, <1>a, <1>r, <1>s DEF Logout, At
    <3>3. SUFFICES ASSUME NEW u \in signedOut', NEW d \in Calls, call'[d].user = u
                   PROVE  ~SignsIn(call'[d].op) /\ (call'[d].op = "refreshToken" => call'[d].at = "begin")
      BY <3>2 DEF SignedOutQuiet, OfUser, User, At, SignsIn
    <3>4. CASE d = c
      BY <3>1, <3>3, <3>4 DEF Idle, SignsIn
    <3>5. CASE d # c /\ u \in signedOut
      BY <3>1, <3>3, <3>5 DEF SignedOutQuiet, OfUser, User, At
    <3>6. CASE d # c /\ u \notin signedOut
      BY <2>3, <3>1, <3>3, <3>6 DEF Logout, OfUser, User
    <3>7. QED
      BY <3>4, <3>5, <3>6
  <2>4. QED
    BY <1>2, <2>1, <2>2, <2>3 DEF Session
<1>3. QED
  BY <1>1, <1>2

(* auth.service.ts logout, login, verifyOtp and refreshToken: once a user  *)
(* has logged out with no other call of theirs under way, there is no      *)
(* session until they sign in again, whatever else overlaps, fails or      *)
(* lapses, and whatever tokens their devices still hold.                   *)
THEOREM LogoutIsFinal == AccountsSpec => []LoggedOutStaysOut
<1>1. AccountsInit => SignedOutQuiet
  BY DEF AccountsInit, SignedOutQuiet
<1>2. CallsLegal /\ SignedOutQuiet /\ [AccountsNext]_accountVars => SignedOutQuiet'
  <2> SUFFICES ASSUME CallsLegal, SignedOutQuiet, [AccountsNext]_accountVars
               PROVE  SignedOutQuiet'
    OBVIOUS
  <2>1. ASSUME NEW c \in Calls, NEW op \in story, NEW u \in Users, Start(c, op, u)
        PROVE  SignedOutQuiet'
    <3>1. signedOut' \subseteq signedOut /\ (SignsIn(op) => u \notin signedOut') /\ refresh' = refresh
      BY <2>1 DEF Start, sessions
    <3>2. QED
      BY <2>1, <3>1, Started, StillQuiet DEF SignedOutQuiet
  <2>2. ASSUME NEW u \in Users, SessionLapses(u)
        PROVE  SignedOutQuiet'
    <3>1. refresh' = [refresh EXCEPT ![u] = NoToken] /\ signedOut' = signedOut /\ call' = call
      BY <2>2 DEF SessionLapses, ghosts
    <3>2. refresh \in [Users -> Tokens \cup {NoToken}] /\ signedOut \subseteq Users
      BY DEF CallsLegal, AccountsTypeOK
    <3>3. \A v \in signedOut' : refresh'[v] = NoToken
      BY <3>1, <3>2 DEF SignedOutQuiet
    <3>4. QED
      BY <3>1, <3>3 DEF SignedOutQuiet, OfUser, User, At, SignsIn
  <2>3. CASE (\E u \in Users : KeysExpire(u) \/ Deactivate(u)) \/ Tick \/ UNCHANGED accountVars
    <3>1. UNCHANGED <<refresh, signedOut, call>>
      BY <2>3 DEF KeysExpire, Deactivate, Tick, accountVars, sessions, ghosts
    <3>2. QED
      BY <3>1 DEF SignedOutQuiet, OfUser, User, At, SignsIn
  <2>4. QED
    BY <2>1, <2>2, <2>3, QuietCalls DEF AccountsNext
<1>3. SignedOutQuiet => LoggedOutStaysOut
  BY DEF SignedOutQuiet, LoggedOutStaysOut
<1>4. QED
  BY <1>1, <1>2, <1>3, CallsLegalAlways, PTL DEF AccountsSpec

-----------------------------------------------------------------------------
(* Attempts.                                                               *)
LEMMA StillAnswered ==
  ASSUME CallsLegal, AttemptsAnswered, NEW c \in Calls, UNCHANGED <<attempts, wrong, overtaken>>,
         \A d \in Calls \ {c} : call'[d] = call[d], call'[c].at \notin {"count", "lock"}
  PROVE  AttemptsAnswered'
<1> SUFFICES ASSUME NEW u \in Users \ overtaken, NEW d \in Calls, call'[d].user = u
             PROVE  /\ call'[d].at = "count" => call'[d].seen < wrong[u]
                    /\ call'[d].at = "lock" => wrong[u] = MaxAttempts
  BY DEF AttemptsAnswered, OfUser, User, At
<1>1. CASE d # c
  BY <1>1 DEF AttemptsAnswered, OfUser, User, At
<1>2. CASE d = c
  BY <1>2
<1>3. QED
  BY <1>1, <1>2

LEMMA AnsweredCodes ==
  ASSUME CallsLegal, AttemptsAnswered, NEW c \in Calls, OneTimeCode(c)
  PROVE  AttemptsAnswered'
<1>a. /\ User(c) \in Users /\ LegalCall(call[c]) /\ call[c] \in CallType
      /\ call \in [Calls -> CallType]
  BY CallAt DEF OneTimeCode, At, CheckLock, SetCode, ReadCode, Compare, Count, Lock, Clear
<1>b. /\ attempts \in [Users -> 0..MaxAttempts] /\ wrong \in [Users -> 0..MaxAttempts]
      /\ MaxAttempts \in Nat \ {0}
  BY AccountsAssumption DEF CallsLegal, AccountsTypeOK
<1>s. \A d \in Calls \ {c} : call'[d] = call[d]
  BY SameCall
<1>1. CASE CheckLock(c) \/ SetCode(c) \/ ReadCode(c) \/ Lock(c)
  <2>1. UNCHANGED <<attempts, wrong, overtaken>> /\ ~Compare(c)
    BY <1>1 DEF CheckLock, SetCode, ReadCode, Lock, Compare, At, codes, ghosts
  <2>2. QED
    BY <2>1, SameCall, StillAnswered
<1>2. CASE Compare(c)
  <2>1. UNCHANGED <<attempts, overtaken>>
    BY <1>2 DEF Compare, codes
  <2>2. CASE Go(c, "succeed") /\ UNCHANGED wrong
    <3>1. \E step \in {"succeed"} : Go(c, step)
      BY <2>2
    <3>2. call'[c].at = "succeed"
      BY <3>1, Going
    <3>3. QED
      BY <2>1, <2>2, <3>2, <1>s, StillAnswered
  <2>3. CASE IsOtpLocked(attempts[User(c)]) /\ Go(c, "lock") /\ UNCHANGED wrong
    <3>1. \E step \in {"lock"} : Go(c, step)
      BY <2>3
    <3>2. call'[c].at = "lock" /\ call'[c].user = User(c)
      BY <3>1, Going DEF User
    <3>3. User(c) \notin overtaken => wrong[User(c)] = MaxAttempts
      BY <2>3, <1>a, <1>b DEF AttemptsAnswered, IsOtpLocked
    <3>4. SUFFICES ASSUME NEW u \in Users \ overtaken, NEW d \in Calls, call'[d].user = u
                   PROVE  /\ call'[d].at = "count" => call'[d].seen < wrong[u]
                          /\ call'[d].at = "lock" => wrong[u] = MaxAttempts
      BY <2>1, <2>3 DEF AttemptsAnswered, OfUser, User, At
    <3>5. CASE d # c
      BY <3>4, <3>5, <1>s DEF AttemptsAnswered, OfUser, User, At
    <3>6. CASE d = c
      BY <3>2, <3>3, <3>4, <3>6
    <3>7. QED
      BY <3>5, <3>6
  <2>4. CASE /\ ~IsOtpLocked(attempts[User(c)])
             /\ call' = [call EXCEPT ![c].at = "count", ![c].seen = attempts[User(c)]]
             /\ wrong' = [wrong EXCEPT ![User(c)] = IF @ < MaxAttempts THEN @ + 1 ELSE @]
    <3>1. call'[c].at = "count" /\ call'[c].user = User(c) /\ call'[c].seen = attempts[User(c)]
      BY <2>4, <1>a DEF CallType, User
    <3>2. /\ wrong'[User(c)] = IF wrong[User(c)] < MaxAttempts THEN wrong[User(c)] + 1 ELSE wrong[User(c)]
          /\ \A v \in Users \ {User(c)} : wrong'[v] = wrong[v]
      BY <2>4, <1>a, <1>b
    <3>3. \A v \in Users : wrong[v] <= wrong'[v] /\ (wrong[v] = MaxAttempts => wrong'[v] = MaxAttempts)
      BY <3>2, <1>b
    <3>4. User(c) \notin overtaken => attempts[User(c)] < wrong'[User(c)]
      BY <2>4, <3>2, <1>a, <1>b DEF AttemptsAnswered, IsOtpLocked
    <3>5. \A v \in Users \ overtaken : attempts[v] <= wrong'[v]
      <4> TAKE v \in Users \ overtaken
      <4>1. attempts[v] <= wrong[v] /\ wrong[v] <= wrong'[v]
        BY <3>3 DEF AttemptsAnswered
      <4>2. attempts[v] \in Nat /\ wrong[v] \in Nat /\ wrong'[v] \in Nat
        BY <3>2, <1>b
      <4>3. QED
        BY <4>1, <4>2
    <3>6. SUFFICES ASSUME NEW u \in Users \ overtaken, NEW d \in Calls, call'[d].user = u
                   PROVE  /\ call'[d].at = "count" => call'[d].seen < wrong'[u]
                          /\ call'[d].at = "lock" => wrong'[u] = MaxAttempts
      BY <2>1, <3>5 DEF AttemptsAnswered, OfUser, User, At
    <3>7. CASE d # c
      <4>1. /\ call[d].at = "count" => call[d].seen < wrong[u]
            /\ call[d].at = "lock" => wrong[u] = MaxAttempts
        BY <3>6, <3>7, <1>s DEF AttemptsAnswered, OfUser, User, At
      <4>2. call[d].seen \in Nat /\ wrong[u] \in Nat /\ wrong'[u] \in Nat
        BY <3>2, <1>a, <1>b DEF CallType
      <4>3. QED
        BY <4>1, <4>2, <3>3, <3>7, <1>s
    <3>8. CASE d = c
      BY <3>1, <3>4, <3>6, <3>8
    <3>9. QED
      BY <3>7, <3>8
  <2>5. QED
    BY <1>2, <2>2, <2>3, <2>4 DEF Compare
<1>3. CASE Count(c)
  <2>1. attempts' = [attempts EXCEPT ![User(c)] = call[c].seen + 1] /\ UNCHANGED <<wrong, overtaken>>
    BY <1>3 DEF Count, ghosts
  <2>2. call'[c] = Idle
    BY <1>3, Ending DEF Count
  <2>3. User(c) \notin overtaken => call[c].seen + 1 <= wrong[User(c)]
    BY <1>3, <1>a, <1>b DEF Count, AttemptsAnswered, OfUser, CallType
  <2>4. \A u \in Users \ overtaken : attempts'[u] <= wrong'[u]
    BY <2>1, <2>3, <1>b DEF AttemptsAnswered
  <2>5. SUFFICES ASSUME NEW u \in Users \ overtaken, NEW d \in Calls, call'[d].user = u
                 PROVE  /\ call'[d].at = "count" => call'[d].seen < wrong[u]
                        /\ call'[d].at = "lock" => wrong[u] = MaxAttempts
    BY <2>1, <2>4 DEF AttemptsAnswered, OfUser, User, At
  <2>6. CASE d # c
    BY <2>5, <2>6, <1>s DEF AttemptsAnswered, OfUser, User, At
  <2>7. CASE d = c
    BY <2>2, <2>7 DEF Idle
  <2>8. QED
    BY <2>6, <2>7
<1>4. CASE Clear(c)
  <2> DEFINE late == {d \in OfUser(User(c)) \ {c} : call[d].at \in {"count", "lock"}}
  <2>1. /\ attempts' = [attempts EXCEPT ![User(c)] = 0] /\ wrong' = [wrong EXCEPT ![User(c)] = 0]
        /\ overtaken' = IF late = {} THEN overtaken \ {User(c)} ELSE overtaken \cup {User(c)}
    BY <1>4 DEF Clear
  <2>2. call'[c].at \notin {"count", "lock"}
    BY <1>4, SameCall DEF Clear, Compare, At
  <2>3. \A u \in Users \ overtaken' : u # User(c) => u \notin overtaken
    BY <2>1
  <2>4. \A u \in Users \ overtaken' : attempts'[u] <= wrong'[u]
    BY <2>1, <2>3, <1>b DEF AttemptsAnswered
  <2>5. SUFFICES ASSUME NEW u \in Users \ overtaken', NEW d \in Calls, call'[d].user = u
                 PROVE  /\ call'[d].at = "count" => call'[d].seen < wrong'[u]
                        /\ call'[d].at = "lock" => wrong'[u] = MaxAttempts
    BY <2>4 DEF AttemptsAnswered, OfUser, User, At
  <2>6. CASE d = c
    BY <2>2, <2>6
  <2>7. CASE d # c /\ u # User(c)
    BY <2>1, <2>3, <2>5, <2>7, <1>s, <1>b DEF AttemptsAnswered, OfUser, User, At
  <2>8. CASE d # c /\ u = User(c)
    BY <2>1, <2>5, <2>8, <1>s DEF OfUser, User
  <2>9. QED
    BY <2>6, <2>7, <2>8
<1>5. QED
  BY <1>1, <1>2, <1>3, <1>4 DEF OneTimeCode

(* auth.service.ts verifyOtp: a phone is locked only after                 *)
(* OTP_MAX_ATTEMPTS wrong answers to its code, however the calls that read *)
(* the attempts and write them back overlap, unless the attempts were      *)
(* cleared under such a call.                                              *)
THEOREM LocksHaveCause == AccountsSpec => LockedByWrongAnswers
<1>1. AccountsInit => AttemptsAnswered
  <2> SUFFICES ASSUME AccountsInit
               PROVE  AttemptsAnswered
    OBVIOUS
  <2>1. \A c \in Calls : call[c].at = "idle"
    BY DEF AccountsInit, Idle
  <2>2. QED
    BY <2>1 DEF AccountsInit, AttemptsAnswered, OfUser, At
<1>2. CallsLegal /\ AttemptsAnswered /\ [AccountsNext]_accountVars => AttemptsAnswered'
  <2> SUFFICES ASSUME CallsLegal, AttemptsAnswered, [AccountsNext]_accountVars
               PROVE  AttemptsAnswered'
    OBVIOUS
  <2>1. ASSUME NEW c \in Calls, NEW op \in story, NEW u \in Users, Start(c, op, u)
        PROVE  AttemptsAnswered'
    <3>1. UNCHANGED <<attempts, wrong, overtaken>>
      BY <2>1 DEF Start, codes
    <3>2. QED
      BY <2>1, <3>1, Started, StillAnswered
  <2>2. ASSUME NEW c \in Calls, CallFails(c) \/ SignIn(c) \/ Session(c) \/ OpenShop(c)
        PROVE  AttemptsAnswered'
    <3>1. UNCHANGED <<attempts, wrong, overtaken>>
      BY <2>2 DEF CallFails, SignIn, Session, OpenShop, FindUser, CreateUser, MarkVerified, FindRole,
                  GrantRole, ReadRoles, Store, CompareToken, FindActive, Logout, FindOwnShop, FindSlug,
                  InsertShop, codes, ghosts
    <3>2. CASE CallFails(c)
      <4>1. call'[c].at = "idle"
        BY <3>2, Ending DEF CallFails, Idle
      <4>2. QED
        BY <2>2, <3>1, <4>1, SameCall, StillAnswered
    <3>3. CASE SignIn(c) \/ Session(c) \/ OpenShop(c)
      <4>1. ~Compare(c)
        BY <3>3 DEF SignIn, Session, OpenShop, FindUser, CreateUser, MarkVerified, FindRole, GrantRole,
                    ReadRoles, Store, CompareToken, FindActive, Logout, FindOwnShop, FindSlug, InsertShop,
                    Compare, At
      <4>2. QED
        BY <2>2, <3>1, <4>1, SameCall, StillAnswered
    <3>4. QED
      BY <2>2, <3>2, <3>3
  <2>3. ASSUME NEW u \in Users, KeysExpire(u)
        PROVE  AttemptsAnswered'
    <3>1. UNCHANGED <<call, wrong, overtaken>>
      BY <2>3 DEF KeysExpire, ghosts
    <3>2. attempts \in [Users -> Nat] /\ wrong \in [Users -> Nat]
      BY AccountsAssumption DEF CallsLegal, AccountsTypeOK
    <3>3. \A v \in Users : attempts'[v] = attempts[v] \/ attempts'[v] = 0
      BY <2>3, <3>2 DEF KeysExpire
    <3>4. \A v \in Users \ overtaken : attempts'[v] <= wrong[v]
      BY <3>2, <3>3 DEF AttemptsAnswered
    <3>5. QED
      BY <3>1, <3>4 DEF AttemptsAnswered, OfUser, User, At
  <2>4. CASE (\E u \in Users : SessionLapses(u) \/ Deactivate(u)) \/ Tick \/ UNCHANGED accountVars
    <3>1. UNCHANGED <<attempts, wrong, overtaken, call>>
      BY <2>4 DEF SessionLapses, Deactivate, Tick, accountVars, codes, ghosts
    <3>2. QED
      BY <3>1 DEF AttemptsAnswered, OfUser, User, At
  <2>5. QED
    BY <2>1, <2>2, <2>3, <2>4, AnsweredCodes DEF AccountsNext
<1>3. CallsLegal /\ AttemptsAnswered /\ [AccountsNext]_accountVars
        => [\A u \in Users : u \in locked' \ locked /\ u \notin overtaken
                              => wrong[u] = MaxAttempts]_accountVars
  <2> SUFFICES ASSUME CallsLegal, AttemptsAnswered, AccountsNext,
                      NEW u \in Users, u \in locked' \ locked, u \notin overtaken
               PROVE  wrong[u] = MaxAttempts
    OBVIOUS
  <2>1. PICK c \in Calls : Lock(c) /\ u = User(c)
    <3>1. ASSUME NEW c \in Calls, NEW op \in story, NEW v \in Users, Start(c, op, v)
          PROVE  UNCHANGED locked
      BY <3>1 DEF Start, codes
    <3>2. ASSUME NEW c \in Calls, CallFails(c) \/ SignIn(c) \/ Session(c) \/ OpenShop(c)
          PROVE  UNCHANGED locked
      BY <3>2 DEF CallFails, SignIn, Session, OpenShop, FindUser, CreateUser, MarkVerified, FindRole,
                  GrantRole, ReadRoles, Store, CompareToken, FindActive, Logout, FindOwnShop, FindSlug,
                  InsertShop, codes
    <3>3. ASSUME NEW c \in Calls, OneTimeCode(c)
          PROVE  UNCHANGED locked \/ (Lock(c) /\ u = User(c))
      BY <3>3 DEF OneTimeCode, CheckLock, SetCode, ReadCode, Compare, Count, Lock, Clear, codes
    <3>4. ASSUME NEW v \in Users, KeysExpire(v) \/ SessionLapses(v) \/ Deactivate(v)
          PROVE  locked' \subseteq locked
      BY <3>4 DEF KeysExpire, SessionLapses, Deactivate, codes
    <3>5. Tick => UNCHANGED locked
      BY DEF Tick, codes
    <3>6. QED
      BY <3>1, <3>2, <3>3, <3>4, <3>5 DEF AccountsNext
  <2>2. QED
    BY <2>1 DEF Lock, AttemptsAnswered, OfUser
<1>4. QED
  BY <1>1, <1>2, <1>3, CallsLegalAlways, PTL DEF AccountsSpec, LockedByWrongAnswers

-----------------------------------------------------------------------------
(* Slugs.                                                                  *)
LEMMA StillSmallerTaken ==
  ASSUME CallsLegal, SmallerSlugsTaken, NEW c \in Calls, shops \subseteq shops',
         \A d \in Calls \ {c} : call'[d] = call[d],
         call'[c].at \in {"begin", "findSlug", "insert"} =>
           \A n \in 0..LastSuffix : n < call'[c].suffix => \E s \in shops' : s.slug = <<call'[c].arg, n>>
  PROVE  SmallerSlugsTaken'
<1> SUFFICES ASSUME NEW d \in Calls, call'[d].at \in {"begin", "findSlug", "insert"},
                    NEW n \in 0..LastSuffix, n < call'[d].suffix
             PROVE  \E s \in shops' : s.slug = <<call'[d].arg, n>>
  BY DEF SmallerSlugsTaken, Taken
<1>1. CASE d # c
  BY <1>1 DEF SmallerSlugsTaken, Taken
<1>2. CASE d = c
  BY <1>2
<1>3. QED
  BY <1>1, <1>2

LEMMA SlugsOpened ==
  ASSUME CallsLegal, SmallerSlugsTaken, SlugsWithoutGaps, NEW c \in Calls, OpenShop(c)
  PROVE  SmallerSlugsTaken' /\ SlugsWithoutGaps'
<1>a. call[c] \in CallType /\ call \in [Calls -> CallType]
  BY CallAt
<1>s. \A d \in Calls \ {c} : call'[d] = call[d]
  BY SameCall
<1>1. CASE FindOwnShop(c)
  <2>1. UNCHANGED shops /\ call[c].at = "begin"
    BY <1>1 DEF FindOwnShop, rows, At
  <2>2. call'[c] = Idle \/ (call'[c].suffix = call[c].suffix /\ call'[c].arg = call[c].arg)
    <3>1. End(c) \/ \E step \in {"findSlug"} : Go(c, step)
      BY <1>1 DEF FindOwnShop
    <3>2. QED
      BY <3>1, Ending, Going
  <2>3. call'[c].at \in {"begin", "findSlug", "insert"} =>
          \A n \in 0..LastSuffix : n < call'[c].suffix => \E s \in shops' : s.slug = <<call'[c].arg, n>>
    <3>1. CASE call'[c] = Idle
      BY <3>1 DEF Idle
    <3>2. CASE call'[c].suffix = call[c].suffix /\ call'[c].arg = call[c].arg
      BY <2>1, <3>2 DEF SmallerSlugsTaken, Taken
    <3>3. QED
      BY <2>2, <3>1, <3>2
  <2>4. SmallerSlugsTaken'
    BY <2>1, <2>3, <1>s, StillSmallerTaken
  <2>5. QED
    BY <2>1, <2>4 DEF SlugsWithoutGaps, Taken
<1>2. CASE FindSlug(c)
  <2>1. UNCHANGED shops /\ call[c].at = "findSlug"
    BY <1>2 DEF FindSlug, rows, At
  <2>2. CASE \E step \in {"insert"} : Go(c, step)
    <3>1. call'[c].suffix = call[c].suffix /\ call'[c].arg = call[c].arg
      BY <2>2, Going
    <3>2. QED
      <4>1. \A n \in 0..LastSuffix : n < call'[c].suffix => \E s \in shops' : s.slug = <<call'[c].arg, n>>
        BY <2>1, <3>1 DEF SmallerSlugsTaken, Taken
      <4>2. QED
        BY <2>1, <4>1, <1>s, StillSmallerTaken DEF SlugsWithoutGaps, Taken
  <2>3. CASE Taken(Slug(c)) /\ call' = [call EXCEPT ![c].suffix = @ + 1]
    <3>1. call'[c].suffix = call[c].suffix + 1 /\ call'[c].arg = call[c].arg /\ call[c].suffix \in Nat
      BY <2>3, <1>a, AccountsAssumption DEF CallType
    <3>2. \A n \in 0..LastSuffix : n < call[c].suffix + 1 => n < call[c].suffix \/ n = call[c].suffix
      BY <3>1, AccountsAssumption
    <3>3. \A n \in 0..LastSuffix : n < call'[c].suffix => \E s \in shops' : s.slug = <<call'[c].arg, n>>
      BY <2>1, <2>3, <3>1, <3>2 DEF SmallerSlugsTaken, Taken, Slug
    <3>4. QED
      BY <2>1, <3>3, <1>s, StillSmallerTaken DEF SlugsWithoutGaps, Taken
  <2>4. QED
    BY <1>2, <2>2, <2>3 DEF FindSlug
<1>3. CASE InsertShop(c)
  <2>1. shops' = IF Taken(Slug(c)) THEN shops ELSE shops \cup {[owner |-> User(c), slug |-> Slug(c)]}
    BY <1>3 DEF InsertShop
  <2>2. call'[c].at = "idle"
    BY <1>3, Ending DEF InsertShop, Idle
  <2>3. SmallerSlugsTaken'
    BY <2>1, <2>2, <1>s, StillSmallerTaken
  <2>4. ASSUME NEW s \in shops', NEW n \in 0..LastSuffix, n < s.slug[2]
        PROVE  \E t \in shops' : t.slug = <<s.slug[1], n>>
    <3>1. CASE s \in shops
      BY <2>1, <2>4, <3>1 DEF SlugsWithoutGaps, Taken
    <3>2. CASE s = [owner |-> User(c), slug |-> Slug(c)]
      <4>1. s.slug[1] = call[c].arg /\ s.slug[2] = call[c].suffix
        BY <3>2 DEF Slug
      <4>2. call[c].at = "insert"
        BY <1>3 DEF InsertShop, At
      <4>3. QED
        BY <2>1, <2>4, <4>1, <4>2 DEF SmallerSlugsTaken, Taken
    <3>3. QED
      BY <2>1, <3>1, <3>2
  <2>5. QED
    BY <2>3, <2>4 DEF SlugsWithoutGaps, Taken
<1>4. QED
  BY <1>1, <1>2, <1>3 DEF OpenShop

(* Only createShop writes shops.                                           *)
LEMMA ShopsAsTheyWere ==
  ASSUME NEW c \in Calls, CallFails(c) \/ OneTimeCode(c) \/ SignIn(c) \/ Session(c)
  PROVE  UNCHANGED shops /\ (CallFails(c) \/ ~OpenShop(c))
<1>1. UNCHANGED shops
  BY DEF CallFails, OneTimeCode, SignIn, Session, CheckLock, SetCode, ReadCode, Compare, Count, Lock,
         Clear, FindUser, CreateUser, MarkVerified, FindRole, GrantRole, ReadRoles, Store, CompareToken,
         FindActive, Logout, rows
<1>2. OneTimeCode(c) \/ SignIn(c) \/ Session(c) => ~OpenShop(c)
  BY DEF OneTimeCode, SignIn, Session, CheckLock, SetCode, ReadCode, Compare, Count, Lock,
         Clear, FindUser, CreateUser, MarkVerified, FindRole, GrantRole, ReadRoles, Store, CompareToken,
         FindActive, Logout, OpenShop, FindOwnShop, FindSlug, InsertShop, At
<1>3. QED
  BY <1>1, <1>2

LEMMA ElseKeepsShops ==
  ASSUME (\E u \in Users : KeysExpire(u) \/ SessionLapses(u) \/ Deactivate(u)) \/ Tick \/ UNCHANGED accountVars
  PROVE  UNCHANGED <<call, shops, granted, present>>
  BY DEF KeysExpire, SessionLapses, Deactivate, Tick, accountVars, rows

(* shops.service.ts generateUniqueSlug: the slugs of the shops of one name *)
(* are numbered without gaps, also when calls look for a free one at a     *)
(* time, lose it to each other, or stop between the look and the insert.   *)
THEOREM SlugsNumbered == AccountsSpec => []SlugsWithoutGaps
<1> DEFINE SlugInv == SmallerSlugsTaken /\ SlugsWithoutGaps
<1>1. AccountsInit => SlugInv
  <2> SUFFICES ASSUME AccountsInit
               PROVE  SlugInv
    OBVIOUS
  <2>1. \A c \in Calls : call[c].at = "idle"
    BY DEF AccountsInit, Idle
  <2>2. QED
    BY <2>1 DEF AccountsInit, SmallerSlugsTaken, SlugsWithoutGaps
<1>2. CallsLegal /\ SlugInv /\ [AccountsNext]_accountVars => SlugInv'
  <2> SUFFICES ASSUME CallsLegal, SlugInv, [AccountsNext]_accountVars
               PROVE  SlugInv'
    OBVIOUS
  <2>1. ASSUME NEW c \in Calls, NEW op \in story, NEW u \in Users, Start(c, op, u)
        PROVE  SlugInv'
    <3>1. UNCHANGED shops
      BY <2>1 DEF Start, rows
    <3>2. \A n \in 0..LastSuffix : ~(n < 0)
      BY AccountsAssumption
    <3>3. SmallerSlugsTaken'
      <4>1. /\ \A d \in Calls \ {c} : call'[d] = call[d]
            /\ call'[c].suffix = 0
        BY <2>1, Started
      <4>2. QED
        BY <3>1, <3>2, <4>1, StillSmallerTaken
    <3>4. QED
      BY <3>1, <3>3 DEF SlugsWithoutGaps, Taken
  <2>2. ASSUME NEW c \in Calls, CallFails(c) \/ OneTimeCode(c) \/ SignIn(c) \/ Session(c)
        PROVE  SlugInv'
    <3>1. UNCHANGED shops
      BY <2>2, ShopsAsTheyWere
    <3>2. call'[c].at \notin {"begin", "findSlug", "insert"}
      BY <2>2, SameCall, ShopsAsTheyWere, Ending DEF CallFails, Idle
    <3>3. SmallerSlugsTaken'
      BY <2>2, <3>1, <3>2, SameCall, StillSmallerTaken
    <3>4. QED
      BY <3>1, <3>3 DEF SlugsWithoutGaps, Taken
  <2>3. CASE (\E u \in Users : KeysExpire(u) \/ SessionLapses(u) \/ Deactivate(u)) \/ Tick \/ UNCHANGED accountVars
    BY <2>3, ElseKeepsShops DEF SmallerSlugsTaken, SlugsWithoutGaps, Taken
  <2>4. QED
    BY <2>1, <2>2, <2>3, SlugsOpened DEF AccountsNext
<1>3. QED
  BY <1>1, <1>2, CallsLegalAlways, PTL DEF AccountsSpec

-----------------------------------------------------------------------------
(* Copies.  What has been written and what may yet be is never more than   *)
(* the calls: it is as much when a call that may write does so or not, and *)
(* calls come to write only where nothing was.                             *)
LEMMA RoomStays ==
  ASSUME NEW n \in Nat, NEW m \in Nat, NEW S \in SUBSET Calls, NEW T \in SUBSET Calls,
         n + Cardinality(S) <= Cardinality(Calls),
         \/ m <= n /\ T \subseteq S
         \/ m <= n + 1 /\ \E c \in S : T \subseteq S \ {c}
         \/ m = 0
  PROVE  m + Cardinality(T) <= Cardinality(Calls)
<1>1. /\ IsFiniteSet(S) /\ IsFiniteSet(T) /\ Cardinality(T) <= Cardinality(Calls)
      /\ Cardinality(S) \in Nat /\ Cardinality(T) \in Nat /\ Cardinality(Calls) \in Nat
  BY AccountsAssumption, FS_Subset, FS_CardinalityType DEF AccountsAssumption
<1>2. CASE m <= n /\ T \subseteq S
  <2>1. Cardinality(T) <= Cardinality(S)
    BY <1>1, <1>2, FS_Subset
  <2>2. QED
    BY <1>1, <1>2, <2>1
<1>3. CASE m <= n + 1 /\ \E c \in S : T \subseteq S \ {c}
  <2>1. PICK c \in S : T \subseteq S \ {c}
    BY <1>3
  <2>2. IsFiniteSet(S \ {c}) /\ Cardinality(S \ {c}) = Cardinality(S) - 1
    BY <1>1, FS_RemoveElement
  <2>3. Cardinality(T) <= Cardinality(S \ {c})
    BY <2>1, <2>2, FS_Subset
  <2>4. QED
    BY <1>1, <1>3, <2>2, <2>3
<1>4. CASE m = 0
  BY <1>1, <1>4
<1>5. QED
  BY <1>2, <1>3, <1>4

LEMMA Counted ==
  ASSUME EachShopHadItsCall, NEW u \in Users
  PROVE  IsFiniteSet(ShopsOf(u)) /\ Cardinality(ShopsOf(u)) \in Nat
<1>1. ShopsOf(u) \in SUBSET shops
  BY DEF ShopsOf
<1>2. QED
  BY <1>1, FS_Subset, FS_CardinalityType DEF EachShopHadItsCall

LEMMA ShopsStayCounted ==
  ASSUME EachShopHadItsCall, UNCHANGED shops, \A u \in Users : Opening(u)' \subseteq Opening(u)
  PROVE  EachShopHadItsCall'
<1> SUFFICES ASSUME NEW u \in Users
             PROVE  Cardinality(ShopsOf(u)) + Cardinality(Opening(u)') <= Cardinality(Calls)
  BY DEF EachShopHadItsCall, ShopsOf
<1>1. Opening(u) \in SUBSET Calls /\ Opening(u)' \in SUBSET Calls
  BY DEF Opening, OfUser
<1>2. Cardinality(ShopsOf(u)) \in Nat
  BY Counted
<1>3. Cardinality(ShopsOf(u)) + Cardinality(Opening(u)) <= Cardinality(Calls) /\ Opening(u)' \subseteq Opening(u)
  BY DEF EachShopHadItsCall
<1> DEFINE S == Opening(u)
           T == Opening(u)'
           n == Cardinality(ShopsOf(u))
<1> HIDE DEF S, T, n
<1>4. S \in SUBSET Calls /\ T \in SUBSET Calls /\ T \subseteq S /\ n \in Nat
      /\ n + Cardinality(S) <= Cardinality(Calls) /\ n <= n
  BY <1>1, <1>2, <1>3 DEF S, T, n
<1>5. n + Cardinality(T) <= Cardinality(Calls)
  BY <1>4, RoomStays
<1>6. QED
  BY <1>5 DEF T, n

LEMMA ShopsCounted ==
  ASSUME CallsLegal, EachShopHadItsCall, NEW c \in Calls, OpenShop(c)
  PROVE  EachShopHadItsCall'
<1>a. User(c) \in Users
  BY CallAt DEF OpenShop, FindOwnShop, FindSlug, InsertShop, At
<1>s. /\ \A d \in Calls \ {c} : call'[d] = call[d]
      /\ call'[c] = Idle \/ call'[c].user = call[c].user
  BY SameCall
<1>i. Idle.at = "idle"
  BY DEF Idle
<1>o. \A u \in Users : Opening(u)' \subseteq Opening(u) \cup ({c} \cap OfUser(u))
  <2> TAKE u \in Users
  <2> SUFFICES ASSUME NEW d \in Calls, call'[d].user = u, call'[d].at \in {"findSlug", "insert"}
               PROVE  d \in Opening(u) \/ (d = c /\ call[c].user = u)
    BY DEF Opening, OfUser, User
  <2>1. CASE d = c
    BY <2>1, <1>s, <1>i
  <2>2. CASE d # c
    BY <2>2, <1>s DEF Opening, OfUser, User
  <2>3. QED
    BY <2>1, <2>2
<1>1. CASE FindSlug(c)
  <2>1. UNCHANGED shops /\ c \in Opening(User(c))
    BY <1>1 DEF FindSlug, rows, At, Opening, OfUser
  <2>2. \A u \in Users : Opening(u)' \subseteq Opening(u)
    BY <2>1, <1>o DEF OfUser, User
  <2>3. QED
    BY <2>1, <2>2, ShopsStayCounted
<1>2. CASE FindOwnShop(c)
  <2>1. UNCHANGED shops
    BY <1>2 DEF FindOwnShop, rows
  <2>2. CASE End(c)
    <3>1. call'[c].at = "idle"
      BY <2>2, <1>i, Ending
    <3>2. \A u \in Users : c \notin Opening(u)'
      BY <3>1 DEF Opening
    <3>3. \A u \in Users : Opening(u)' \subseteq Opening(u)
      BY <3>2, <1>o
    <3>4. QED
      BY <2>1, <3>3, ShopsStayCounted
  <2>3. CASE ShopsOf(User(c)) = {}
    <3>1. ASSUME NEW u \in Users
          PROVE  Cardinality(ShopsOf(u)) + Cardinality(Opening(u)') <= Cardinality(Calls)
      <4> DEFINE S == Opening(u)
                 T == Opening(u)'
                 n == Cardinality(ShopsOf(u))
      <4>1. S \in SUBSET Calls /\ T \in SUBSET Calls /\ n \in Nat /\ n + Cardinality(S) <= Cardinality(Calls)
        BY Counted DEF EachShopHadItsCall, Opening, OfUser
      <4>2. CASE u = User(c)
        <5>1. n = 0
          BY <2>3, <4>2, FS_EmptySet
        <5> HIDE DEF S, T, n
        <5>2. n + Cardinality(T) <= Cardinality(Calls)
          BY <4>1, <5>1, RoomStays
        <5>3. QED
          BY <5>2 DEF T, n
      <4>3. CASE u # User(c)
        <5>1. T \subseteq S
          BY <4>3, <1>o DEF OfUser
        <5> HIDE DEF S, T, n
        <5>2. n <= n
          BY <4>1
        <5>3. n + Cardinality(T) <= Cardinality(Calls)
          BY <4>1, <5>1, <5>2, RoomStays
        <5>4. QED
          BY <5>3 DEF T, n
      <4>4. QED
        BY <4>2, <4>3
    <3>2. QED
      BY <2>1, <3>1 DEF EachShopHadItsCall, ShopsOf
  <2>4. QED
    BY <1>2, <2>2, <2>3 DEF FindOwnShop
<1>3. CASE InsertShop(c)
  <2>1. shops' = IF Taken(Slug(c)) THEN shops ELSE shops \cup {[owner |-> User(c), slug |-> Slug(c)]}
    BY <1>3 DEF InsertShop
  <2>2. call'[c].at = "idle" /\ c \in Opening(User(c))
    BY <1>3, <1>i, Ending DEF InsertShop, At, Opening, OfUser
  <2>3. \A u \in Users : Opening(u)' \subseteq Opening(u) \ {c}
    <3>1. \A u \in Users : c \notin Opening(u)'
      BY <2>2 DEF Opening
    <3>2. QED
      BY <3>1, <1>o
  <2>4. IsFiniteSet(shops')
    BY <2>1, FS_AddElement DEF EachShopHadItsCall
  <2>5. ASSUME NEW u \in Users
        PROVE  Cardinality(ShopsOf(u)') + Cardinality(Opening(u)') <= Cardinality(Calls)
    <3> DEFINE S == Opening(u)
               T == Opening(u)'
               n == Cardinality(ShopsOf(u))
               m == Cardinality(ShopsOf(u)')
    <3>1. S \in SUBSET Calls /\ T \in SUBSET Calls /\ n \in Nat /\ n + Cardinality(S) <= Cardinality(Calls)
          /\ T \subseteq S \ {c}
      BY <2>3, Counted DEF EachShopHadItsCall, Opening, OfUser
    <3>2. CASE u = User(c)
      <4>1. ShopsOf(u)' = ShopsOf(u) \/ ShopsOf(u)' = ShopsOf(u) \cup {[owner |-> User(c), slug |-> Slug(c)]}
        BY <2>1, <3>2 DEF ShopsOf
      <4>2. m \in Nat /\ m <= n + 1
        <5>1. IsFiniteSet(ShopsOf(u)) /\ Cardinality(ShopsOf(u)) \in Nat
          BY Counted
        <5>2. ASSUME NEW x
              PROVE  /\ Cardinality(ShopsOf(u) \cup {x}) \in Nat
                     /\ Cardinality(ShopsOf(u) \cup {x}) <= Cardinality(ShopsOf(u)) + 1
          BY <5>1, FS_AddElement
        <5>3. CASE ShopsOf(u)' = ShopsOf(u)
          BY <5>1, <5>3
        <5>4. CASE ShopsOf(u)' = ShopsOf(u) \cup {[owner |-> User(c), slug |-> Slug(c)]}
          <6> DEFINE X == ShopsOf(u) \cup {[owner |-> User(c), slug |-> Slug(c)]}
          <6>1. Cardinality(X) \in Nat /\ Cardinality(X) <= n + 1
            BY <5>2
          <6>2. ShopsOf(u)' = X
            BY <5>4
          <6> HIDE DEF X, n
          <6>3. QED
            BY <6>1, <6>2
        <5>5. QED
          BY <4>1, <5>3, <5>4
      <4>3. c \in S
        BY <2>2, <3>2
      <4> HIDE DEF S, T, n, m
      <4>4. m + Cardinality(T) <= Cardinality(Calls)
        BY <3>1, <4>2, <4>3, RoomStays
      <4>5. QED
        BY <4>4 DEF T, m
    <3>3. CASE u # User(c)
      <4>1. ShopsOf(u)' = ShopsOf(u)
        BY <2>1, <3>3 DEF ShopsOf
      <4>2. m = n
        BY <4>1
      <4> HIDE DEF S, T, n, m
      <4>3. m \in Nat /\ m <= n /\ T \subseteq S
        BY <3>1, <4>2
      <4>4. m + Cardinality(T) <= Cardinality(Calls)
        BY <3>1, <4>3, RoomStays
      <4>5. QED
        BY <4>4 DEF T, m
    <3>4. QED
      BY <3>2, <3>3
  <2>6. QED
    BY <2>4, <2>5 DEF EachShopHadItsCall
<1>4. QED
  BY <1>1, <1>2, <1>3 DEF OpenShop

LEMMA ShopsHadCalls == AccountsSpec => []EachShopHadItsCall
<1>1. AccountsInit => EachShopHadItsCall
  <2> SUFFICES ASSUME AccountsInit, NEW u \in Users
               PROVE  Cardinality(ShopsOf(u)) + Cardinality(Opening(u)) <= Cardinality(Calls)
    BY FS_EmptySet DEF AccountsInit, EachShopHadItsCall
  <2>i. \A c \in Calls : call[c].at = "idle"
    BY DEF AccountsInit, Idle
  <2>1. ShopsOf(u) = {} /\ Opening(u) = {}
    BY <2>i DEF AccountsInit, ShopsOf, Opening, OfUser
  <2>2. Cardinality(Calls) \in Nat
    BY AccountsAssumption, FS_CardinalityType DEF AccountsAssumption
  <2>3. QED
    BY <2>1, <2>2, FS_EmptySet
<1>2. CallsLegal /\ EachShopHadItsCall /\ [AccountsNext]_accountVars => EachShopHadItsCall'
  <2> SUFFICES ASSUME CallsLegal, EachShopHadItsCall, [AccountsNext]_accountVars
               PROVE  EachShopHadItsCall'
    OBVIOUS
  <2>1. ASSUME NEW c \in Calls, \A d \in Calls \ {c} : call'[d] = call[d],
               call'[c].at \notin {"findSlug", "insert"}
        PROVE  \A u \in Users : Opening(u)' \subseteq Opening(u)
    BY <2>1 DEF Opening, OfUser, User
  <2>2. ASSUME NEW c \in Calls, NEW op \in story, NEW u \in Users, Start(c, op, u)
        PROVE  EachShopHadItsCall'
    <3>1. UNCHANGED shops
      BY <2>2 DEF Start, rows
    <3>2. (\A d \in Calls \ {c} : call'[d] = call[d]) /\ call'[c].at = "begin"
      BY <2>2, Started
    <3>3. QED
      BY <2>1, <3>1, <3>2, ShopsStayCounted
  <2>3. ASSUME NEW c \in Calls, CallFails(c) \/ OneTimeCode(c) \/ SignIn(c) \/ Session(c)
        PROVE  EachShopHadItsCall'
    <3>1. UNCHANGED shops
      BY <2>3, ShopsAsTheyWere
    <3>2. (\A d \in Calls \ {c} : call'[d] = call[d]) /\ call'[c].at \notin {"findSlug", "insert"}
      BY <2>3, SameCall, ShopsAsTheyWere, Ending DEF CallFails, Idle
    <3>3. QED
      BY <2>1, <3>1, <3>2, ShopsStayCounted
  <2>4. CASE (\E u \in Users : KeysExpire(u) \/ SessionLapses(u) \/ Deactivate(u)) \/ Tick \/ UNCHANGED accountVars
    <3>1. UNCHANGED <<call, shops>>
      BY <2>4, ElseKeepsShops
    <3>2. \A u \in Users : Opening(u)' \subseteq Opening(u)
      BY <3>1 DEF Opening, OfUser, User
    <3>3. QED
      BY <3>1, <3>2, ShopsStayCounted
  <2>5. QED
    BY <2>2, <2>3, <2>4, ShopsCounted DEF AccountsNext
<1>3. QED
  BY <1>1, <1>2, CallsLegalAlways, PTL DEF AccountsSpec

(* Rows of user_roles.                                                     *)
LEMMA RowsStayCounted ==
  ASSUME CallsLegal, EachRowHadItsCall, UNCHANGED <<granted, present>>,
         \A u \in Users, r \in Roles : Granting(u, r)' \subseteq Granting(u, r) \/ granted[u][r] = 0,
         \A c \in Calls : call'[c].at \in {"verify", "findRole", "grant"} => call'[c].user \in present
  PROVE  EachRowHadItsCall'
<1> SUFFICES ASSUME NEW u \in Users, NEW r \in Roles
             PROVE  granted[u][r] + Cardinality(Granting(u, r)') <= Cardinality(Calls)
  BY DEF EachRowHadItsCall, User
<1> DEFINE S == Granting(u, r)
           T == Granting(u, r)'
           n == granted[u][r]
<1>1. S \in SUBSET Calls /\ T \in SUBSET Calls /\ (T \subseteq S \/ n = 0)
  BY DEF Granting, OfUser
<1>2. n \in Nat /\ n + Cardinality(S) <= Cardinality(Calls)
  BY DEF CallsLegal, AccountsTypeOK, EachRowHadItsCall
<1> HIDE DEF S, T, n
<1>3. n <= n
  BY <1>2
<1>4. n + Cardinality(T) <= Cardinality(Calls)
  BY <1>1, <1>2, <1>3, RoomStays
<1>5. QED
  BY <1>4 DEF T, n

LEMMA RowWritten ==
  ASSUME CallsLegal, EachRowHadItsCall, NEW c \in Calls, call[c].at \in {"create", "grant"},
         User(c) \in Users, granted' = [granted EXCEPT ![User(c)][RoleAsked(c)] = @ + 1],
         present' = present \cup {User(c)},
         \A d \in Calls \ {c} : call'[d] = call[d], call'[c].at = "readRoles"
  PROVE  EachRowHadItsCall'
<1>g. granted \in [Users -> [Roles -> Nat]] /\ RoleAsked(c) \in Roles
  BY RoleAskedIsARole DEF CallsLegal, AccountsTypeOK
<1>m. /\ granted'[User(c)][RoleAsked(c)] = granted[User(c)][RoleAsked(c)] + 1
      /\ \A v \in Users, q \in Roles : v # User(c) \/ q # RoleAsked(c) => granted'[v][q] = granted[v][q]
      /\ granted' \in [Users -> [Roles -> Nat]]
  BY <1>g, OneMoreRow
<1>1. ASSUME NEW u \in Users, NEW r \in Roles
      PROVE  granted'[u][r] + Cardinality(Granting(u, r)') <= Cardinality(Calls)
  <2> DEFINE S == Granting(u, r)
             T == Granting(u, r)'
             n == granted[u][r]
             m == granted'[u][r]
  <2>1. S \in SUBSET Calls /\ T \in SUBSET Calls /\ T \subseteq S \ {c}
    BY DEF Granting, OfUser, User, RoleAsked
  <2>2. n \in Nat /\ m \in Nat /\ n + Cardinality(S) <= Cardinality(Calls)
    BY <1>g, <1>m DEF EachRowHadItsCall
  <2>3. CASE u = User(c) /\ r = RoleAsked(c)
    <3>1. c \in S
      BY <2>3 DEF Granting, OfUser
    <3>2. m <= n + 1
      BY <2>2, <2>3, <1>m
    <3> HIDE DEF S, T, n, m
    <3>3. m + Cardinality(T) <= Cardinality(Calls)
      BY <2>1, <2>2, <3>1, <3>2, RoomStays
    <3>4. QED
      BY <3>3 DEF T, m
  <2>4. CASE u # User(c) \/ r # RoleAsked(c)
    <3>1. m <= n
      BY <2>2, <2>4, <1>m
    <3> HIDE DEF S, T, n, m
    <3>2. T \subseteq S
      BY <2>1
    <3>3. m + Cardinality(T) <= Cardinality(Calls)
      BY <2>1, <2>2, <3>1, <3>2, RoomStays
    <3>4. QED
      BY <3>3 DEF T, m
  <2>5. QED
    BY <2>3, <2>4
<1>2. \A u \in Users, r \in Roles : u \notin present' => granted'[u][r] = 0
  BY <1>m DEF EachRowHadItsCall
<1>3. \A d \in Calls : call'[d].at \in {"verify", "findRole", "grant"} => call'[d].user \in present'
  <2> TAKE d \in Calls
  <2>1. CASE d = c
    BY <2>1
  <2>2. CASE d # c
    BY <2>2 DEF EachRowHadItsCall, User
  <2>3. QED
    BY <2>1, <2>2
<1>4. QED
  BY <1>1, <1>2, <1>3 DEF EachRowHadItsCall, User

\* The calls that may write a row, after a step of c.
LEMMA OthersGrant ==
  ASSUME CallsLegal, NEW c \in Calls, \A d \in Calls \ {c} : call'[d] = call[d]
  PROVE  /\ \A u \in Users, r \in Roles : Granting(u, r)' \subseteq Granting(u, r) \cup {c}
         /\ call'[c].at \notin {"create", "grant"} =>
              \A u \in Users, r \in Roles : Granting(u, r)' \subseteq Granting(u, r)
         /\ EachRowHadItsCall =>
              \A d \in Calls \ {c} : call'[d].at \in {"verify", "findRole", "grant"} => call'[d].user \in present
<1>1. ASSUME NEW u \in Users, NEW r \in Roles, NEW d \in Granting(u, r)', d # c
      PROVE  d \in Granting(u, r)
  BY <1>1 DEF Granting, OfUser, User, RoleAsked
<1>2. \A u \in Users, r \in Roles : c \in Granting(u, r)' => call'[c].at \in {"create", "grant"}
  BY DEF Granting
<1>3. EachRowHadItsCall =>
        \A d \in Calls \ {c} : call'[d].at \in {"verify", "findRole", "grant"} => call'[d].user \in present
  BY DEF EachRowHadItsCall, User
<1>4. QED
  BY <1>1, <1>2, <1>3

LEMMA RowsCounted ==
  ASSUME CallsLegal, EachRowHadItsCall, NEW c \in Calls, SignIn(c)
  PROVE  EachRowHadItsCall'
<1>a. /\ User(c) \in Users /\ call[c].op \in Operations /\ call[c].at \in StepsOf(call[c].op)
  BY CallAt DEF SignIn, FindUser, CreateUser, MarkVerified, FindRole, GrantRole, At
<1>s. \A d \in Calls \ {c} : call'[d] = call[d]
  BY SameCall
<1>i. Idle.at = "idle"
  BY DEF Idle
<1>1. CASE FindUser(c)
  <2>1. UNCHANGED <<granted, present>>
    BY <1>1 DEF FindUser, rows
  <2>2. PICK step \in {"create", "verify", "findRole"} :
          Go(c, step) /\ (step = "create" => User(c) \notin present) /\ (step # "create" => User(c) \in present)
    <3> DEFINE at == IF User(c) \notin present THEN "create"
                     ELSE IF call[c].op = "verifyOtp" THEN "verify" ELSE "findRole"
    <3>1. Go(c, at)
      BY <1>1 DEF FindUser
    <3>2. CASE User(c) \notin present
      <4>1. at = "create"
        BY <3>2, <1>a
      <4> HIDE DEF at
      <4>2. QED
        BY <3>1, <3>2, <4>1
    <3>3. CASE User(c) \in present
      <4>1. at \in {"verify", "findRole"}
        BY <3>3, <1>a
      <4> HIDE DEF at
      <4>2. QED
        BY <3>1, <3>3, <4>1
    <3>4. QED
      BY <3>2, <3>3
  <2>3. call'[c].at = step /\ call'[c].user = User(c)
    BY <2>2, Going DEF User
  <2>4. \A u \in Users, r \in Roles : Granting(u, r)' \subseteq Granting(u, r) \/ granted[u][r] = 0
    <3> TAKE u \in Users, r \in Roles
    <3>1. CASE u = User(c) /\ step = "create"
      BY <2>2, <3>1 DEF EachRowHadItsCall
    <3>2. CASE u # User(c) \/ step # "create"
      <4>1. c \notin Granting(u, r)'
        BY <2>2, <2>3, <3>2 DEF Granting, OfUser, User
      <4>2. QED
        BY <4>1, <1>s, OthersGrant
    <3>3. QED
      BY <3>1, <3>2
  <2>5. \A d \in Calls : call'[d].at \in {"verify", "findRole", "grant"} => call'[d].user \in present
    BY <2>2, <2>3, <1>s, OthersGrant
  <2>6. QED
    BY <2>1, <2>4, <2>5, RowsStayCounted
<1>2. CASE CreateUser(c)
  <2>1. CASE User(c) \in present
    <3>1. UNCHANGED <<granted, present>> /\ End(c)
      BY <1>2, <2>1 DEF CreateUser
    <3>2. call'[c].at = "idle"
      BY <3>1, <1>i, Ending
    <3>3. QED
      BY <3>1, <3>2, <1>s, OthersGrant, RowsStayCounted
  <2>2. CASE User(c) \notin present
    <3>1. /\ present' = present \cup {User(c)} /\ \E step \in {"readRoles"} : Go(c, step)
          /\ granted' = [granted EXCEPT ![User(c)][RoleAsked(c)] = @ + 1]
      BY <1>2, <2>2 DEF CreateUser, RoleAsked
    <3>2. call'[c].at = "readRoles" /\ call[c].at = "create"
      BY <1>2, <3>1, Going DEF CreateUser, At
    <3>3. QED
      BY <3>1, <3>2, <1>a, <1>s, RowWritten
  <2>3. QED
    BY <2>1, <2>2
<1>3. CASE MarkVerified(c)
  <2>1. UNCHANGED <<granted, present>> /\ \E step \in {"readRoles"} : Go(c, step)
    BY <1>3 DEF MarkVerified, rows
  <2>2. call'[c].at = "readRoles"
    BY <2>1, Going
  <2>3. QED
    BY <2>1, <2>2, <1>s, OthersGrant, RowsStayCounted
<1>4. CASE FindRole(c)
  <2>1. UNCHANGED <<granted, present>> /\ call[c].at = "findRole"
    BY <1>4 DEF FindRole, rows, At
  <2>2. PICK step \in {"grant", "readRoles"} :
          Go(c, step) /\ (step = "grant" => granted[User(c)][call[c].arg] = 0)
    BY <1>4 DEF FindRole, HasRole
  <2>3. call'[c].at = step /\ call'[c].user = User(c) /\ call'[c].op = call[c].op /\ call'[c].arg = call[c].arg
    BY <2>2, Going DEF User
  <2>4. call[c].op = "login"
    BY <2>1, <1>a DEF StepsOf, Operations
  <2>5. \A u \in Users, r \in Roles : Granting(u, r)' \subseteq Granting(u, r) \/ granted[u][r] = 0
    <3> TAKE u \in Users, r \in Roles
    <3>1. CASE u = User(c) /\ r = call[c].arg /\ step = "grant"
      BY <2>2, <3>1
    <3>2. CASE u # User(c) \/ r # call[c].arg \/ step # "grant"
      <4>1. c \notin Granting(u, r)'
        BY <2>2, <2>3, <2>4, <3>2 DEF Granting, OfUser, User, RoleAsked
      <4>2. QED
        BY <4>1, <1>s, OthersGrant
    <3>3. QED
      BY <3>1, <3>2
  <2>6. User(c) \in present
    BY <2>1 DEF EachRowHadItsCall
  <2>7. \A d \in Calls : call'[d].at \in {"verify", "findRole", "grant"} => call'[d].user \in present
    BY <2>3, <2>6, <1>s, OthersGrant
  <2>8. QED
    BY <2>1, <2>5, <2>7, RowsStayCounted
<1>5. CASE GrantRole(c)
  <2>1. call[c].at = "grant" /\ UNCHANGED present /\ \E step \in {"readRoles"} : Go(c, step)
    BY <1>5 DEF GrantRole, At
  <2>2. call[c].op = "login"
    BY <2>1, <1>a DEF StepsOf, Operations
  <2>3. granted' = [granted EXCEPT ![User(c)][RoleAsked(c)] = @ + 1]
    BY <1>5, <2>2 DEF GrantRole, RoleAsked
  <2>4. present' = present \cup {User(c)}
    BY <2>1 DEF EachRowHadItsCall
  <2>5. call'[c].at = "readRoles"
    BY <2>1, Going
  <2>6. QED
    BY <2>1, <2>3, <2>4, <2>5, <1>a, <1>s, RowWritten
<1>6. QED
  BY <1>1, <1>2, <1>3, <1>4, <1>5 DEF SignIn

\* Only signing in writes users and their roles.
LEMMA RowsAsTheyWere ==
  ASSUME NEW c \in Calls, CallFails(c) \/ OneTimeCode(c) \/ Session(c) \/ OpenShop(c)
  PROVE  UNCHANGED <<granted, present>> /\ (CallFails(c) \/ ~(FindUser(c) \/ FindRole(c)))
<1>1. UNCHANGED <<granted, present>>
  BY DEF CallFails, OneTimeCode, OpenShop, Session, CheckLock, SetCode, ReadCode, Compare, Count, Lock,
         Clear, ReadRoles, Store, CompareToken, FindActive, Logout, FindOwnShop, FindSlug, InsertShop, rows
<1>2. OneTimeCode(c) \/ Session(c) \/ OpenShop(c) => ~(FindUser(c) \/ FindRole(c))
  BY DEF OneTimeCode, OpenShop, Session, CheckLock, SetCode, ReadCode, Compare, Count, Lock,
         Clear, ReadRoles, Store, CompareToken, FindActive, Logout, FindOwnShop, FindSlug, InsertShop,
         FindUser, FindRole, At
<1>3. QED
  BY <1>1, <1>2

LEMMA RowsHadCalls == AccountsSpec => []EachRowHadItsCall
<1>1. AccountsInit => EachRowHadItsCall
  <2> SUFFICES ASSUME AccountsInit
               PROVE  EachRowHadItsCall
    OBVIOUS
  <2>1. \A c \in Calls : call[c].at = "idle"
    BY DEF AccountsInit, Idle
  <2>2. \A u \in Users, r \in Roles : Granting(u, r) = {} /\ granted[u][r] = 0
    BY <2>1 DEF AccountsInit, Granting, OfUser
  <2>3. Cardinality(Calls) \in Nat
    BY AccountsAssumption, FS_CardinalityType DEF AccountsAssumption
  <2>4. \A u \in Users, r \in Roles : granted[u][r] + Cardinality(Granting(u, r)) <= Cardinality(Calls)
    BY <2>2, <2>3, FS_EmptySet
  <2>5. QED
    BY <2>1, <2>2, <2>4 DEF EachRowHadItsCall
<1>2. CallsLegal /\ EachRowHadItsCall /\ [AccountsNext]_accountVars => EachRowHadItsCall'
  <2> SUFFICES ASSUME CallsLegal, EachRowHadItsCall, [AccountsNext]_accountVars
               PROVE  EachRowHadItsCall'
    OBVIOUS
  <2>1. ASSUME NEW c \in Calls, UNCHANGED <<granted, present>>, \A d \in Calls \ {c} : call'[d] = call[d],
               call'[c].at \notin {"create", "verify", "findRole", "grant"}
        PROVE  EachRowHadItsCall'
    BY <2>1, OthersGrant, RowsStayCounted
  <2>2. ASSUME NEW c \in Calls, NEW op \in story, NEW u \in Users, Start(c, op, u)
        PROVE  EachRowHadItsCall'
    <3>1. UNCHANGED <<granted, present>>
      BY <2>2 DEF Start, rows
    <3>2. (\A d \in Calls \ {c} : call'[d] = call[d]) /\ call'[c].at = "begin"
      BY <2>2, Started
    <3>3. QED
      BY <2>1, <3>1, <3>2
  <2>3. ASSUME NEW c \in Calls, CallFails(c) \/ OneTimeCode(c) \/ Session(c) \/ OpenShop(c)
        PROVE  EachRowHadItsCall'
    <3>1. UNCHANGED <<granted, present>>
      BY <2>3, RowsAsTheyWere
    <3>2. \A d \in Calls \ {c} : call'[d] = call[d]
      BY <2>3, SameCall
    <3>3. call'[c].at \notin {"create", "verify", "findRole", "grant"}
      BY <2>3, SameCall, RowsAsTheyWere, Ending DEF CallFails, Idle
    <3>4. QED
      BY <2>1, <3>1, <3>2, <3>3
  <2>4. CASE (\E u \in Users : KeysExpire(u) \/ SessionLapses(u) \/ Deactivate(u)) \/ Tick \/ UNCHANGED accountVars
    <3>1. UNCHANGED <<call, granted, present>>
      BY <2>4, ElseKeepsShops
    <3>2. /\ \A u \in Users, r \in Roles : Granting(u, r)' \subseteq Granting(u, r)
          /\ \A c \in Calls : call'[c].at \in {"verify", "findRole", "grant"} => call'[c].user \in present
      BY <3>1 DEF Granting, OfUser, User, RoleAsked, EachRowHadItsCall
    <3>3. QED
      BY <3>1, <3>2, RowsStayCounted
  <2>5. QED
    BY <2>2, <2>3, <2>4, RowsCounted DEF AccountsNext
<1>3. QED
  BY <1>1, <1>2, CallsLegalAlways, PTL DEF AccountsSpec

(* shops.service.ts create and auth.service.ts login: both look before     *)
(* they insert and nothing in the database refuses the second copy; a user *)
(* never has more shops, or more copies of one role, than calls can        *)
(* overlap, so exactly one of each where calls come one at a time.         *)
THEOREM CopiesBounded == AccountsSpec => []NoMoreThanOverlaps
<1>1. CallsLegal /\ EachShopHadItsCall /\ EachRowHadItsCall => NoMoreThanOverlaps
  <2> SUFFICES ASSUME CallsLegal, EachShopHadItsCall, EachRowHadItsCall, NEW u \in Users
               PROVE  /\ Cardinality(ShopsOf(u)) <= Cardinality(Calls)
                      /\ \A r \in Roles : granted[u][r] <= Cardinality(Calls)
    BY DEF NoMoreThanOverlaps
  <2>1. \A S \in SUBSET Calls : Cardinality(S) \in Nat
    BY AccountsAssumption, FS_Subset, FS_CardinalityType DEF AccountsAssumption
  <2>2. Opening(u) \in SUBSET Calls /\ \A r \in Roles : Granting(u, r) \in SUBSET Calls
    BY DEF Opening, Granting, OfUser
  <2>3. Cardinality(Opening(u)) \in Nat /\ Cardinality(ShopsOf(u)) \in Nat /\ Cardinality(Calls) \in Nat
    BY <2>1, <2>2, Counted
  <2>4. Cardinality(ShopsOf(u)) <= Cardinality(Calls)
    BY <2>3 DEF EachShopHadItsCall
  <2>5. ASSUME NEW r \in Roles
        PROVE  granted[u][r] <= Cardinality(Calls)
    <3>1. granted[u][r] \in Nat /\ Cardinality(Granting(u, r)) \in Nat
      BY <2>1, <2>2 DEF CallsLegal, AccountsTypeOK
    <3>2. QED
      BY <2>3, <3>1 DEF EachRowHadItsCall
  <2>6. QED
    BY <2>4, <2>5
<1>2. QED
  BY <1>1, CallsLegalAlways, ShopsHadCalls, RowsHadCalls, PTL
=============================================================================
