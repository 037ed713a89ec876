---------------------------- MODULE TicketOffice ----------------------------
(***************************************************************************)
(* What a shop's customers may expect of its tickets, whoever counts them  *)
(* and how: a join is given at most one ticket, keeps it, and nobody else  *)
(* ever gets the same number on the same day.  TicketCounter implements it *)
(* with a Redis counter per date that runs out after two days.             *)
(***************************************************************************)
CONSTANTS
  Joins,
  NoTicket

VARIABLE given    \* the ticket of each join: its day and number

\* Some ticket that no join has.
Give(j) ==
  /\ given[j] = NoTicket
  /\ \A i \in Joins : given[i] # given'[j]
  /\ given' = [given EXCEPT ![j] = given'[j]]

Init == given = [j \in Joins |-> NoTicket]

Next == \E j \in Joins : Give(j)

Spec == Init /\ [][Next]_given
=============================================================================
