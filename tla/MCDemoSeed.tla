------------------------------ MODULE MCDemoSeed ------------------------------
(* Instances of DemoSeed for TLC. *)
EXTENDS DemoSeed, TLC

\* The barbers, services and people of the script.
DemoBarbers == {"Arjun", "Karthik", "Rahim", "Vijay"}

DemoServices == {"Haircut", "Beard", "Combo", "Spa"}

DemoPeople == {Script[i].key : i \in {j \in DOMAIN Script : Script[j].table = "users"}}

\* What calls name: a barber and a service.
OneOfEach == {"Karthik", "Spa"}

\* Who may be known before the script comes to them.
AnOwnerABarberACustomer == {"owner", "Karthik", "Meera"}

OneGuest == {"Meera"}

\* Of the rows that came by while a report ran only what they count for matters.
ViewOfCounts ==
  <<uuids, day, records, script,
    [c \in Calls |->
      [call[c] EXCEPT !.passed = [s \in Counted |-> IdsWith(@, s, call[c].from)]]]>>

\* Calls are interchangeable.
Symmetry == Permutations(Calls)
=============================================================================
