---------------------------- MODULE MCLiveScreens ----------------------------
(* Values for the runs of LiveScreens.                                      *)
EXTENDS LiveScreens

CONSTANT LeftChair   \* a barber

\* The life of an entry goes on while nobody at this page touches it; next to
\* the staff's own buttons, customers leave.
Devices ==
  [p \in {"tracker", "display", "liveQueue"} |->
     IF p = "liveQueue" THEN {"LEFT"} ELSE {"CALLED", "SERVING", "SERVED", "LEFT"}]

OneTracker == [p \in {"tracker"} |-> {"CALLED", "SERVING", "SERVED"}]

\* A shop with one barber, whom everybody asks for, and one priority.
OneChair == [e \in Entries |-> LeftChair]

Alike == [e \in Entries |-> 1]

\* The first customer asks for a barber, the second takes whoever is free.
TwoChairs == [e \in Entries |-> IF e = 1 THEN LeftChair ELSE NoBarber]
============================================================================
