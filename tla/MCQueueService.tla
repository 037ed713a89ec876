--------------------------- MODULE MCQueueService ---------------------------
(* Instances of QueueService for TLC. *)
EXTENDS QueueService, TLC

OnePriority == {1}
TwoPriorities == {1, 2}
CallServeOrWait == {"CALLED", "SERVING", "WAITING"}
CallServeOrReopen == {"CALLED", "SERVING", "SERVED", "WAITING"}
CallAndServe == {"CALLED", "SERVING", "SERVED"}

\* Entries and requests are interchangeable.
Symmetry == Permutations(Entries) \cup Permutations(Requests)

\* What the rest of a run, and the properties of the run, can depend on: the
\* counts of past notifications and the list shown matter only where a
\* property reads them.
Announcing == \E r \in Requests : At(r, "claim") \/ At(r, "clear")

ViewWithoutHistory ==
  <<rows, request, failures, IF Announcing THEN view ELSE {}>>

ViewWithoutLists ==
  <<rows, keys, nextSent, lapsed, orphans, failures,
    [r \in Requests |-> [request[r] EXCEPT !.list = {}]]>>
=============================================================================
