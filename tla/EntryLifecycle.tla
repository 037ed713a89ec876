--------------------------- MODULE EntryLifecycle ---------------------------
(***************************************************************************)
(* What the queue promises about one entry, whoever calls it and whenever: *)
(* it is created once, walks forward through the states of its visit, and  *)
(* rests for good when the visit is over.  QueueService implements it as   *)
(* long as the callers of one entry do not overlap.                        *)
(***************************************************************************)
CONSTANT Entries
VARIABLE status

Become(e, s) == status' = [status EXCEPT ![e] = s]

Join(e)   == status[e] = "ABSENT" /\ Become(e, "WAITING")
Call(e)   == status[e] = "WAITING" /\ Become(e, "CALLED")
Leave(e)  == status[e] = "WAITING" /\ Become(e, "LEFT")
Miss(e)   == status[e] = "CALLED" /\ Become(e, "NO_SHOW")
Serve(e)  == status[e] = "CALLED" /\ Become(e, "SERVING")
Finish(e) == status[e] = "SERVING" /\ Become(e, "SERVED")
Remove(e) == status[e] \in {"WAITING", "CALLED", "SERVING"} /\ Become(e, "REMOVED")

Init == status = [e \in Entries |-> "ABSENT"]

Next == \E e \in Entries :
          Join(e) \/ Call(e) \/ Leave(e) \/ Miss(e) \/ Serve(e) \/ Finish(e) \/ Remove(e)

Spec == Init /\ [][Next]_status
=============================================================================
