---------------------------- MODULE QueueEngine ----------------------------
(***************************************************************************)
(* The pure part of libs/queue-engine that every queue operation relies    *)
(* on: the status machine of an entry (queue-state.machine.ts) and the     *)
(* order in which entries are numbered (priority.sorter.ts).  The sorter   *)
(* as an algorithm on lists is in PrioritySorter.tla, the waiting-time     *)
(* estimate in EwtEngine.tla.                                              *)
(***************************************************************************)
EXTENDS Integers, FiniteSets

Statuses == {"WAITING", "CALLED", "SERVING", "SERVED", "NO_SHOW", "LEFT", "REMOVED"}

\* What a hurried edit of the table could do: a finished service may be reopened.
ReopeningNextStatuses(s) ==
  CASE s = "WAITING" -> {"CALLED", "LEFT", "REMOVED"}
    [] s = "CALLED"  -> {"SERVING", "NO_SHOW", "REMOVED", "WAITING"}
    [] s = "SERVING" -> {"SERVED", "REMOVED"}
    [] OTHER         -> {}

\* The TRANSITIONS table.
ValidNextStatuses(s) ==
  CASE s = "WAITING" -> {"CALLED", "LEFT", "REMOVED"}
    [] s = "CALLED"  -> {"SERVING", "NO_SHOW", "REMOVED"}
    [] s = "SERVING" -> {"SERVED", "REMOVED"}
    [] OTHER         -> {}

IsValidTransition(current, next) == next \in ValidNextStatuses(current)

TerminalStatuses == {"SERVED", "NO_SHOW", "LEFT", "REMOVED"}

ActiveStatuses == {"WAITING", "CALLED", "SERVING"}

\* The comparator of sortQueueEntries on two entries with effective
\* priorities p, q and join times t, u: the first one is numbered first.
GoesBefore(p, t, q, u) == p > q \/ (p = q /\ t < u)
=============================================================================
