------------------------------- MODULE MCEngine -------------------------------
(***************************************************************************)
(* Small instances of what is built on libs/queue-engine and keeps no      *)
(* state between requests: the waiting time, the order of the list, and    *)
(* the pages of the office whose buttons follow the status machine.  They  *)
(* share no state, so each behaviour moves one of them.                    *)
(***************************************************************************)
EXTENDS EwtEngine, PrioritySorter, OfficeDesk, TLC

VARIABLE part

engineVars == <<part, ewtVars, vars, deskVars>>

ThreeTimes == {1, 2, 3}
EarlyQuarters == 0..2
FirstPriorities == {0, 1}

\* Entries are interchangeable.
Symmetry == Permutations(Ids)

Estimating == part = "ewt" /\ EwtNext /\ UNCHANGED <<part, vars, deskVars>>

Sorting == part = "sorter" /\ Next /\ UNCHANGED <<part, ewtVars, deskVars>>

Desk == part = "desk" /\ DeskNext /\ UNCHANGED <<part, ewtVars, vars>>

EngineInit ==
  /\ part \in {"ewt", "sorter", "desk"}
  /\ EwtInit /\ Init /\ DeskInit
  /\ part # "ewt" => average = 1
  /\ part # "desk" => desk = "home" /\ Joined = {}

EngineSpec == EngineInit /\ [][Estimating \/ Sorting \/ Desk]_engineVars
=============================================================================
