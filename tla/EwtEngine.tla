----------------------------- MODULE EwtEngine -----------------------------
(***************************************************************************)
(* libs/queue-engine ewt.engine.ts: the waiting time recalculateQueue      *)
(* stores for each position, while a service runs in the chair.  A minute  *)
(* is divided into Units parts, since the elapsed time is a number of      *)
(* milliseconds divided by 60000; durations of the model are in parts.     *)
(* The buffer is 15 percent, which the code's floating-point product and   *)
(* this exact one round up to the same minute for whole minutes.           *)
(***************************************************************************)
EXTENDS Integers

CONSTANTS
  Units,         \* parts of a minute
  MaxAverage,    \* bound: average service durations, in minutes
  MaxPosition    \* bound: positions in the queue

ASSUME EwtAssumption ==
  /\ Units \in Nat \ {0}
  /\ MaxAverage \in Nat \ {0}
  /\ MaxPosition \in Nat \ {0}

VARIABLES
  average,    \* avgServiceDurationMins of the barber, in minutes
  serving,    \* an entry is SERVING
  elapsed     \* time since its servingAt, in parts

ewtVars == <<average, serving, elapsed>>

Larger(a, b) == IF a > b THEN a ELSE b

RoundUp(a, b) == -((-a) \div b)

\* Without Math.max(0, ...): a service may take longer than its average.
RemainingOrLess == IF serving THEN average * Units - elapsed ELSE 0

CurrentServiceRemaining == IF serving THEN Larger(0, average * Units - elapsed) ELSE 0

BaseWait(position) == CurrentServiceRemaining + (position - 1) * average * Units

\* Math.ceil(baseWait * (bufferPercent / 100)), a number of whole minutes.
Buffer(base) == RoundUp(15 * base, 100 * Units) * Units

\* estimatedMins of calculateEwt, in parts.
CalculateEwt(position) == Larger(Units, BaseWait(position) + Buffer(BaseWait(position)))

\* What the Int column of queue_entries takes.
WholeMinutes(t) == t % Units = 0

-----------------------------------------------------------------------------
\* updateStatus writes SERVING and servingAt; the average is read anew.
StartService(minutes) ==
  /\ ~serving
  /\ serving' = TRUE
  /\ elapsed' = 0
  /\ average' = minutes

\* Bound: a service is watched until three minutes after its average.
ServiceGoesOn ==
  /\ serving
  /\ elapsed < (average + 3) * Units
  /\ elapsed' = elapsed + 1
  /\ UNCHANGED <<average, serving>>

FinishService ==
  /\ serving
  /\ serving' = FALSE
  /\ elapsed' = 0
  /\ UNCHANGED average

EwtInit ==
  /\ average \in 1..MaxAverage
  /\ serving = FALSE
  /\ elapsed = 0

EwtNext == (\E minutes \in 1..MaxAverage : StartService(minutes)) \/ ServiceGoesOn \/ FinishService

EwtSpec == EwtInit /\ [][EwtNext]_ewtVars

-----------------------------------------------------------------------------
(* Properties.                                                             *)

Positions == 1..MaxPosition

\* The database refuses an estimate only in the middle of a service that has
\* not yet reached its average: QueueService.RejectEstimates needs an entry
\* that is being served.
RefusedOnlyMidService ==
  \A p \in Positions : ~WholeMinutes(CalculateEwt(p)) =>
    serving /\ 0 < elapsed /\ elapsed < average * Units
=============================================================================
