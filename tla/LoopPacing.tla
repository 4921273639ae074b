------------------------------ MODULE LoopPacing ------------------------------
(***************************************************************************)
(* The pacing of the magnetorquer loop (src/magnetorquers.c): how long the *)
(* thread sleeps at the end of an iteration, from the uptime it read at    *)
(* the end of the one before.  Times are milliseconds.  Only differences   *)
(* of uptimes matter, so the clock is the time since t_last was taken.     *)
(***************************************************************************)
EXTENDS Integers

CONSTANTS
  Period,           (* ITERATION_PERIOD_MS                                  *)
  MaxWork,          (* bound: the longest the body of an iteration takes    *)
  MaxLate           (* bound: how much later than asked a sleep ends        *)

ASSUME PacingAssumption == Period \in Nat \ {0} /\ MaxWork \in Nat /\ MaxLate \in Nat

VARIABLES
  doing,            (* "work", "sleep"                                      *)
  elapsed,          (* k_uptime_get() - t_last                              *)
  t_sleep,
  body,             (* how long the body of this iteration took             *)
  length,           (* how long the iteration that has just ended took      *)
  previous          (* ... and the one before it (history)                  *)

pacing == <<doing, elapsed, t_sleep, body, length, previous>>

(* t_last is t_start; no iteration has ended yet.                          *)
PacingInit ==
  /\ doing = "work"
  /\ elapsed = 0
  /\ t_sleep = 0
  /\ body = 0
  /\ length = Period /\ previous = Period

SleepFor(spent) == IF Period - spent <= 0 THEN 1 ELSE Period - spent

(* The body of an iteration takes a while, t_now is read and the rest of   *)
(* the period is slept.                                                    *)
EndOfBody(work) ==
  /\ doing = "work"
  /\ doing' = "sleep"
  /\ elapsed' = elapsed + work
  /\ t_sleep' = SleepFor(elapsed + work)
  /\ body' = work
  /\ UNCHANGED <<length, previous>>

(* t_last becomes the t_now read before the sleep, so the time slept       *)
(* counts for the iteration that follows.                                  *)
WakeKeepsLast(late) ==                        \* mutant: t_last is not advanced
  /\ doing = "sleep"
  /\ doing' = "work"
  /\ elapsed' = elapsed + t_sleep + late
  /\ length' = body + t_sleep + late
  /\ previous' = length
  /\ UNCHANGED <<t_sleep, body>>

WakeUp(late) ==
  /\ doing = "sleep"
  /\ doing' = "work"
  /\ elapsed' = t_sleep + late
  /\ length' = body + t_sleep + late
  /\ previous' = length
  /\ UNCHANGED <<t_sleep, body>>

PacingNext ==
  \/ \E work \in 0 .. MaxWork : EndOfBody(work)
  \/ \E late \in 0 .. MaxLate : WakeUp(late)

PacingSpec == PacingInit /\ [][PacingNext]_pacing

-----------------------------------------------------------------------------
Longest == Period + MaxWork + MaxLate

PacingTypeOK ==
  /\ doing \in {"work", "sleep"}
  /\ elapsed \in 0 .. Longest
  /\ t_sleep \in 0 .. Period
  /\ body \in 0 .. MaxWork
  /\ length \in 0 .. Longest
  /\ previous \in 0 .. Longest

(* However the iterations stretch and shrink, any two successive ones      *)
(* together take at least one period: a late iteration is not followed by  *)
(* a burst, and the load of the loop is bounded.                           *)
NoBurst == previous + length >= Period

(* src/magnetorquers.c:42: the loop has an ITERATION_PERIOD_MS of 5 ms: no *)
(* iteration takes less.                                                   *)
(* Does not hold: README, section 7.                                       *)
IterationTakesAPeriod == length >= Period
=============================================================================
