----------------------------- MODULE RecentMean -----------------------------
(***************************************************************************)
(* What a windowed average promises its caller                             *)
(* (src/windowed_average.h): every update returns the mean of the most     *)
(* recent samples, at most HistLen of them, since the store was last       *)
(* emptied.                                                                *)
(***************************************************************************)
EXTENDS Windows

CONSTANTS HistLen,    (* capacity of the window        *)
          Samples     (* the data the callers push     *)

VARIABLES recent,     (* the samples that count, newest first   *)
          busy,       (* an update has started, not returned    *)
          mean        (* what the last update returned          *)

vars == <<recent, busy, mean>>

Init == recent = <<>> /\ ~busy /\ mean = 0

Reset == ~busy /\ recent' = <<>> /\ UNCHANGED <<busy, mean>>

Add(sample) ==
  /\ ~busy
  /\ busy' = TRUE
  /\ recent' = Push(recent, sample, HistLen)
  /\ UNCHANGED mean

Answer ==
  /\ busy
  /\ busy' = FALSE
  /\ mean' = WindowMean(recent)
  /\ UNCHANGED recent

Next == Reset \/ Answer \/ \E sample \in Samples : Add(sample)

Spec == Init /\ [][Next]_vars
=============================================================================
