--------------------------- MODULE WindowedAverage ---------------------------
(***************************************************************************)
(* src/windowed_average.c: one wnd_avg_store, its history array shifted    *)
(* and summed in place.  Each iteration of a loop is a step, so that the   *)
(* index arithmetic at both ends of the array is part of the model.        *)
(***************************************************************************)
EXTENDS Windows

CONSTANTS HistLen,    (* hist_buffer_len, the capacity of the array *)
          Samples     (* the new_datum values the callers pass      *)

(* The callers' samples are small enough that a full window's sum fits the *)
(* int32_t accumulator; init_windowed_average refuses an empty array.      *)
ASSUME WindowAssumption ==
  /\ HistLen \in Nat \ {0}
  /\ Samples \subseteq Int
  /\ \A s \in Samples : Abs(s) * HistLen <= IntMax

VARIABLES hist,       (* store->hist_buffer: index -> sample        *)
          depth,      (* store->depth: how many entries are valid   *)
          pc,         (* where update_windowed_average stands       *)
          i,          (* its loop index                             *)
          datum,      (* its argument new_datum                     *)
          sum,        (* its accumulator                            *)
          ret         (* the value it last returned                 *)

vars == <<hist, depth, pc, i, datum, sum, ret>>

Index == 0 .. HistLen - 1

(* init_windowed_average: the store is emptied before its first use.       *)
Init ==
  /\ hist = [k \in Index |-> 0]
  /\ depth = 0
  /\ pc = "idle"
  /\ i = 0 /\ datum = 0 /\ sum = 0 /\ ret = 0

(* reset_windowed_average. *)
ResetKeepsSamples ==                          \* mutant: the array is not zeroed
  /\ pc = "idle"
  /\ depth' = 0
  /\ UNCHANGED <<hist, pc, i, datum, sum, ret>>

Reset ==
  /\ pc = "idle"
  /\ depth' = 0
  /\ hist' = [k \in Index |-> 0]
  /\ UNCHANGED <<pc, i, datum, sum, ret>>

(* update_windowed_average is called with a new datum.                     *)
Call(sample) ==
  /\ pc = "idle"
  /\ pc' = "shift"
  /\ datum' = sample
  /\ i' = HistLen - 2
  /\ UNCHANGED <<hist, depth, sum, ret>>

(* One iteration of the loop that throws out the oldest sample.            *)
Shift ==
  /\ pc = "shift"
  /\ i >= 0
  /\ hist' = [hist EXCEPT ![i + 1] = hist[i]]
  /\ i' = i - 1
  /\ UNCHANGED <<depth, pc, datum, sum, ret>>

(* The new datum goes in front and the depth counts it, up to the length.  *)
InsertUncapped ==                             \* mutant: depth is not capped
  /\ pc = "shift"
  /\ i < 0
  /\ hist' = [hist EXCEPT ![0] = datum]
  /\ depth' = depth + 1
  /\ sum' = 0
  /\ i' = 0
  /\ pc' = "sum"
  /\ UNCHANGED <<datum, ret>>

Insert ==
  /\ pc = "shift"
  /\ i < 0
  /\ hist' = [hist EXCEPT ![0] = datum]
  /\ depth' = IF depth + 1 > HistLen THEN HistLen ELSE depth + 1
  /\ sum' = 0
  /\ i' = 0
  /\ pc' = "sum"
  /\ UNCHANGED <<datum, ret>>

(* One iteration of the summing loop; the sum is an int32_t.               *)
Accumulate ==
  /\ pc = "sum"
  /\ i < depth
  /\ sum' = WrapSigned(sum + hist[i])
  /\ i' = i + 1
  /\ UNCHANGED <<hist, depth, pc, datum, ret>>

ReturnOverLength ==                           \* mutant: divides by the capacity
  /\ pc = "sum"
  /\ i >= depth
  /\ ret' = TruncDiv(sum, HistLen)
  /\ pc' = "idle"
  /\ UNCHANGED <<hist, depth, i, datum, sum>>

Return ==
  /\ pc = "sum"
  /\ i >= depth
  /\ ret' = TruncDiv(sum, depth)
  /\ pc' = "idle"
  /\ UNCHANGED <<hist, depth, i, datum, sum>>

Next ==
  \/ Reset
  \/ \E sample \in Samples : Call(sample)
  \/ Shift
  \/ Insert
  \/ Accumulate
  \/ Return

Spec == Init /\ [][Next]_vars

-----------------------------------------------------------------------------
TypeOK ==
  /\ hist \in [Index -> Samples \cup {0}]
  /\ depth \in 0 .. HistLen
  /\ pc \in {"idle", "shift", "sum"}
  /\ i \in -1 .. HistLen
  /\ datum \in Samples \cup {0}
  /\ sum \in Word
  /\ ret \in Word

(* update_windowed_average at its boundaries, for a store that is empty,   *)
(* filling or full: every array access of the two loops stays inside the   *)
(* history array, the accumulator does not overflow however long the loop  *)
(* has run, and the division is never by zero.                             *)
LoopsAreSafe ==
  /\ pc = "shift" => i + 1 \in Index
  /\ pc = "sum" => depth \in 1 .. HistLen /\ i \in 0 .. depth
  /\ pc = "sum" /\ i < depth => sum + hist[i] \in Word

(* The entries beyond depth are still the zeros of the last reset: a       *)
(* sample older than a reset is never counted again, however the window    *)
(* fills afterwards.                                                       *)
NothingBeyondDepth ==
  pc = "idle" => \A k \in Index : k >= depth => hist[k] = 0

(* An update returns a value between the smallest and the largest sample   *)
(* of the window it has just extended: the mean of what was measured,      *)
(* whether the window is filling or full.                                  *)
ReturnWithinWindow ==
  [][ret' # ret =>
       /\ \E k \in 0 .. depth - 1 : hist[k] <= ret'
       /\ \E k \in 0 .. depth - 1 : hist[k] >= ret']_vars

(* The store implements RecentMean.  The window changes when the update is *)
(* called: while the shift loop is at index i, entries above i+1 have      *)
(* already moved, and the new datum counts although it is not stored yet.  *)
ShiftedEntry(k) ==
  IF k = 0 THEN datum ELSE IF k <= i + 1 THEN hist[k - 1] ELSE hist[k]

Recent ==
  IF pc = "shift"
  THEN [k \in 1 .. (IF depth < HistLen THEN depth + 1 ELSE HistLen) |-> ShiftedEntry(k - 1)]
  ELSE [k \in 1 .. depth |-> hist[k - 1]]

Promise == INSTANCE RecentMean WITH recent <- Recent, busy <- (pc # "idle"), mean <- ret

ImplementsRecentMean == Promise!Spec
=============================================================================
