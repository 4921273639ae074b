------------------------ MODULE WindowedAverageProofs ------------------------
(***************************************************************************)
(* What holds of windowed_average.c for a history of any length and any    *)
(* samples whose full window fits the accumulator.                         *)
(***************************************************************************)
EXTENDS WindowedAverage, TLAPS

-----------------------------------------------------------------------------
(* C's integer arithmetic *)

LEMMA WordBounds == IntMin \in Int /\ IntMax \in Int /\ IntMin < 0 /\ 0 < IntMax
                    /\ Modulus \in Nat \ {0} /\ Modulus = IntMax - IntMin + 1
  BY IntMaxAssumption DEF IntMin, Modulus

(* A value that fits is not changed by the word it is stored in.           *)
LEMMA ModSmall ==
  ASSUME NEW m \in Nat \ {0}, NEW n \in 0 .. m - 1
  PROVE  n % m = n
  BY Z3

LEMMA WrapSignedFits ==
  ASSUME NEW v \in Word
  PROVE  WrapSigned(v) = v
<1>1. v \in Int /\ v - IntMin \in 0 .. Modulus - 1
  BY WordBounds DEF Word
<1>2. (v - IntMin) % Modulus = v - IntMin
  BY <1>1, ModSmall, WordBounds
<1> QED BY <1>1, <1>2, WordBounds DEF WrapSigned

(* The quotient lies on the same side of any whole number as the exact one.*)
LEMMA QuotientOrder ==
  ASSUME NEW a \in Nat, NEW k \in Nat \ {0}, NEW m \in Int
  PROVE  /\ a \div k \in Nat
         /\ a >= k * m => a \div k >= m
         /\ a <= k * m => a \div k <= m
<1> DEFINE q == a \div k
<1>1. q \in Nat /\ a = k * q + (a % k) /\ a % k \in 0 .. k - 1
  BY Z3
<1> HIDE DEF q
<1>2. ASSUME a >= k * m, q < m PROVE FALSE
  <2>1. k * m >= k * (q + 1) BY <1>1, <1>2, Z3
  <2>2. k * (q + 1) = k * q + k BY <1>1, Z3
  <2> QED BY <1>1, <1>2, <2>1, <2>2, Z3
<1>3. ASSUME a <= k * m, q > m PROVE FALSE
  <2>1. k * q >= k * (m + 1) BY <1>1, <1>3, Z3
  <2>2. k * (m + 1) = k * m + k BY Z3
  <2> QED BY <1>1, <1>3, <2>1, <2>2, Z3
<1> QED BY <1>1, <1>2, <1>3 DEF q

LEMMA TruncDivOrder ==
  ASSUME NEW a \in Int, NEW k \in Nat \ {0}, NEW m \in Int
  PROVE  /\ TruncDiv(a, k) \in Int
         /\ a >= k * m => TruncDiv(a, k) >= m
         /\ a <= k * m => TruncDiv(a, k) <= m
<1>1. CASE a >= 0
  BY <1>1, QuotientOrder DEF TruncDiv
<1>2. CASE a < 0
  <2>1. -a \in Nat /\ -m \in Int
    BY <1>2
  <2>2. k * (-m) = -(k * m)
    BY Z3
  <2>3. (-a) \div k \in Nat
    BY <2>1, QuotientOrder
  <2>4. a >= k * m => (-a) \div k <= -m
    BY <2>1, <2>2, QuotientOrder
  <2>5. a <= k * m => (-a) \div k >= -m
    BY <2>1, <2>2, QuotientOrder
  <2> QED BY <1>2, <2>3, <2>4, <2>5 DEF TruncDiv
<1> QED BY <1>1, <1>2

-----------------------------------------------------------------------------

Entry == Samples \cup {0}

(* One more entry keeps the magnitude of a partial sum within its share of *)
(* the word.                                                               *)
LEMMA PartialSum ==
  ASSUME NEW n \in Nat \ {0}, NEW max \in Nat, NEW s \in Int, NEW h \in Int, NEW j \in Nat,
         Abs(s) * n <= j * max, Abs(h) * n <= max
  PROVE  Abs(s + h) * n <= (j + 1) * max
<1>1. Abs(s + h) \in Nat /\ Abs(s) \in Nat /\ Abs(h) \in Nat /\ Abs(s + h) <= Abs(s) + Abs(h)
  BY DEF Abs
<1> HIDE DEF Abs
<1>2. Abs(s + h) * n <= (Abs(s) + Abs(h)) * n
  BY <1>1, Z3
<1>3. (Abs(s) + Abs(h)) * n = Abs(s) * n + Abs(h) * n /\ (j + 1) * max = j * max + max
  BY <1>1, Z3
<1> QED BY <1>1, <1>2, <1>3, Z3

LEMMA ShareOfWord ==
  ASSUME NEW n \in Nat \ {0}, NEW max \in Nat, NEW s \in Int, NEW j \in Nat, j <= n,
         Abs(s) * n <= j * max
  PROVE  Abs(s) <= max
<1>1. Abs(s) \in Nat
  BY DEF Abs
<1> HIDE DEF Abs
<1>2. SUFFICES ASSUME Abs(s) >= max + 1 PROVE FALSE
  BY <1>1
<1>3. Abs(s) * n >= (max + 1) * n
  BY <1>1, <1>2, Z3
<1>4. (max + 1) * n = max * n + n
  BY Z3
<1>5. j * max <= max * n
  BY Z3
<1> QED BY <1>1, <1>3, <1>4, <1>5, Z3

(* Where the loops stand.  While the history is shifted, what lies beyond  *)
(* the old entries is still zero; while it is summed, the partial sum is   *)
(* within its share of the word, and beyond i times any bound of the       *)
(* window's entries on neither side.                                       *)
ShiftInv ==
  pc = "shift" =>
    /\ i \in -1 .. HistLen - 2
    /\ \A k \in Index : k > depth \/ (k = depth /\ k <= i + 1) => hist[k] = 0

SumInv ==
  pc = "sum" =>
    /\ depth \in 1 .. HistLen
    /\ i \in 0 .. depth
    /\ Abs(sum) * HistLen <= i * IntMax
    /\ \A m \in Int : (\A k \in 0 .. depth - 1 : hist[k] >= m) => sum >= i * m
    /\ \A m \in Int : (\A k \in 0 .. depth - 1 : hist[k] <= m) => sum <= i * m

ZeroInv == pc # "shift" => \A k \in Index : k >= depth => hist[k] = 0

WindowInv == ShiftInv /\ SumInv /\ ZeroInv

LEMMA Entries ==
  /\ HistLen \in Nat \ {0}
  /\ 0 \in Word
  /\ \A h \in Entry : h \in Int /\ h \in Word /\ Abs(h) * HistLen <= IntMax
<1>1. HistLen \in Nat \ {0} /\ IntMax \in Nat
  BY WindowAssumption, IntMaxAssumption
<1>2. ASSUME NEW h \in Entry PROVE h \in Int /\ Abs(h) * HistLen <= IntMax
  <2>1. CASE h \in Samples
    BY <2>1, WindowAssumption
  <2>2. CASE h = 0
    <3>1. Abs(h) = 0 BY <2>2 DEF Abs
    <3> QED BY <1>1, <2>2, <3>1
  <2> QED BY <2>1, <2>2 DEF Entry
<1>3. ASSUME NEW h \in Int, Abs(h) <= IntMax PROVE h \in Word
  BY <1>3, IntMaxAssumption DEF Word, IntMin, Abs
<1>4. ASSUME NEW h \in Entry PROVE h \in Word
  <2>1. Abs(h) \in Nat /\ Abs(h) * HistLen <= IntMax
    BY <1>2 DEF Abs
  <2>2. Abs(h) <= IntMax
    <3> HIDE DEF Abs
    <3> QED BY <1>1, <2>1, Z3
  <2> QED BY <1>2, <1>3, <2>2
<1> QED BY <1>1, <1>2, <1>4, WordBounds DEF Word

(* Summing one entry more: it fits the accumulator, which does not wrap.   *)
LEMMA AccumulateFits ==
  ASSUME TypeOK, SumInv, pc = "sum", i < depth
  PROVE  /\ sum + hist[i] \in Word
         /\ Abs(sum + hist[i]) * HistLen <= (i + 1) * IntMax
         /\ i \in Index /\ hist[i] \in Int /\ sum \in Int /\ i \in Nat
<1>1. i \in Index /\ i \in Nat /\ i + 1 <= HistLen
  BY Entries DEF SumInv, Index
<1>2. hist[i] \in Entry
  BY <1>1 DEF TypeOK, Entry
<1>3. hist[i] \in Int /\ Abs(hist[i]) * HistLen <= IntMax /\ sum \in Int
  BY <1>2, Entries, WordBounds DEF TypeOK, Word
<1>4. Abs(sum) * HistLen <= i * IntMax
  BY DEF SumInv
<1>5. Abs(sum + hist[i]) * HistLen <= (i + 1) * IntMax
  BY <1>1, <1>3, <1>4, PartialSum, Entries, IntMaxAssumption
<1>6. Abs(sum + hist[i]) <= IntMax
  <2> DEFINE t == sum + hist[i]
             j == i + 1
  <2>1. t \in Int /\ j \in Nat /\ j <= HistLen /\ Abs(t) * HistLen <= j * IntMax
    BY <1>1, <1>3, <1>5
  <2> HIDE DEF t, j
  <2>2. Abs(t) <= IntMax
    BY <2>1, ShareOfWord, Entries, IntMaxAssumption
  <2> QED BY <2>2 DEF t
<1>7. sum + hist[i] \in Word
  BY <1>3, <1>6, IntMaxAssumption DEF Abs, Word, IntMin
<1> QED BY <1>1, <1>3, <1>5, <1>7

LEMMA WindowInit == Init => TypeOK /\ WindowInv
<1> SUFFICES ASSUME Init PROVE TypeOK /\ WindowInv
  OBVIOUS
<1>1. TypeOK
  BY Entries DEF Init, TypeOK
<1> QED BY <1>1 DEF Init, WindowInv, ShiftInv, SumInv, ZeroInv

LEMMA AccumulateStep ==
  ASSUME TypeOK, WindowInv, Accumulate
  PROVE  TypeOK' /\ WindowInv'
<1> USE DEF Accumulate
<1>1. /\ sum + hist[i] \in Word
      /\ Abs(sum + hist[i]) * HistLen <= (i + 1) * IntMax
      /\ i \in Index /\ hist[i] \in Int /\ sum \in Int /\ i \in Nat
  BY AccumulateFits DEF WindowInv
<1>2. sum' = sum + hist[i]
  BY <1>1, WrapSignedFits
<1>3. depth \in 1 .. HistLen /\ i \in 0 .. depth - 1 /\ i' = i + 1
  BY Entries DEF WindowInv, SumInv
<1>4. TypeOK'
  BY <1>1, <1>2, <1>3, Entries DEF TypeOK
<1>5. ASSUME NEW m \in Int, \A k \in 0 .. depth - 1 : hist[k] >= m PROVE sum' >= i' * m
  <2>1. sum >= i * m /\ hist[i] >= m
    BY <1>3, <1>5 DEF WindowInv, SumInv
  <2>2. (i + 1) * m = i * m + m
    BY <1>1, Z3
  <2> QED BY <1>1, <1>2, <1>3, <2>1, <2>2, Z3
<1>6. ASSUME NEW m \in Int, \A k \in 0 .. depth - 1 : hist[k] <= m PROVE sum' <= i' * m
  <2>1. sum <= i * m /\ hist[i] <= m
    BY <1>3, <1>6 DEF WindowInv, SumInv
  <2>2. (i + 1) * m = i * m + m
    BY <1>1, Z3
  <2> QED BY <1>1, <1>2, <1>3, <2>1, <2>2, Z3
<1>7. SumInv'
  BY <1>1, <1>2, <1>3, <1>5, <1>6 DEF SumInv
<1>8. ShiftInv' /\ ZeroInv'
  BY DEF WindowInv, ShiftInv, ZeroInv
<1> QED BY <1>4, <1>7, <1>8 DEF WindowInv

LEMMA InsertStep ==
  ASSUME TypeOK, WindowInv, Insert
  PROVE  TypeOK' /\ WindowInv'
<1> USE DEF Insert
<1>1. depth \in 0 .. HistLen /\ depth' \in 1 .. HistLen /\ depth' <= depth + 1
      /\ (depth' = depth + 1 \/ depth' = HistLen)
  BY Entries DEF TypeOK
<1>2. 0 \in Index /\ i = -1
  BY Entries DEF Index, WindowInv, ShiftInv
<1>3. hist'[0] = datum /\ \A k \in Index : k # 0 => hist'[k] = hist[k]
  BY <1>2 DEF TypeOK
<1>4. TypeOK'
  <2>1. hist' \in [Index -> Samples \cup {0}] /\ datum' \in Samples \cup {0} /\ ret' \in Word
    BY <1>2 DEF TypeOK
  <2>2. depth' \in 0 .. HistLen /\ i' \in -1 .. HistLen /\ sum' \in Word
    BY <1>1, Entries
  <2> QED BY <2>1, <2>2 DEF TypeOK
<1>5. ZeroInv'
  BY <1>1, <1>2, <1>3, Entries DEF ZeroInv, WindowInv, ShiftInv, Index
<1>6. \A m \in Int : 0 * m = 0
  BY Z3
<1>7. Abs(sum') * HistLen <= i' * IntMax
  <2>1. Abs(0) = 0 /\ 0 * HistLen = 0 /\ 0 * IntMax = 0
    BY Entries, IntMaxAssumption, Z3 DEF Abs
  <2> QED BY <2>1
<1>8. SumInv'
  BY <1>1, <1>6, <1>7 DEF SumInv
<1> QED BY <1>4, <1>5, <1>8 DEF WindowInv, ShiftInv

LEMMA ShiftStep ==
  ASSUME TypeOK, WindowInv, Shift
  PROVE  TypeOK' /\ WindowInv'
<1> USE DEF Shift
<1>1. i \in 0 .. HistLen - 2 /\ i \in Index /\ i + 1 \in Index /\ depth \in 0 .. HistLen
  BY Entries DEF WindowInv, ShiftInv, TypeOK, Index
<1>2. hist'[i + 1] = hist[i] /\ \A k \in Index : k # i + 1 => hist'[k] = hist[k]
  BY <1>1 DEF TypeOK
<1>3. TypeOK'
  <2>1. hist' \in [Index -> Samples \cup {0}]
    BY <1>1 DEF TypeOK
  <2>2. i' \in -1 .. HistLen
    BY <1>1, Entries
  <2> QED BY <2>1, <2>2 DEF TypeOK
<1>4. ASSUME NEW k \in Index, k > depth \/ (k = depth /\ k <= i' + 1) PROVE hist'[k] = 0
  <2>1. CASE k = i + 1
    <3>1. i > depth \/ (i = depth /\ i <= i + 1)
      BY <1>1, <1>4, <2>1
    <3> QED BY <1>1, <1>2, <2>1, <3>1 DEF WindowInv, ShiftInv
  <2>2. CASE k # i + 1
    BY <1>1, <1>2, <1>4, <2>2 DEF WindowInv, ShiftInv, Index
  <2> QED BY <2>1, <2>2
<1>5. ShiftInv'
  <2>1. i' \in -1 .. HistLen - 2 /\ depth' = depth
    BY <1>1, Entries
  <2> QED BY <1>4, <2>1 DEF ShiftInv
<1> QED BY <1>3, <1>5 DEF WindowInv, SumInv, ZeroInv

LEMMA ReturnType ==
  ASSUME TypeOK, WindowInv, Return
  PROVE  /\ sum \in Int /\ depth \in Nat \ {0} /\ i = depth
         /\ ret' = TruncDiv(sum, depth) /\ ret' \in Word
<1>1. sum \in Int /\ depth \in 1 .. HistLen /\ i = depth /\ depth \in Nat \ {0}
  BY WordBounds, Entries DEF Return, TypeOK, WindowInv, SumInv, Word
<1>2. sum \in IntMin .. IntMax /\ IntMin \in Int /\ IntMax \in Int /\ IntMin < 0 /\ 0 < IntMax
  BY WordBounds DEF TypeOK, Word
<1>3. depth * IntMax >= IntMax /\ depth * IntMin <= IntMin
  BY <1>1, <1>2, Z3
<1>4. sum >= depth * IntMin /\ sum <= depth * IntMax
  BY <1>1, <1>2, <1>3, Z3
<1>5. TruncDiv(sum, depth) \in IntMin .. IntMax
  BY <1>1, <1>2, <1>4, TruncDivOrder
<1> QED BY <1>1, <1>5 DEF Return, Word

LEMMA WindowStep ==
  ASSUME TypeOK, WindowInv, [Next]_vars
  PROVE  TypeOK' /\ WindowInv'
<1>1. CASE Reset
  BY <1>1, Entries DEF Reset, TypeOK, WindowInv, ShiftInv, SumInv, ZeroInv
<1>2. CASE \E sample \in Samples : Call(sample)
  BY <1>2, Entries DEF Call, TypeOK, WindowInv, ShiftInv, SumInv, ZeroInv, Index
<1>3. CASE Shift
  BY <1>3, ShiftStep
<1>4. CASE Insert
  BY <1>4, InsertStep
<1>5. CASE Accumulate
  BY <1>5, AccumulateStep
<1>6. CASE Return
  <2>1. ret' \in Word
    BY <1>6, ReturnType
  <2> QED BY <1>6, <2>1 DEF Return, TypeOK, WindowInv, ShiftInv, SumInv, ZeroInv
<1>7. CASE UNCHANGED vars
  BY <1>7 DEF vars, TypeOK, WindowInv, ShiftInv, SumInv, ZeroInv
<1> QED BY <1>1, <1>2, <1>3, <1>4, <1>5, <1>6, <1>7 DEF Next

LEMMA WindowInvariance == Spec => [](TypeOK /\ WindowInv)
<1>1. TypeOK /\ WindowInv /\ [Next]_vars => TypeOK' /\ WindowInv'
  BY WindowStep
<1> QED BY <1>1, WindowInit, PTL DEF Spec

(* The loops of update_windowed_average stay inside the history, its sum   *)
(* does not overflow and its division is not by zero, for every length.    *)
THEOREM LoopsTheorem == Spec => []LoopsAreSafe
<1>1. ASSUME TypeOK, WindowInv PROVE LoopsAreSafe
  <2>1. pc = "shift" => i + 1 \in Index
    BY <1>1, Entries DEF WindowInv, ShiftInv, Index
  <2>2. pc = "sum" => depth \in 1 .. HistLen /\ i \in 0 .. depth
    BY <1>1 DEF WindowInv, SumInv
  <2>3. pc = "sum" /\ i < depth => sum + hist[i] \in Word
    BY <1>1, AccumulateFits DEF WindowInv
  <2> QED BY <2>1, <2>2, <2>3 DEF LoopsAreSafe
<1> QED BY <1>1, WindowInvariance, PTL

(* A sample older than the last reset is never counted again               *)
(* (reset_windowed_average, update_windowed_average).                      *)
THEOREM BeyondDepthTheorem == Spec => []NothingBeyondDepth
<1>1. WindowInv => NothingBeyondDepth
  BY DEF WindowInv, ZeroInv, NothingBeyondDepth
<1> QED BY <1>1, WindowInvariance, PTL

(* What update_windowed_average returns lies between the smallest and the  *)
(* largest entry of the window, whatever its length: the fact that the     *)
(* current feedback relies on (update_windowed_average).                   *)
THEOREM ReturnTheorem == Spec => ReturnWithinWindow
<1>1. ASSUME TypeOK, WindowInv, [Next]_vars, ret' # ret
      PROVE  /\ \E k \in 0 .. depth - 1 : hist[k] <= ret'
             /\ \E k \in 0 .. depth - 1 : hist[k] >= ret'
  <2>1. Return
    BY <1>1 DEF Next, vars, Reset, Call, Shift, Insert, Accumulate
  <2>2. /\ sum \in Int /\ depth \in Nat \ {0} /\ i = depth
        /\ ret' = TruncDiv(sum, depth) /\ ret' \in Int
    BY <1>1, <2>1, ReturnType, WordBounds DEF Word
  <2>3. \A k \in 0 .. depth - 1 : hist[k] \in Int
    BY <1>1, <2>2, Entries DEF TypeOK, Index, Entry
  <2>4. ASSUME \A k \in 0 .. depth - 1 : hist[k] > ret' PROVE FALSE
    <3>1. ret' + 1 \in Int /\ \A k \in 0 .. depth - 1 : hist[k] >= ret' + 1
      BY <2>2, <2>3, <2>4
    <3>2. sum >= depth * (ret' + 1)
      BY <1>1, <2>1, <2>2, <3>1 DEF WindowInv, SumInv, Return
    <3>3. TruncDiv(sum, depth) >= ret' + 1
      BY <2>2, <3>1, <3>2, TruncDivOrder
    <3> QED BY <2>2, <3>3
  <2>5. ASSUME \A k \in 0 .. depth - 1 : hist[k] < ret' PROVE FALSE
    <3>1. ret' - 1 \in Int /\ \A k \in 0 .. depth - 1 : hist[k] <= ret' - 1
      BY <2>2, <2>3, <2>5
    <3>2. sum <= depth * (ret' - 1)
      BY <1>1, <2>1, <2>2, <3>1 DEF WindowInv, SumInv, Return
    <3>3. TruncDiv(sum, depth) <= ret' - 1
      BY <2>2, <3>1, <3>2, TruncDivOrder
    <3> QED BY <2>2, <3>3
  <2> QED BY <2>2, <2>3, <2>4, <2>5
<1> QED BY <1>1, WindowInvariance, PTL DEF Spec, ReturnWithinWindow
=============================================================================
