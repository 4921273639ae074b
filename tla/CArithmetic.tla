----------------------------- MODULE CArithmetic -----------------------------
(***************************************************************************)
(* The integer arithmetic of C that the firmware relies on, for a word of  *)
(* any width: a signed word holds -(IntMax+1)..IntMax and an unsigned one  *)
(* 0..2*IntMax+1.  In the firmware IntMax is INT32_MAX; the configurations *)
(* use a narrow word so that the boundary cases are reached.               *)
(***************************************************************************)
EXTENDS Integers

CONSTANT IntMax   (* largest value of a signed word *)

ASSUME IntMaxAssumption == IntMax \in Nat \ {0}

IntMin == -(IntMax + 1)
Word   == IntMin .. IntMax
Modulus == 2 * (IntMax + 1)

(* Signed and unsigned results that do not fit wrap around.  (Signed       *)
(* overflow is undefined in C; every operation here is on values the       *)
(* compiler cannot bound, and the code generated for it wraps.)            *)
WrapSigned(v)   == ((v - IntMin) % Modulus) + IntMin
WrapUnsigned(v) == v % Modulus

(* saturate_int32_t and saturate_float, in the order of their tests.       *)
Saturate(v, min, max) == IF v >= max THEN max ELSE IF v <= min THEN min ELSE v

(* A float converted to a signed word: VCVT saturates.                     *)
FloatToWordExact(v) == v                      \* mutant: the value is not saturated

FloatToWord(v) == Saturate(v, IntMin, IntMax)

(* C division rounds towards zero.                                         *)
TruncDiv(a, b) == IF a >= 0 THEN a \div b ELSE -((-a) \div b)

Abs(v)  == IF v < 0 THEN -v ELSE v
Sign(v) == IF v < 0 THEN -1 ELSE 1
=============================================================================
