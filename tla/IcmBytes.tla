------------------------------ MODULE IcmBytes ------------------------------
(***************************************************************************)
(* What src/imu_icm.c makes of the two data registers of an axis or of the *)
(* temperature.  Bits are named by their weights.                          *)
(***************************************************************************)
EXTENDS Integers

Bit(weight, x) == (x \div weight) % 2

(* b0 | b1 of two bytes.                                                   *)
BitOr(x, y) ==
  LET or(weight) == IF Bit(weight, x) + Bit(weight, y) > 0 THEN weight ELSE 0
  IN  or(1) + or(2) + or(4) + or(8) + or(16) + or(32) + or(64) + or(128)

(* ((uint16_t)b0 | (uint16_t)b1) << 8 in 16 bits: the code shifts both.    *)
ShiftedWord(b0, b1) == (BitOr(b0, b1) * 256) % 65536
=============================================================================
