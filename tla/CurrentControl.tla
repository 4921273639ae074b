--------------------------- MODULE CurrentControl ---------------------------
(***************************************************************************)
(* The arithmetic of the current loop of src/magnetorquers.c: how an ADC   *)
(* sample becomes a feedback current, and how control_current turns the    *)
(* commanded and the measured current into a signed PWM duty.              *)
(*                                                                         *)
(* Currents are in units of the model, duties are 0..MaxDuty.  The gains   *)
(* are fractions over GainDen, so the controller's float arithmetic is     *)
(* exact here; the rounding of float is abstracted, that of every          *)
(* conversion to int32_t is kept.  Kff is 0 for every axis and left out.   *)
(***************************************************************************)
EXTENDS Integers, FiniteSets, CArithmetic

CONSTANTS
  MaxDuty,          (* MAX_PWM_DUTY_CYCLE_X/Y/Z                            *)
  KpNum,            (* Kp = KpNum / GainDen, 0.95 in the firmware          *)
  KiNum,            (* Ki = KiNum / GainDen, 0.05 in the firmware          *)
  GainDen,
  UaPerMv           (* 1 / (1000 * ISENSE_GAIN * ISENSE_R_OHMS), in uA/mV  *)

ASSUME ControlAssumption ==
  /\ MaxDuty \in Nat \ {0}
  /\ KpNum \in Nat /\ KiNum \in Nat /\ GainDen \in Nat \ {0}
  /\ UaPerMv \in Nat \ {0}

(* get_current_readings: the offset is subtracted from the sample in       *)
(* uint32_t, so a sample below the offset wraps; the microamps take the    *)
(* sign of the duty being driven.                                          *)
MeasuredUnsigned(adcMv, ofsMv, active) ==     \* mutant: the sign is dropped
  FloatToWord(UaPerMv * WrapUnsigned(adcMv - ofsMv))

Measured(adcMv, ofsMv, active) ==
  FloatToWord(Sign(active) * UaPerMv * WrapUnsigned(adcMv - ofsMv))

(* The quadratic relationship between duty and current,                    *)
(* (int32_t)(sqrt(|out| / max_uA) * max_duty) saturated at max_duty: the   *)
(* number of duty steps whose square the output covers.  outNum is the     *)
(* output times GainDen.                                                   *)
DutyFor(outNum, maxUa) ==
  Cardinality({d \in 1 .. MaxDuty : d * d * GainDen * maxUa <= outNum * MaxDuty * MaxDuty})

(* The integral term after one more error, times GainDen, kept within      *)
(* +/- max_uA to prevent wind-up.                                          *)
IntegralUnbounded(integral, error, maxUa) ==  \* mutant: no wind-up limit
  GainDen * integral + KiNum * error

IntegralTerm(integral, error, maxUa) ==
  Saturate(GainDen * integral + KiNum * error, -GainDen * maxUa, GainDen * maxUa)

(* control_current: the duty it returns and the integral it leaves.        *)
ControlAlways(target, actual, integral, maxUa) ==   \* mutant: no zero-command case
  LET error == WrapSigned(Saturate(target, -maxUa, maxUa) - actual)
      i     == IntegralTerm(integral, error, maxUa)
      out   == KpNum * error + i
  IN  [duty |-> Sign(out) * DutyFor(Abs(out), maxUa), integral |-> TruncDiv(i, GainDen)]

ControlCurrent(target, actual, integral, maxUa) ==
  IF target = 0
  THEN [duty |-> 0, integral |-> 0]
  ELSE LET error == WrapSigned(Saturate(target, -maxUa, maxUa) - actual)
           i     == IntegralTerm(integral, error, maxUa)
           out   == KpNum * error + i
       IN  [duty |-> Sign(out) * DutyFor(Abs(out), maxUa), integral |-> TruncDiv(i, GainDen)]
=============================================================================
