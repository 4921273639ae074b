-------------------------------- MODULE Pwm --------------------------------
(***************************************************************************)
(* The PWM channels of src/pwm.c: the period each channel is configured    *)
(* with and the cycles that a duty comes to.  Periods and pulses are       *)
(* unsigned words, and the product of the two wraps.                       *)
(***************************************************************************)
EXTENDS CArithmetic

CONSTANTS
  NumPwms,          (* NUM_PWMS                                             *)
  Cps,              (* channel -> cycles per second of its timer            *)
  DefaultFrequency, (* PWM_FREQUENCY                                        *)
  PercentScale      (* PERCENT_SCALE: the duty of a pulse of a whole period *)

Channel == 0 .. NumPwms - 1

ASSUME PwmAssumption ==
  /\ NumPwms \in Nat \ {0}
  /\ Cps \in [Channel -> Nat]
  /\ DefaultFrequency \in Nat \ {0}
  /\ PercentScale \in Nat \ {0}

(* (cps + frequency / 2) / frequency, cut to the uint32_t that holds it.   *)
PeriodOf(ch, frequency) ==
  WrapUnsigned((Cps[ch] + frequency \div 2) \div frequency)

(* init_pwm: every channel at the default frequency.                       *)
InitialPeriods == [ch \in Channel |-> PeriodOf(ch, DefaultFrequency)]

(* set_pwm_frequency: the table only; a pulse that is running is not       *)
(* changed, and there is no channel beyond the last.                       *)
SetFrequency(periods, n, frequency) ==
  [ch \in Channel |-> IF ch = n THEN PeriodOf(ch, frequency) ELSE periods[ch]]

(* PWM_FRACTION_TO_WIDTH *)
Pulse(period, duty) == WrapUnsigned(period * duty) \div PercentScale

(* set_pwm: the period and the pulse written to a channel.                 *)
CyclesAtDefault(ch, period, duty) ==          \* mutant: the first period is kept
  [period |-> PeriodOf(ch, DefaultFrequency), pulse |-> Pulse(period, duty)]

Cycles(ch, period, duty) == [period |-> period, pulse |-> Pulse(period, duty)]
=============================================================================
