----------------------------- MODULE ShellProofs -----------------------------
(***************************************************************************)
(* What holds when the shell's commands run beside the threads they share  *)
(* state with: those of the exploration build beside the magnetorquer loop *)
(* (Explore), for any number of coils, any word width and any gains, and   *)
(* the calibration commands beside the IMU thread (Calibration), for any   *)
(* offsets, any motions, any length of the histories and any number of     *)
(* commands.                                                               *)
(***************************************************************************)
EXTENDS Explore, Calibration, FiniteSetTheorems, TLAPS

-----------------------------------------------------------------------------
(* Arithmetic *)

LEMMA WordFacts == IntMin \in Int /\ Modulus \in Nat \ {0}
  BY IntMaxAssumption DEF IntMin, Modulus

LEMMA WrapSignedInt ==
  ASSUME NEW v \in Int
  PROVE  WrapSigned(v) \in Int
  <1>1. (v - IntMin) % Modulus \in Int
    BY WordFacts
  <1> QED
    BY <1>1, WordFacts DEF WrapSigned

LEMMA Remainder ==
  ASSUME NEW a \in Nat, NEW k \in Nat \ {0}
  PROVE  a % k \in Nat /\ a % k <= a /\ a \div k \in Nat
  <1>1. a % k \in 0 .. k - 1 /\ a \div k \in Nat /\ a = k * (a \div k) + (a % k)
    BY Z3
  <1>2. k * (a \div k) >= 0
    BY <1>1, Z3
  <1> QED
    BY <1>1, <1>2, Z3

LEMMA Quotient ==
  ASSUME NEW a \in Nat, NEW k \in Nat \ {0}, NEW b \in Nat, a <= k * b
  PROVE  a \div k \in 0 .. b
  <1>1. a \div k \in Nat /\ a = k * (a \div k) + (a % k) /\ a % k >= 0
    BY Z3
  <1> DEFINE q == a \div k
  <1>2. ASSUME q > b PROVE FALSE
    <2>1. k * q >= k * (b + 1)
      BY <1>1, <1>2, Z3
    <2>2. k * (b + 1) = k * b + k
      BY Z3
    <2> QED
      BY <1>1, <2>1, <2>2, Z3
  <1> QED
    BY <1>1, <1>2

(* A pulse fits its period, also where the product of the two overflows:   *)
(* what is left of the product is less than the product.                   *)
LEMMA PulseFits ==
  ASSUME NEW period \in Nat, NEW duty \in 0 .. PercentScale
  PROVE  Pulse(period, duty) \in 0 .. period
  <1> DEFINE product == period * duty
             kept    == product % Modulus
  <1>1. product \in Nat /\ product <= PercentScale * period
    BY PwmAssumption, Z3
  <1>2. kept \in Nat /\ kept <= product
    BY <1>1, Remainder, WordFacts
  <1> HIDE DEF product, kept
  <1>3. kept <= PercentScale * period /\ PercentScale * period \in Nat
    BY <1>1, <1>2, PwmAssumption, Z3
  <1>4. kept \div PercentScale \in 0 .. period
    BY <1>2, <1>3, PwmAssumption, Quotient
  <1> QED
    BY <1>4 DEF Pulse, WrapUnsigned, kept, product

LEMMA NoPulse ==
  ASSUME NEW period \in Nat
  PROVE  Pulse(period, 0) = 0
  <1>1. period * 0 = 0
    BY Z3
  <1>2. \A k \in Nat \ {0} : 0 % k = 0 /\ 0 \div k = 0
    BY Z3
  <1> QED
    BY <1>1, <1>2, WordFacts, PwmAssumption DEF Pulse, WrapUnsigned

LEMMA PeriodType ==
  ASSUME NEW ch \in Channel, NEW frequency \in Nat \ {0}
  PROVE  PeriodOf(ch, frequency) \in Nat
  <1>1. frequency \div 2 \in Nat /\ Cps[ch] \in Nat
    BY PwmAssumption
  <1>2. Cps[ch] + frequency \div 2 \in Nat
    BY <1>1
  <1>3. (Cps[ch] + frequency \div 2) \div frequency \in Nat
    BY <1>2, Remainder
  <1> QED
    BY <1>3, WordFacts, Remainder DEF PeriodOf, WrapUnsigned

Duties == -MaxDuty .. MaxDuty

(* Whatever control_current is given, it returns a duty.                   *)
LEMMA ControlGivesDuty ==
  ASSUME NEW target \in Int, NEW actual \in Int, NEW integ \in Int, NEW maxUa \in Nat \ {0}
  PROVE  /\ ControlCurrent(target, actual, integ, maxUa).duty \in Duties
         /\ ControlCurrent(target, actual, integ, maxUa).integral \in Int
  <1> DEFINE error == WrapSigned(Saturate(target, -maxUa, maxUa) - actual)
             term  == IntegralTerm(integ, error, maxUa)
             out   == KpNum * error + term
  <1>1. error \in Int
    BY WrapSignedInt DEF Saturate
  <1>2. term \in Int
    <2>1. GainDen * integ + KiNum * error \in Int /\ GainDen * maxUa \in Int /\ -GainDen * maxUa \in Int
      BY <1>1, ControlAssumption, Z3
    <2> HIDE DEF error
    <2> QED
      BY <2>1 DEF IntegralTerm, Saturate
  <1> HIDE DEF error, term
  <1>3. TruncDiv(term, GainDen) \in Int
    <2>1. term \div GainDen \in Int /\ (-term) \div GainDen \in Int
      BY <1>2, ControlAssumption
    <2> QED
      BY <2>1 DEF TruncDiv
  <1>4. \A num, max : DutyFor(num, max) \in 0 .. MaxDuty
    <2> SUFFICES ASSUME NEW num, NEW max PROVE DutyFor(num, max) \in 0 .. MaxDuty
      OBVIOUS
    <2> DEFINE steps == {d \in 1 .. MaxDuty : d * d * GainDen * max <= num * MaxDuty * MaxDuty}
    <2>1. IsFiniteSet(1 .. MaxDuty) /\ Cardinality(1 .. MaxDuty) = MaxDuty
      BY FS_Interval, ControlAssumption
    <2>2. IsFiniteSet(steps) /\ Cardinality(steps) <= Cardinality(1 .. MaxDuty)
      BY <2>1, FS_Subset
    <2>3. Cardinality(steps) \in Nat
      BY <2>2, FS_CardinalityType
    <2> QED
      BY <2>1, <2>2, <2>3, ControlAssumption DEF DutyFor
  <1>5. Sign(out) * DutyFor(Abs(out), maxUa) \in Duties
    BY <1>4, ControlAssumption DEF Sign, Duties
  <1> QED
    BY <1>3, <1>5, ControlAssumption DEF ControlCurrent, error, term, Duties

-----------------------------------------------------------------------------
(* The inductive invariant *)

ShellTypes ==
  /\ cmd \in [axis : Axis, value : Int, i : Axis, duty : Duties]
  /\ ramp_axis \in Axis /\ next_ua \in Int
  /\ setpoint \in [Axis -> Int] /\ feedback \in [Axis -> Int] /\ integral \in [Axis -> Int]
  /\ goal \in [Axis -> Duties] /\ active \in [Axis -> Duties]
  /\ phase_state \in [Axis -> BOOLEAN]
  /\ periods \in [Axis -> Nat]

(* mtpwm is at work on a coil that counts as driven by hand.               *)
HandInv ==
  sh \in {"pwm_phase", "pwm_pulse", "pwm_active"} => cmd.axis \in by_hand /\ cmd.value \in Duties

CoilTypes ==
  /\ decided \in [Axis -> Duties]
  /\ phase_pin \in [Axis -> BOOLEAN]
  /\ pwm \in [Axis -> [period : Nat, pulse : Nat]]

(* A coil that is not driven by hand has one output, and phase_state       *)
(* follows its pin.                                                        *)
CoilOutputs ==
  \A a \in Axis \ by_hand :
    /\ phase_pin[a] = (decided[a] < 0)
    /\ pwm[a].pulse = Pulse(pwm[a].period, Abs(decided[a]))

CoilInv ==
  /\ PulseWithinPeriod
  /\ CoilOutputs
  /\ \A a \in Axis \ by_hand : phase_state[a] = phase_pin[a]

(* The shell only ever takes a coil to rest, so a coil that counts as      *)
(* being at rest is.                                                       *)
RestInv ==
  \A a \in Axis \ by_hand :
    /\ goal[a] \in {active[a], 0}
    /\ active[a] = 0 => decided[a] = 0
    /\ sh = "locked" /\ cmd.i = a => cmd.duty = 0
    /\ sh = "output_active" /\ cmd.i = a /\ goal[a] = 0 => decided[a] = 0

ShellInv == ShellTypes /\ HandInv /\ CoilTypes /\ CoilInv /\ RestInv

LEMMA AxisFacts == Axis = Channel /\ \A a \in Axis : MaxUa[a] \in Nat \ {0}
  BY ExploreAssumption, IntMaxAssumption DEF Axis, Channel

LEMMA DutyFacts == 0 \in Duties /\ \A d \in Duties : Abs(d) \in 0 .. PercentScale
  BY ExploreAssumption, ControlAssumption DEF Duties, Abs

LEMMA CyclesAre ==
  ASSUME NEW a, NEW period, NEW d
  PROVE  Cycles(a, period, d).period = period /\ Cycles(a, period, d).pulse = Pulse(period, d)
  BY DEF Cycles

LEMMA CyclesFit ==
  ASSUME NEW a \in Axis, NEW period \in Nat, NEW d \in Duties
  PROVE  /\ Cycles(a, period, Abs(d)) \in [period : Nat, pulse : Nat]
         /\ Cycles(a, period, Abs(d)).pulse <= Cycles(a, period, Abs(d)).period
  BY DutyFacts, PulseFits DEF Cycles

LEMMA ShellInitInv == ExploreInit => ShellInv
  <1> SUFFICES ASSUME ExploreInit PROVE ShellInv
    OBVIOUS
  <1>1. 0 \in Axis /\ 0 \in Duties
    BY DutyFacts, ExploreAssumption, PwmAssumption DEF Axis
  <1>2. periods \in [Axis -> Nat]
    BY PeriodType, AxisFacts, PwmAssumption DEF ExploreInit, InitialPeriods
  <1>3. \A a \in Axis : pwm[a] = Cycles(a, periods[a], Abs(0))
    BY DEF ExploreInit, Abs
  <1>4. ShellTypes
    BY <1>1, <1>2 DEF ExploreInit, ShellTypes, NoCommand
  <1>5. CoilTypes
    BY <1>1, <1>2, <1>3, CyclesFit DEF ExploreInit, CoilTypes
  <1>6. CoilInv
    <2>1. PulseWithinPeriod
      BY <1>1, <1>2, <1>3, CyclesFit DEF PulseWithinPeriod
    <2>2. \A a \in Axis : ~(decided[a] < 0) /\ phase_pin[a] = FALSE /\ phase_state[a] = FALSE /\ decided[a] = 0
      BY DEF ExploreInit
    <2>3. CoilOutputs
      <3>1. \A a \in Axis : phase_pin[a] = (decided[a] < 0)
        <4> SUFFICES ASSUME NEW a \in Axis PROVE phase_pin[a] = (decided[a] < 0)
          OBVIOUS
        <4>1. phase_pin[a] = FALSE /\ decided[a] = 0
          BY <2>2
        <4>2. (0 < 0) = FALSE
          OBVIOUS
        <4> QED
          BY <4>1, <4>2
      <3>2. \A a \in Axis : pwm[a].pulse = Pulse(pwm[a].period, Abs(decided[a]))
        BY <2>2, <1>3, CyclesAre
      <3> QED
        BY <3>1, <3>2 DEF CoilOutputs
    <2> QED
      BY <2>1, <2>2, <2>3 DEF CoilInv
  <1>7. HandInv /\ RestInv
    BY DEF ExploreInit, HandInv, RestInv
  <1> QED
    BY <1>4, <1>5, <1>6, <1>7 DEF ShellInv

-----------------------------------------------------------------------------
(* Outputs *)

(* The section under k_sched_lock gives each of its coils one output.      *)
LEMMA DriveStep ==
  ASSUME ShellInv, NEW as \in SUBSET Axis, NEW duty \in [Axis -> Duties],
         DriveCoils(as, duty), by_hand' = by_hand
  PROVE  /\ CoilTypes' /\ CoilInv' /\ phase_state' \in [Axis -> BOOLEAN]
         /\ \A a \in Axis : decided'[a] = IF a \in as THEN duty[a] ELSE decided[a]
  <1>1. /\ phase_pin \in [Axis -> BOOLEAN] /\ phase_state \in [Axis -> BOOLEAN]
        /\ decided \in [Axis -> Duties] /\ periods \in [Axis -> Nat]
        /\ pwm \in [Axis -> [period : Nat, pulse : Nat]]
    BY DEF ShellInv, ShellTypes, CoilTypes
  <1>2. \A a \in Axis : pwm'[a] = IF a \in as THEN Cycles(a, periods[a], Abs(duty[a])) ELSE pwm[a]
    BY DEF DriveCoils
  <1>3. \A a \in Axis : decided'[a] = IF a \in as THEN duty[a] ELSE decided[a]
    BY DEF DriveCoils
  <1>4. phase_state' \in [Axis -> BOOLEAN] /\ phase_pin' \in [Axis -> BOOLEAN] /\ decided' \in [Axis -> Duties]
    <2>1. \A a \in Axis : (duty[a] < 0) \in BOOLEAN
      OBVIOUS
    <2> QED
      BY <1>1, <2>1 DEF DriveCoils
  <1>5. pwm' \in [Axis -> [period : Nat, pulse : Nat]]
    BY <1>1, CyclesFit DEF DriveCoils
  <1>6. PulseWithinPeriod'
    <2> SUFFICES ASSUME NEW a \in Axis PROVE pwm'[a].pulse <= pwm'[a].period
      BY DEF PulseWithinPeriod
    <2>1. pwm[a].pulse <= pwm[a].period
      BY DEF ShellInv, CoilInv, PulseWithinPeriod
    <2>2. CASE a \in as
      <3>1. duty[a] \in Duties /\ periods[a] \in Nat
        BY <1>1
      <3> QED
        BY <1>2, <2>2, <3>1, CyclesFit
    <2> QED
      BY <1>2, <2>1, <2>2
  <1>7. ASSUME NEW a \in Axis \ by_hand
        PROVE  /\ phase_state'[a] = phase_pin'[a]
               /\ phase_pin'[a] = (decided'[a] < 0)
               /\ pwm'[a].pulse = Pulse(pwm'[a].period, Abs(decided'[a]))
    <2>1. /\ phase_state[a] = phase_pin[a] /\ phase_pin[a] = (decided[a] < 0)
          /\ pwm[a].pulse = Pulse(pwm[a].period, Abs(decided[a]))
      BY DEF ShellInv, CoilInv, CoilOutputs
    <2>2. CASE a \in as
      <3>1. phase_pin'[a] = (duty[a] < 0) /\ phase_state'[a] = (duty[a] < 0)
        BY <1>1, <2>1, <2>2 DEF DriveCoils
      <3>2. pwm'[a].pulse = Pulse(pwm'[a].period, Abs(duty[a]))
        <4>1. pwm'[a] = Cycles(a, periods[a], Abs(duty[a]))
          BY <1>2, <2>2
        <4>2. pwm'[a].period = periods[a] /\ pwm'[a].pulse = Pulse(periods[a], Abs(duty[a]))
          BY <4>1, CyclesAre
        <4> QED
          BY <4>2
      <3> QED
        BY <1>3, <2>2, <3>1, <3>2
    <2>3. CASE a \notin as
      <3>1. phase_pin'[a] = phase_pin[a] /\ phase_state'[a] = phase_state[a]
        BY <2>3 DEF DriveCoils
      <3> QED
        BY <1>2, <1>3, <2>1, <2>3, <3>1
    <2> QED
      BY <2>2, <2>3
  <1>8. CoilInv'
    BY <1>6, <1>7 DEF CoilInv, CoilOutputs
  <1> QED
    BY <1>3, <1>4, <1>5, <1>8 DEF CoilTypes

(* The loop's call of set_pwm_output leaves no coil with another goal.     *)
LEMMA LoopOutputStep ==
  ASSUME ShellInv, NEW duty \in [Axis -> Duties],
         LoopOutput(duty), UNCHANGED <<sh, cmd, periods, by_hand>>
  PROVE  /\ CoilTypes' /\ CoilInv' /\ RestInv' /\ HandInv'
         /\ phase_state' \in [Axis -> BOOLEAN] /\ goal' \in [Axis -> Duties] /\ active' \in [Axis -> Duties]
         /\ \A a \in Axis \ by_hand : duty[a] = 0 => decided'[a] = 0
  <1> DEFINE as == {a \in Axis : active[a] # duty[a]}
  <1>1. /\ CoilTypes' /\ CoilInv' /\ phase_state' \in [Axis -> BOOLEAN]
        /\ \A a \in Axis : decided'[a] = IF a \in as THEN duty[a] ELSE decided[a]
    <2>1. DriveCoils(as, duty)
      BY DEF LoopOutput
    <2> HIDE DEF as
    <2>2. as \in SUBSET Axis
      BY DEF as
    <2> QED
      BY <2>1, <2>2, DriveStep
  <1>2. goal' = duty /\ active' = duty
    BY DEF LoopOutput
  <1>3. \A a \in Axis \ by_hand : duty[a] = 0 => decided'[a] = 0
    BY <1>1 DEF ShellInv, RestInv
  <1>4. RestInv'
    BY <1>2, <1>3 DEF ShellInv, RestInv
  <1>5. HandInv'
    BY DEF ShellInv, HandInv
  <1> QED
    BY <1>1, <1>2, <1>3, <1>4, <1>5

-----------------------------------------------------------------------------
(* Steps that leave the outputs alone *)

LEMMA QuietStep ==
  ASSUME ShellInv, ShellTypes', UNCHANGED <<goal, drive, by_hand>>,
         \/ UNCHANGED <<sh, cmd>>
         \/ sh' \notin {"pwm_phase", "pwm_pulse", "pwm_active", "locked", "output_active"}
  PROVE  ShellInv'
  <1>1. CoilTypes' /\ CoilInv'
    BY DEF ShellInv, CoilTypes, CoilInv, PulseWithinPeriod, CoilOutputs, drive
  <1>2. HandInv' /\ RestInv'
    BY DEF ShellInv, HandInv, RestInv, drive
  <1> QED
    BY <1>1, <1>2 DEF ShellInv

LEMMA NextOutputType ==
  ASSUME cmd \in [axis : Axis, value : Int, i : Axis, duty : Duties], NextOutput(cmd)
  PROVE  cmd' \in [axis : Axis, value : Int, i : Axis, duty : Duties] /\ sh' \in {"output", "set_axis"}
  <1>1. 0 \in Axis /\ 0 \in Duties /\ NumAxes \in Nat
    BY DutyFacts, ExploreAssumption, PwmAssumption DEF Axis
  <1>2. cmd.i \in Axis
    OBVIOUS
  <1>3. cmd.i + 1 < NumAxes => cmd.i + 1 \in Axis
    BY <1>1, <1>2 DEF Axis
  <1> HIDE DEF Axis
  <1> QED
    BY <1>1, <1>3 DEF NextOutput

QuietLoop ==
  \/ Dispatch \/ RampEnter \/ RampWait \/ RampAdd \/ RampStore \/ RampTest
  \/ AdcRead \/ CurrentRead \/ Wake
  \/ \E w \in SdoWrites : SdoWrite(w[1], w[2])

LEMMA QuietLoopStep == ShellInv /\ QuietLoop => ShellInv'
  <1> SUFFICES ASSUME ShellInv, QuietLoop PROVE ShellInv'
    OBVIOUS
  <1>1. UNCHANGED <<sh, cmd, goal, active, phase_state, phase_pin, pwm, decided, periods, integral, by_hand>>
    BY DEF QuietLoop, Dispatch, RampEnter, RampWait, RampAdd, RampStore, RampTest,
           AdcRead, CurrentRead, Wake, SdoWrite, drive
  <1>2. ShellTypes
    BY DEF ShellInv
  <1>3. SUFFICES /\ ramp_axis' \in Axis /\ next_ua' \in Int
                 /\ setpoint' \in [Axis -> Int] /\ feedback' \in [Axis -> Int]
    <2>1. ShellTypes'
      BY <1>1, <1>2, <1>3 DEF ShellTypes
    <2> QED
      BY <1>1, <2>1, QuietStep DEF drive
  <1> USE <1>2 DEF ShellTypes
  <1>4. CASE Dispatch \/ RampWait \/ AdcRead \/ Wake
    BY <1>4 DEF Dispatch, RampWait, AdcRead, Wake, ramp
  <1>5. CASE RampEnter
    BY <1>5 DEF RampEnter
  <1>6. CASE RampAdd
    <2>1. StepUa \in Int /\ setpoint[ramp_axis] \in Int
      BY ExploreAssumption
    <2>2. next_ua' \in Int
      BY <1>6, <2>1, WrapSignedInt DEF RampAdd
    <2> QED
      BY <1>6, <2>2 DEF RampAdd
  <1>7. CASE RampStore
    BY <1>7 DEF RampStore
  <1>8. CASE RampTest
    BY <1>8 DEF RampTest, ramp
  <1>9. CASE CurrentRead
    <2>1. Feedbacks \subseteq Int
      BY ExploreAssumption, WordFacts, IntMaxAssumption DEF Word
    <2>2. feedback' \in [Axis -> Int]
      BY <1>9, <2>1 DEF CurrentRead, Readings
    <2> QED
      BY <1>9, <2>2 DEF CurrentRead, ramp
  <1>10. CASE \E w \in SdoWrites : SdoWrite(w[1], w[2])
    <2>1. PICK w \in SdoWrites : SdoWrite(w[1], w[2])
      BY <1>10
    <2>2. w[2] \in Int
      BY ExploreAssumption, WordFacts, IntMaxAssumption DEF Word
    <2> QED
      BY <2>1, <2>2 DEF SdoWrite, ramp
  <1> QED
    BY <1>4, <1>5, <1>6, <1>7, <1>8, <1>9, <1>10 DEF QuietLoop

QuietShell ==
  \/ \E w \in HandFrequencies : FrqPwm(w[1], w[2])
  \/ \E w \in HandTargets : Ua2Pwm(w[1], w[2])
  \/ \E m \in Modes : MtMode(m)
  \/ \E m \in Modes, n \in 0 .. NumAxes : MtModeAxis(m, n)
  \/ Ua2PwmStore \/ ResetSetpoint \/ OutputSkip \/ SetRampAxis

LEMMA QuietShellStep == ShellInv /\ QuietShell => ShellInv'
  <1> SUFFICES ASSUME ShellInv, QuietShell PROVE ShellInv'
    OBVIOUS
  <1>0. 0 \in Axis /\ 0 \in Duties /\ NumAxes \in Nat /\ 0 .. NumAxes \subseteq Int
    BY DutyFacts, ExploreAssumption, PwmAssumption DEF Axis
  <1>1. /\ UNCHANGED <<goal, active, phase_state, phase_pin, pwm, decided, next_ua, feedback, by_hand>>
        /\ \/ UNCHANGED <<sh, cmd>>
           \/ sh' \in {"idle", "ua2pwm", "reset_setpoint", "reset_goal", "output", "set_axis"}
    BY DEF QuietShell, FrqPwm, Ua2Pwm, MtMode, MtModeAxis, Ua2PwmStore, ResetSetpoint, OutputSkip,
           NextOutput, SetRampAxis, drive, ramp
  <1>2. ShellTypes
    BY DEF ShellInv
  <1>3. SUFFICES /\ cmd' \in [axis : Axis, value : Int, i : Axis, duty : Duties] /\ ramp_axis' \in Axis
                 /\ setpoint' \in [Axis -> Int] /\ integral' \in [Axis -> Int]
                 /\ periods' \in [Axis -> Nat]
    <2>1. ShellTypes'
      BY <1>1, <1>2, <1>3 DEF ShellTypes
    <2> QED
      BY <1>1, <2>1, QuietStep DEF drive
  <1> USE <1>2 DEF ShellTypes
  <1>4. CASE \E w \in HandFrequencies : FrqPwm(w[1], w[2])
    <2>1. PICK w \in HandFrequencies : FrqPwm(w[1], w[2])
      BY <1>4
    <2>2. w[2] \in Nat \ {0}
      BY ExploreAssumption
    <2>3. periods' \in [Axis -> Nat]
      BY <2>1, <2>2, PeriodType, AxisFacts DEF FrqPwm, SetFrequency
    <2> QED
      BY <2>1, <2>3 DEF FrqPwm, ramp
  <1>5. CASE \E w \in HandTargets : Ua2Pwm(w[1], w[2])
    <2>1. PICK w \in HandTargets : Ua2Pwm(w[1], w[2])
      BY <1>5
    <2>2. w[1] \in Axis /\ w[2] \in Int
      BY ExploreAssumption, WordFacts, IntMaxAssumption DEF Word
    <2>3. feedback[w[1]] \in Int /\ integral[w[1]] \in Int /\ MaxUa[w[1]] \in Nat \ {0}
      BY <2>2, AxisFacts
    <2>4. ControlCurrent(w[2], feedback[w[1]], integral[w[1]], MaxUa[w[1]]).integral \in Int
      BY <2>2, <2>3, ControlGivesDuty
    <2>5. cmd' \in [axis : Axis, value : Int, i : Axis, duty : Duties]
      BY <1>0, <2>1, <2>2, <2>4 DEF Ua2Pwm, NoCommand
    <2> QED
      BY <2>1, <2>5 DEF Ua2Pwm, ramp
  <1>6. CASE \E m \in Modes : MtMode(m)
    BY <1>6 DEF MtMode, ramp
  <1>7. CASE \E m \in Modes, n \in 0 .. NumAxes : MtModeAxis(m, n)
    BY <1>0, <1>7 DEF MtModeAxis, NoCommand, ramp
  <1>8. CASE Ua2PwmStore
    BY <1>0, <1>8 DEF Ua2PwmStore, NoCommand, ramp
  <1>9. CASE ResetSetpoint
    BY <1>9 DEF ResetSetpoint, ramp
  <1>10. CASE OutputSkip
    BY <1>10, NextOutputType DEF OutputSkip, ramp
  <1>11. CASE SetRampAxis
    BY <1>0, <1>11 DEF SetRampAxis, NoCommand
  <1> QED
    BY <1>4, <1>5, <1>6, <1>7, <1>8, <1>9, <1>10, <1>11 DEF QuietShell

-----------------------------------------------------------------------------
(* Steps that drive a coil *)

LEMMA OffStep ==
  ASSUME ShellInv, Off
  PROVE  ShellInv' /\ (t_mt_loop => ramp_axis \in by_hand \/ decided'[ramp_axis] = 0)
  <1>1. ShellTypes /\ UNCHANGED <<sh, cmd, ramp_axis, next_ua, feedback, integral, periods, by_hand>>
    BY DEF Off, ShellInv
  <1>2. CASE t_mt_loop
    <2> DEFINE duty == [goal EXCEPT ![ramp_axis] = 0]
    <2>1. LoopOutput(duty) /\ setpoint' = [setpoint EXCEPT ![ramp_axis] = 0]
      BY <1>2 DEF Off
    <2>2. duty \in [Axis -> Duties] /\ duty[ramp_axis] = 0 /\ setpoint' \in [Axis -> Int]
      BY <1>1, <2>1, DutyFacts DEF ShellTypes
    <2> HIDE DEF duty
    <2>3. /\ CoilTypes' /\ CoilInv' /\ RestInv' /\ HandInv'
          /\ phase_state' \in [Axis -> BOOLEAN] /\ goal' \in [Axis -> Duties] /\ active' \in [Axis -> Duties]
          /\ \A a \in Axis \ by_hand : duty[a] = 0 => decided'[a] = 0
      BY <1>1, <2>1, <2>2, LoopOutputStep
    <2>4. ShellTypes'
      BY <1>1, <2>2, <2>3 DEF ShellTypes
    <2> QED
      BY <1>1, <2>2, <2>3, <2>4 DEF ShellInv, ShellTypes
  <1>3. CASE ~t_mt_loop
    <2>1. UNCHANGED <<goal, drive, setpoint>>
      BY <1>3 DEF Off
    <2>2. ShellTypes'
      BY <1>1, <2>1 DEF ShellTypes, drive
    <2> QED
      BY <1>1, <1>3, <2>1, <2>2, QuietStep
  <1> QED
    BY <1>2, <1>3

LEMMA LoopControlStep ==
  ASSUME ShellInv, LoopControl
  PROVE  ShellInv'
  <1>1. ShellTypes /\ UNCHANGED <<sh, cmd, ramp_axis, next_ua, setpoint, periods, by_hand>>
    BY DEF LoopControl, ShellInv, ramp
  <1>2. feedback' \in [Axis -> Int]
    <2>1. Feedbacks \subseteq Int
      BY ExploreAssumption, WordFacts, IntMaxAssumption DEF Word
    <2> QED
      BY <1>1, <2>1 DEF LoopControl, Readings, ShellTypes
  <1>3. \A a \in Axis : Control(a).duty \in Duties /\ Control(a).integral \in Int
    <2> SUFFICES ASSUME NEW a \in Axis PROVE Control(a).duty \in Duties /\ Control(a).integral \in Int
      OBVIOUS
    <2>1. setpoint[a] \in Int /\ feedback'[a] \in Int /\ integral[a] \in Int /\ MaxUa[a] \in Nat \ {0}
      BY <1>1, <1>2, AxisFacts DEF ShellTypes
    <2> QED
      BY <2>1, ControlGivesDuty DEF Control
  <1> DEFINE duty == [a \in Axis |-> Control(a).duty]
  <1>4. duty \in [Axis -> Duties] /\ integral' \in [Axis -> Int] /\ LoopOutput(duty)
    BY <1>3 DEF LoopControl
  <1> HIDE DEF duty
  <1>5. /\ CoilTypes' /\ CoilInv' /\ RestInv' /\ HandInv'
        /\ phase_state' \in [Axis -> BOOLEAN] /\ goal' \in [Axis -> Duties] /\ active' \in [Axis -> Duties]
    BY <1>1, <1>4, LoopOutputStep
  <1>6. ShellTypes'
    BY <1>1, <1>2, <1>4, <1>5 DEF ShellTypes
  <1> QED
    BY <1>5, <1>6 DEF ShellInv

(* mtpwm: its coil counts as driven by hand from the first step.           *)
LEMMA MtPwmStep ==
  ASSUME ShellInv, NEW a \in Axis, NEW d \in Duties, MtPwm(a, d)
  PROVE  ShellInv'
  <1>1. /\ UNCHANGED <<ramp_axis, next_ua, setpoint, feedback, integral, active, phase_state, phase_pin,
                       pwm, decided, periods>>
        /\ sh' = "pwm_phase" /\ by_hand' = by_hand \cup {a} /\ goal' = [goal EXCEPT ![a] = d]
    BY DEF MtPwm, ramp, drive
  <1>2. cmd' = [axis |-> a, value |-> d, i |-> 0, duty |-> 0]
    BY DEF MtPwm, NoCommand
  <1>3. 0 \in Axis /\ 0 \in Duties /\ d \in Int
    BY DutyFacts, ExploreAssumption, PwmAssumption, ControlAssumption DEF Axis, Duties
  <1>4. ShellTypes'
    BY <1>1, <1>2, <1>3 DEF ShellInv, ShellTypes
  <1>5. CoilTypes' /\ CoilInv'
    BY <1>1 DEF ShellInv, CoilTypes, CoilInv, PulseWithinPeriod, CoilOutputs
  <1>6. HandInv'
    BY <1>1, <1>2 DEF HandInv
  <1>7. RestInv'
    BY <1>1 DEF ShellInv, ShellTypes, RestInv
  <1> QED
    BY <1>4, <1>5, <1>6, <1>7 DEF ShellInv

(* What mtpwm then writes is of that coil only.                            *)
LEMMA MtPwmContinues ==
  ASSUME ShellInv, MtPwmPhase \/ MtPwmPulse \/ MtPwmActive
  PROVE  ShellInv'
  <1>1. /\ UNCHANGED <<ramp_axis, next_ua, setpoint, feedback, integral, goal, phase_state, decided,
                       periods, by_hand>>
        /\ ShellTypes /\ CoilTypes /\ cmd.axis \in by_hand /\ cmd.value \in Duties /\ cmd.axis \in Axis
    BY DEF MtPwmPhase, MtPwmPulse, MtPwmActive, ShellRuns, ShellInv, ShellTypes, HandInv, ramp
  <1>2. \A a \in Axis \ by_hand :
          phase_pin'[a] = phase_pin[a] /\ pwm'[a] = pwm[a] /\ active'[a] = active[a]
    BY <1>1 DEF MtPwmPhase, MtPwmPulse, MtPwmActive, CoilTypes, ShellTypes
  <1>3. \/ sh' \in {"pwm_pulse", "pwm_active"} /\ cmd' = cmd
        \/ sh' = "idle" /\ cmd' = NoCommand
    BY DEF MtPwmPhase, MtPwmPulse, MtPwmActive
  <1>4. active' \in [Axis -> Duties] /\ phase_pin' \in [Axis -> BOOLEAN]
    <2>1. (cmd.value < 0) \in BOOLEAN
      OBVIOUS
    <2> QED
      BY <1>1, <2>1 DEF MtPwmPhase, MtPwmPulse, MtPwmActive, CoilTypes, ShellTypes
  <1>5. pwm' \in [Axis -> [period : Nat, pulse : Nat]] /\ PulseWithinPeriod'
    <2>1. CASE pwm' = pwm
      BY <2>1 DEF ShellInv, CoilTypes, CoilInv, PulseWithinPeriod
    <2>2. CASE MtPwmPulse
      <3> DEFINE c == Cycles(cmd.axis, periods[cmd.axis], Abs(cmd.value))
      <3>1. c \in [period : Nat, pulse : Nat] /\ c.pulse <= c.period
        BY <1>1, CyclesFit DEF ShellTypes
      <3>2. pwm' = [pwm EXCEPT ![cmd.axis] = c]
        BY <2>2 DEF MtPwmPulse
      <3> HIDE DEF c
      <3> QED
        BY <1>1, <3>1, <3>2 DEF ShellInv, CoilTypes, CoilInv, PulseWithinPeriod
    <2> QED
      BY <2>1, <2>2 DEF MtPwmPhase, MtPwmActive
  <1>6. ShellTypes'
    <2>1. NoCommand \in [axis : Axis, value : Int, i : Axis, duty : Duties]
      BY DutyFacts, ExploreAssumption, PwmAssumption DEF NoCommand, Axis
    <2> QED
      BY <1>1, <1>3, <1>4, <2>1 DEF ShellTypes
  <1>7. CoilTypes' /\ CoilInv'
    BY <1>1, <1>2, <1>4, <1>5 DEF ShellInv, CoilTypes, CoilInv, CoilOutputs
  <1>8. HandInv' /\ RestInv'
    BY <1>1, <1>2, <1>3 DEF ShellInv, HandInv, RestInv
  <1> QED
    BY <1>6, <1>7, <1>8 DEF ShellInv

LEMMA ResetGoalStep ==
  ASSUME ShellInv, ResetGoal
  PROVE  ShellInv'
  <1>1. /\ UNCHANGED <<cmd, ramp_axis, next_ua, setpoint, feedback, integral, active, phase_state,
                       phase_pin, pwm, decided, periods, by_hand>>
        /\ sh' = "output" /\ goal' = [goal EXCEPT ![ramp_axis] = 0]
    BY DEF ResetGoal, ramp, drive
  <1>2. ShellTypes'
    BY <1>1, DutyFacts DEF ShellInv, ShellTypes
  <1>3. CoilTypes' /\ CoilInv' /\ HandInv'
    BY <1>1 DEF ShellInv, CoilTypes, CoilInv, PulseWithinPeriod, CoilOutputs, HandInv
  <1>4. RestInv'
    BY <1>1 DEF ShellInv, ShellTypes, RestInv
  <1> QED
    BY <1>2, <1>3, <1>4 DEF ShellInv

(* The goal the shell takes of a coil that is not driven by hand is rest.  *)
LEMMA OutputTakeStep ==
  ASSUME ShellInv, OutputTake
  PROVE  ShellInv'
  <1>1. /\ UNCHANGED <<ramp_axis, next_ua, setpoint, feedback, integral, goal, active, phase_state,
                       phase_pin, pwm, decided, periods, by_hand>>
        /\ sh' = "locked" /\ cmd' = [cmd EXCEPT !.duty = goal[cmd.i]] /\ active[cmd.i] # goal[cmd.i]
    BY DEF OutputTake, ramp, drive
  <1>2. ShellTypes /\ cmd.i \in Axis /\ goal[cmd.i] \in Duties
    BY DEF ShellInv, ShellTypes
  <1>3. cmd'.i = cmd.i /\ cmd'.duty = goal[cmd.i] /\ cmd' \in [axis : Axis, value : Int, i : Axis, duty : Duties]
    BY <1>1, <1>2 DEF ShellTypes
  <1>4. ShellTypes'
    BY <1>1, <1>2, <1>3 DEF ShellTypes
  <1>5. CoilTypes' /\ CoilInv' /\ HandInv'
    BY <1>1 DEF ShellInv, CoilTypes, CoilInv, PulseWithinPeriod, CoilOutputs, HandInv
  <1>6. RestInv'
    BY <1>1, <1>3 DEF ShellInv, RestInv
  <1> QED
    BY <1>4, <1>5, <1>6 DEF ShellInv

LEMMA OutputLockedStep ==
  ASSUME ShellInv, OutputLocked
  PROVE  ShellInv'
  <1>1. /\ UNCHANGED <<cmd, ramp_axis, next_ua, setpoint, feedback, integral, goal, active, periods, by_hand>>
        /\ sh = "locked" /\ sh' = "output_active"
    BY DEF OutputLocked, ShellRuns, ramp
  <1>2. ShellTypes /\ cmd.i \in Axis /\ cmd.duty \in Duties
    BY DEF ShellInv, ShellTypes
  <1> DEFINE duty == [a \in Axis |-> cmd.duty]
  <1>3. DriveCoils({cmd.i}, duty) /\ duty \in [Axis -> Duties]
    BY <1>2 DEF OutputLocked
  <1>4. \A a \in Axis : duty[a] = cmd.duty
    OBVIOUS
  <1> HIDE DEF duty
  <1>5. /\ CoilTypes' /\ CoilInv' /\ phase_state' \in [Axis -> BOOLEAN]
        /\ \A a \in Axis : decided'[a] = IF a \in {cmd.i} THEN duty[a] ELSE decided[a]
    BY <1>1, <1>2, <1>3, DriveStep
  <1>6. ShellTypes' /\ HandInv'
    BY <1>1, <1>2, <1>5 DEF ShellTypes, HandInv
  <1>7. RestInv'
    BY <1>1, <1>4, <1>5 DEF ShellInv, RestInv
  <1> QED
    BY <1>5, <1>6, <1>7 DEF ShellInv

LEMMA OutputActiveStep ==
  ASSUME ShellInv, OutputActive
  PROVE  ShellInv'
  <1>1. /\ UNCHANGED <<ramp_axis, next_ua, setpoint, feedback, integral, goal, phase_state, phase_pin,
                       pwm, decided, periods, by_hand>>
        /\ sh = "output_active" /\ NextOutput(cmd) /\ active' = [active EXCEPT ![cmd.i] = goal[cmd.i]]
    BY DEF OutputActive, ShellRuns, ramp
  <1>2. /\ cmd' \in [axis : Axis, value : Int, i : Axis, duty : Duties]
        /\ sh' \in {"output", "set_axis"}
    BY <1>1, NextOutputType DEF ShellInv, ShellTypes
  <1>3. cmd.i \in Axis /\ goal[cmd.i] \in Duties /\ active' \in [Axis -> Duties]
    BY <1>1 DEF ShellInv, ShellTypes
  <1>4. ShellTypes'
    BY <1>1, <1>2, <1>3 DEF ShellInv, ShellTypes
  <1>5. CoilTypes' /\ CoilInv' /\ HandInv'
    BY <1>1, <1>2 DEF ShellInv, CoilTypes, CoilInv, PulseWithinPeriod, CoilOutputs, HandInv
  <1>6. RestInv'
    BY <1>1, <1>2, <1>3 DEF ShellInv, ShellTypes, RestInv
  <1> QED
    BY <1>4, <1>5, <1>6 DEF ShellInv

LEMMA ShellStep == ShellInv /\ [ExploreNext]_explore => ShellInv'
  <1> SUFFICES ASSUME ShellInv, [ExploreNext]_explore PROVE ShellInv'
    OBVIOUS
  <1>1. CASE QuietLoop \/ QuietShell
    BY <1>1, QuietLoopStep, QuietShellStep
  <1>2. CASE Off \/ LoopControl
    BY <1>2, OffStep, LoopControlStep
  <1>3. CASE \E w \in HandDuties : MtPwm(w[1], w[2])
    <2>1. PICK w \in HandDuties : MtPwm(w[1], w[2])
      BY <1>3
    <2>2. w[1] \in Axis /\ w[2] \in Duties
      BY ExploreAssumption DEF Duties
    <2> QED
      BY <2>1, <2>2, MtPwmStep
  <1>4. CASE MtPwmPhase \/ MtPwmPulse \/ MtPwmActive
    BY <1>4, MtPwmContinues
  <1>5. CASE ResetGoal \/ OutputTake \/ OutputLocked \/ OutputActive
    BY <1>5, ResetGoalStep, OutputTakeStep, OutputLockedStep, OutputActiveStep
  <1>6. CASE UNCHANGED explore
    <2>1. UNCHANGED <<sh, cmd, ramp_axis, next_ua, setpoint, feedback, integral, goal, active, phase_state,
                      phase_pin, pwm, decided, periods, by_hand>>
      BY <1>6 DEF explore, ramp, drive
    <2>2. ShellTypes'
      BY <2>1 DEF ShellInv, ShellTypes
    <2> QED
      BY <2>1, <2>2, QuietStep DEF drive
  <1> QED
    BY <1>1, <1>2, <1>3, <1>4, <1>5, <1>6
       DEF ExploreNext, Loop, Commands, Continue, QuietLoop, QuietShell

(* Whatever frequencies, duties and currents are typed and whatever the C3 *)
(* commands, no channel is given a pulse longer than its period.           *)
THEOREM PulseTheorem == ExploreSpec => []PulseWithinPeriod
  <1>1. ShellInv => PulseWithinPeriod
    BY DEF ShellInv, CoilInv
  <1> QED
    BY <1>1, ShellInitInv, ShellStep, PTL DEF ExploreSpec

(* The loop and a command of the shell never mix two outputs on a coil     *)
(* that is not driven by hand, and never drive one that counts as being at *)
(* rest.                                                                   *)
THEOREM OneOutputTheorem == ExploreSpec => []OneOutputPerCoil
  <1>1. ShellInv => OneOutputPerCoil
    <2> SUFFICES ASSUME ShellInv, NEW a \in Axis \ by_hand
                 PROVE  /\ phase_pin[a] = (decided[a] < 0)
                        /\ pwm[a].pulse = Pulse(pwm[a].period, Abs(decided[a]))
                        /\ active[a] = 0 => ~Driven(a)
      BY DEF OneOutputPerCoil
    <2>1. /\ phase_pin[a] = (decided[a] < 0)
          /\ pwm[a].pulse = Pulse(pwm[a].period, Abs(decided[a]))
          /\ pwm[a].period \in Nat
      BY DEF ShellInv, CoilInv, CoilTypes, CoilOutputs
    <2>2. ASSUME active[a] = 0 PROVE pwm[a].pulse = 0
      <3>1. decided[a] = 0
        BY <2>2 DEF ShellInv, RestInv
      <3> QED
        BY <2>1, <3>1, NoPulse DEF Abs
    <2> QED
      BY <2>1, <2>2 DEF Driven
  <1> QED
    BY <1>1, ShellInitInv, ShellStep, PTL DEF ExploreSpec

(* When the loop ends a ramp, its coil is at rest, wherever a command of   *)
(* the shell stands.                                                       *)
THEOREM RampTheorem == ExploreSpec => RampEndsAtRest
  <1> DEFINE AtRest == t_mt_loop /\ ~t_mt_loop' => ramp_axis \in by_hand \/ ~Driven(ramp_axis)'
  <1>1. ShellInv /\ [ExploreNext]_explore => [AtRest]_explore
    <2> SUFFICES ASSUME ShellInv, ShellInv', ExploreNext, t_mt_loop, ~t_mt_loop', ramp_axis \notin by_hand
                 PROVE  ~Driven(ramp_axis)'
      BY ShellStep
    <2>1. Off
      BY DEF ExploreNext, Loop, Commands, Continue, Dispatch, RampEnter, RampWait, RampAdd, RampStore,
             RampTest, AdcRead, CurrentRead, LoopControl, Wake, MtPwm, FrqPwm, Ua2Pwm, MtMode, MtModeAxis,
             MtPwmPhase, MtPwmPulse, MtPwmActive, Ua2PwmStore, ResetSetpoint, ResetGoal, OutputSkip,
             OutputTake, OutputLocked, OutputActive, SetRampAxis, SdoWrite, ramp
    <2>2. decided'[ramp_axis] = 0 /\ by_hand' = by_hand /\ ramp_axis' = ramp_axis /\ ramp_axis \in Axis
      BY <2>1, OffStep DEF Off, ShellInv, ShellTypes
    <2>3. /\ pwm'[ramp_axis].pulse = Pulse(pwm'[ramp_axis].period, Abs(decided'[ramp_axis]))
          /\ pwm'[ramp_axis].period \in Nat
      BY <2>2 DEF ShellInv, CoilInv, CoilTypes, CoilOutputs
    <2>4. pwm'[ramp_axis].pulse = 0
      BY <2>2, <2>3, NoPulse DEF Abs
    <2> QED
      BY <2>2, <2>4 DEF Driven
  <1> QED
    BY <1>1, ShellInitInv, ShellStep, PTL DEF ExploreSpec, RampEndsAtRest

-----------------------------------------------------------------------------
(* Calibration: the inductive invariant *)

CalibrationTypes ==
  /\ fitting \in Fittings
  /\ cal \in [Sensors -> [Axes -> Int]] /\ reading \in [Sensors -> [Axes -> Int]]
  /\ DOMAIN stored = Sensors
  /\ \A s \in Sensors : DOMAIN stored[s] \subseteq Axes /\ stored[s] \in [DOMAIN stored[s] -> Int]
  /\ depth \in [Sensors -> 0 .. HistLen] /\ samples \in 0 .. HistLen
  /\ reset_cal \in [Sensors -> BOOLEAN] /\ imu_data_ready \in BOOLEAN
  /\ commands \in [Sensors -> Nat] /\ done \subseteq Sensors

(* Only an option "reset" leads to a reset.                                *)
CommandInv ==
  /\ pc \in {"idle", "drain", "reset", "wait", "calibrate", "store"}
  /\ sensor \in Sensors
  /\ pc # "idle" => sensor \in Fitted /\ option \in fitting.options[sensor]
  /\ pc \in {"drain", "reset"} => option = "reset"
  /\ pc \in {"calibrate", "store"} => todo \subseteq Axes /\ todo # {}

(* The histories hold what has been counted.                               *)
DepthInv == \A s \in Fitted : samples <= depth[s]

(* Sensors that are calibrated without a reset.                            *)
Plain == {s \in Fitted : "reset" \notin fitting.options[s]}

Rest(s) == Read(s, Level[s])

Busy(s) == pc # "idle" /\ sensor = s

(* An axis whose first calibration is still to come.                       *)
Ahead(s, k) ==
  \/ commands[s] = 0
  \/ Busy(s) /\ pc = "wait"
  \/ Busy(s) /\ pc = "calibrate" /\ k \in todo

SampledInv(s) ==
  /\ ~reset_cal[s]
  /\ imu_data_ready => depth[s] > 0
  /\ Busy(s) /\ pc = "calibrate" => depth[s] > 0
  /\ commands[s] = 0 => ~Busy(s) /\ DOMAIN stored[s] = {} /\ s \notin done

AxisInv(s, k) ==
  /\ cal[s][k] \in {0, Offset(s)[k]}
  /\ Ahead(s, k) => cal[s][k] = 0 /\ (depth[s] > 0 => reading[s][k] = Rest(s)[k])
  /\ Busy(s) /\ ~Ahead(s, k) => cal[s][k] = Offset(s)[k]
  /\ k \in DOMAIN stored[s] => stored[s][k] = Offset(s)[k]

(* The axes that a command has stored are in flash, in the end all.        *)
StoredInv(s) ==
  /\ Busy(s) /\ pc = "store" => Axes \ todo \subseteq DOMAIN stored[s]
  /\ s \in done => ~Busy(s) /\ cal[s] = Offset(s) /\ stored[s] = Offset(s)

FirstInv(s) ==
  /\ SampledInv(s)
  /\ commands[s] <= 1 =>
       /\ \A k \in Axes : AxisInv(s, k)
       /\ StoredInv(s)
       /\ ~Busy(s) /\ fitting.imu = "bmi" => cal[s] \in {Zero, Offset(s)}

CalibrationInv ==
  CalibrationTypes /\ CommandInv /\ DepthInv /\ \A s \in Plain : FirstInv(s)

-----------------------------------------------------------------------------
(* What is read at rest *)

LEMMA TruncDivInt ==
  ASSUME NEW a \in Int, NEW b \in Nat \ {0}
  PROVE  TruncDiv(a, b) \in Int
  BY DEF TruncDiv

LEMMA WrapSignedKeeps ==
  ASSUME NEW v \in Word
  PROVE  WrapSigned(v) = v
  <1>1. v - IntMin \in 0 .. Modulus - 1
    BY IntMaxAssumption DEF Word, IntMin, Modulus
  <1>2. \A m \in Nat \ {0} : \A n \in 0 .. m - 1 : n % m = n
    BY Z3
  <1>3. (v - IntMin) % Modulus = v - IntMin
    BY <1>1, <1>2, WordFacts
  <1> QED
    BY <1>3, WordFacts DEF WrapSigned, Word

(* Of the BMI270, the conversion of a value and back loses less than two   *)
(* roundings towards zero.                                                 *)
LEMMA AccelConversion ==
  ASSUME NEW x \in Int
  PROVE  LET read == ChannelAccelConvert(DriverAccel(x))
         IN  /\ read \in Int /\ read - x <= 1 /\ x - read <= 1
             /\ (x >= 0 => read <= x /\ read >= 0) /\ (x <= 0 => read >= x /\ read <= 0)
  <1> DEFINE q == DriverAccel(x)
             p == ChannelAccelConvert(q)
  <1>1. /\ q \in Int
        /\ x >= 0 => q >= 0 /\ q * 200 <= x * 196133 /\ x * 196133 <= q * 200 + 199
        /\ x <= 0 => q <= 0 /\ q * 200 >= x * 196133 /\ x * 196133 >= q * 200 - 199
    BY Z3 DEF DriverAccel, TruncDiv, SENSOR_G
  <1>2. /\ p \in Int
        /\ q >= 0 => p >= 0 /\ p * 980665 <= q * 1000 /\ q * 1000 <= p * 980665 + 980664
        /\ q <= 0 => p <= 0 /\ p * 980665 >= q * 1000 /\ q * 1000 >= p * 980665 - 980664
    <2> HIDE DEF q
    <2> QED
      BY <1>1, Z3 DEF ChannelAccelConvert, TruncDiv, SENSOR_G
  <1> HIDE DEF q, p
  <1>3. /\ p - x <= 1 /\ x - p <= 1
        /\ (x >= 0 => p <= x /\ p >= 0) /\ (x <= 0 => p >= x /\ p <= 0)
    BY <1>1, <1>2, Z3
  <1> QED
    BY <1>2, <1>3 DEF p, q

LEMMA GyroConversion ==
  ASSUME NEW x \in Int
  PROVE  LET read == ChannelGyroConvert(DriverGyro(x))
         IN  /\ read \in Int /\ read - x <= 1 /\ x - read <= 1
             /\ (x >= 0 => read <= x /\ read >= 0) /\ (x <= 0 => read >= x /\ read <= 0)
  <1> DEFINE q == DriverGyro(x)
             p == ChannelGyroConvert(q)
  <1>1. /\ q \in Int
        /\ x >= 0 => q >= 0 /\ q * 9000 <= x * 15708 /\ x * 15708 <= q * 9000 + 8999
        /\ x <= 0 => q <= 0 /\ q * 9000 >= x * 15708 /\ x * 15708 >= q * 9000 - 8999
    BY Z3 DEF DriverGyro, TruncDiv, SENSOR_PI
  <1>2. /\ p \in Int
        /\ q >= 0 => p >= 0 /\ p * 15708 <= q * 9000 /\ q * 9000 <= p * 15708 + 15707
        /\ q <= 0 => p <= 0 /\ p * 15708 >= q * 9000 /\ q * 9000 >= p * 15708 - 15707
    <2> HIDE DEF q
    <2> QED
      BY <1>1, Z3 DEF ChannelGyroConvert, TruncDiv, SENSOR_PI
  <1> HIDE DEF q, p
  <1>3. /\ p - x <= 1 /\ x - p <= 1
        /\ (x >= 0 => p <= x /\ p >= 0) /\ (x <= 0 => p >= x /\ p <= 0)
    BY <1>1, <1>2, Z3
  <1> QED
    BY <1>2, <1>3 DEF p, q

LEMMA AbsWithin ==
  ASSUME NEW x \in Int, NEW b \in Int
  PROVE  Abs(x) <= b <=> -b <= x /\ x <= b
  BY DEF Abs

LEMMA WrapSignedWord ==
  ASSUME NEW v \in Int
  PROVE  WrapSigned(v) \in Word
  <1>1. \A n \in Int, m \in Nat \ {0} : n % m \in 0 .. m - 1
    BY Z3
  <1>2. (v - IntMin) % Modulus \in 0 .. Modulus - 1
    BY <1>1, WordFacts
  <1> QED
    BY <1>2, IntMaxAssumption DEF WrapSigned, Word, IntMin, Modulus

LEMMA ShiftedWordInt ==
  ASSUME NEW b0, NEW b1
  PROVE  ShiftedWord(b0, b1) \in Int
  <1>1. BitOr(b0, b1) \in Int
    BY DEF BitOr
  <1> QED
    BY <1>1 DEF ShiftedWord

LEMMA LevelType == Level \in [Sensors -> [Axes -> Int]]
  BY CalibrationAssumption

LEMMA RestType ==
  ASSUME fitting \in Fittings, NEW s \in Sensors
  PROVE  Rest(s) \in [Axes -> Int] /\ Offset(s) \in [Axes -> Int]
  <1> DEFINE v == Sensed(s, Level[s])
  <1>1. v \in [Axes -> Int] /\ Level[s] \in [Axes -> Int]
    BY LevelType, CalibrationAssumption DEF Sensed
  <1> HIDE DEF v
  <1>2. ReadGyroDataIcm(IcmCounts(v)) \in [Axes -> Int]
    <2> DEFINE counts == IcmCounts(v)
    <2>1. DOMAIN counts = Axes
      BY <1>1 DEF IcmCounts
    <2> HIDE DEF counts
    <2>2. \A k \in Axes : WrapSigned(ShiftedWord(LowByte(counts[k]), HighByte(counts[k]))) \in Int
      BY ShiftedWordInt, WrapSignedInt
    <2>3. ReadGyroDataIcm(counts) \in [Axes -> Int]
      BY <2>1, <2>2 DEF ReadGyroDataIcm
    <2> QED
      BY <2>3 DEF counts
  <1>3. \A x \in Int : DriverAccel(x) \in Int /\ DriverGyro(x) \in Int
    BY TruncDivInt DEF DriverAccel, DriverGyro, SENSOR_G, SENSOR_PI
  <1>4. \A x \in Int : ChannelAccelConvert(x) \in Int /\ ChannelGyroConvert(x) \in Int
    BY TruncDivInt DEF ChannelAccelConvert, ChannelGyroConvert, SENSOR_G, SENSOR_PI
  <1>5. Driver(s, v) \in [Axes -> Int]
    BY <1>1, <1>3 DEF Driver
  <1>6. /\ ReadAccelData(Driver(s, v)) \in [Axes -> Int]
        /\ ReadGyroData(Driver(s, v)) \in [Axes -> Int]
    BY <1>4, <1>5 DEF ReadAccelData, ReadGyroData
  <1>7. Rest(s) \in [Axes -> Int]
    <2>1. fitting.imu \in {"bmi", "icm"} /\ s \in {"accel", "gyro"}
      BY CalibrationAssumption DEF Sensors
    <2> QED
      BY <1>2, <1>6, <2>1 DEF Rest, Read, v
  <1> QED
    BY <1>1, <1>7 DEF Offset, Rest

(* Whatever the ICM makes of its registers fits a word.                    *)
LEMMA IcmRest ==
  ASSUME fitting.imu = "icm", NEW s \in Sensors, NEW k \in Axes
  PROVE  Rest(s)[k] \in Word
  <1> DEFINE counts == IcmCounts(Sensed(s, Level[s]))
  <1>1. Rest(s) = ReadGyroDataIcm(counts)
    BY DEF Rest, Read
  <1>2. DOMAIN counts = Axes
    <2>1. DOMAIN Sensed(s, Level[s]) = Axes
      BY DEF Sensed
    <2> QED
      BY <2>1 DEF IcmCounts
  <1> HIDE DEF counts
  <1>3. Rest(s)[k] = WrapSigned(ShiftedWord(LowByte(counts[k]), HighByte(counts[k])))
    BY <1>1, <1>2 DEF ReadGyroDataIcm
  <1> QED
    BY <1>3, ShiftedWordInt, WrapSignedWord

LEMMA FittingStays ==
  ASSUME UNCHANGED fitting
  PROVE  /\ Fitted' = Fitted /\ Plain' = Plain
         /\ \A s \in Sensors : Rest(s)' = Rest(s) /\ Offset(s)' = Offset(s)
  BY DEF Fitted, Plain, Rest, Offset, Read

LEMMA LessType ==
  ASSUME CalibrationTypes, NEW s \in Sensors
  PROVE  Less(s, Rest(s)) \in [Axes -> Int]
  <1> DEFINE r == [k \in Axes |-> Rest(s)[k] - cal[s][k]]
  <1>1. r \in [Axes -> Int]
    BY RestType DEF CalibrationTypes
  <1>2. Int16(r) \in [Axes -> Int]
    BY <1>1, WrapSignedInt DEF Int16
  <1> QED
    BY <1>1, <1>2 DEF Less

(* A sensor without an offset is sampled as it reads.                      *)
LEMMA LessNothing ==
  ASSUME CalibrationTypes, NEW s \in Fitted, NEW k \in Axes, cal[s][k] = 0
  PROVE  Less(s, Rest(s))[k] = Rest(s)[k]
  <1> DEFINE r == [l \in Axes |-> Rest(s)[l] - cal[s][l]]
  <1>1. s \in Sensors /\ r[k] = Rest(s)[k]
    BY RestType DEF CalibrationTypes, Fitted
  <1>2. CASE fitting.imu = "icm"
    <2>2. Rest(s)[k] \in Word
      BY <1>1, <1>2, IcmRest
    <2>3. Less(s, Rest(s))[k] = WrapSigned(r[k])
      BY <1>2 DEF Less, Int16
    <2> QED
      BY <1>1, <2>2, <2>3, WrapSignedKeeps
  <1>3. CASE fitting.imu # "icm"
    BY <1>1, <1>3 DEF Less
  <1> QED
    BY <1>2, <1>3

(* The axis that a command does next.                                      *)
LEMMA NextAxis ==
  ASSUME todo \subseteq Axes, todo # {}
  PROVE  (CHOOSE k \in todo : \A l \in todo : k <= l) \in todo
  <1>1. todo \subseteq 1 .. 3
    BY CalibrationAssumption
  <1>2. \E k \in todo : \A l \in todo : k <= l
    <2>1. CASE 1 \in todo
      BY <1>1, <2>1
    <2>2. CASE 1 \notin todo /\ 2 \in todo
      BY <1>1, <2>2
    <2>3. CASE 1 \notin todo /\ 2 \notin todo
      <3>1. \A l \in todo : l = 3
        BY <1>1, <2>3
      <3> QED
        BY <3>1
    <2> QED
      BY <2>1, <2>2, <2>3
  <1> QED
    BY <1>2

-----------------------------------------------------------------------------
(* Calibration: the steps of the threads *)

LEMMA CalibrationInitInv == Init => CalibrationInv
  <1> SUFFICES ASSUME Init PROVE CalibrationInv
    OBVIOUS
  <1>1. Zero \in [Axes -> Int] /\ \A k \in Axes : Zero[k] = 0
    BY DEF Zero
  <1>2. DOMAIN << >> = {}
    OBVIOUS
  <1> HIDE DEF Zero
  <1>3. CalibrationTypes
    <2>1. \A s \in Sensors : stored[s] = << >> /\ DOMAIN stored[s] = {}
      BY <1>2 DEF Init
    <2>2. << >> \in [{} -> Int]
      BY Z3
    <2>3. \A s \in Sensors : stored[s] \in [DOMAIN stored[s] -> Int]
      BY <2>1, <2>2
    <2>4. DOMAIN stored = Sensors
      BY DEF Init
    <2>5. cal \in [Sensors -> [Axes -> Int]] /\ reading \in [Sensors -> [Axes -> Int]]
      BY <1>1 DEF Init
    <2>6. 0 \in 0 .. HistLen
      BY CalibrationAssumption
    <2>8. /\ fitting \in Fittings /\ samples \in 0 .. HistLen /\ imu_data_ready \in BOOLEAN
          /\ depth \in [Sensors -> 0 .. HistLen] /\ commands \in [Sensors -> Nat] /\ done \subseteq Sensors
      BY <2>6 DEF Init
    <2>9. reset_cal \in [Sensors -> BOOLEAN]
      BY DEF Init
    <2>7. \A s \in Sensors : DOMAIN stored[s] \subseteq Axes
      BY <2>1
    <2> QED
      BY <2>3, <2>4, <2>5, <2>7, <2>8, <2>9 DEF CalibrationTypes
  <1>4. CommandInv /\ DepthInv
    BY DEF Init, CommandInv, DepthInv, Sensors, Fitted
  <1>5. ASSUME NEW s \in Plain PROVE FirstInv(s)
    <2>1. s \in Sensors /\ ~Busy(s) /\ DOMAIN stored[s] = {} /\ ~reset_cal[s] /\ ~imu_data_ready /\ s \notin done
      BY <1>2 DEF Init, Plain, Fitted, Busy
    <2>2. cal[s] = Zero /\ depth[s] = 0
      BY <2>1 DEF Init
    <2> QED
      BY <1>1, <2>1, <2>2 DEF FirstInv, SampledInv, AxisInv, StoredInv
  <1> QED
    BY <1>3, <1>4, <1>5 DEF CalibrationInv

(* What a step leaves alone of a sensor, of which no command is being      *)
(* carried out or whose command stays where it is, it does not disturb.    *)
LEMMA SensorUntouched ==
  ASSUME NEW s \in Plain, FirstInv(s), UNCHANGED fitting,
         cal'[s] = cal[s], stored'[s] = stored[s], reading'[s] = reading[s], depth'[s] = depth[s],
         reset_cal'[s] = reset_cal[s], commands'[s] = commands[s], s \in done' <=> s \in done,
         imu_data_ready' => imu_data_ready,
         (~Busy(s) /\ ~Busy(s)') \/ UNCHANGED <<pc, sensor, todo>>
  PROVE  FirstInv(s)'
  <1>1. s \in Sensors
    BY DEF Plain, Fitted
  <1>2. Offset(s)' = Offset(s) /\ Rest(s)' = Rest(s) /\ fitting' = fitting
    BY <1>1, FittingStays
  <1>3. Busy(s)' = Busy(s) /\ (Busy(s) => UNCHANGED <<pc, todo>>)
    BY DEF Busy
  <1>4. \A k \in Axes : Ahead(s, k)' <=> Ahead(s, k)
    BY <1>3 DEF Ahead
  <1>5. SampledInv(s)'
    BY <1>3 DEF FirstInv, SampledInv
  <1>6. \A k \in Axes : AxisInv(s, k) => AxisInv(s, k)'
    BY <1>2, <1>3, <1>4 DEF AxisInv
  <1>7. StoredInv(s) => StoredInv(s)'
    BY <1>2, <1>3 DEF StoredInv
  <1> QED
    BY <1>2, <1>3, <1>5, <1>6, <1>7 DEF FirstInv, Zero

LEMMA HandleResetsStep == CalibrationInv /\ HandleResets => CalibrationInv'
  <1> SUFFICES ASSUME CalibrationInv, HandleResets PROVE CalibrationInv'
    OBVIOUS
  <1>1. UNCHANGED <<fitting, stored, imu_data_ready, reading, pc, sensor, option, todo, commands, done>>
    BY DEF HandleResets, shell
  <1>2. CalibrationTypes'
    <2>1. Zero \in [Axes -> Int]
      BY DEF Zero
    <2>2. /\ cal' = [s \in Sensors |-> IF reset_cal[s] THEN Zero ELSE cal[s]]
          /\ depth' = [s \in Sensors |-> IF reset_cal[s] THEN 0 ELSE depth[s]]
          /\ samples' \in {0, samples} /\ reset_cal' = [s \in Sensors |-> FALSE]
      BY DEF HandleResets
    <2>3. cal' \in [Sensors -> [Axes -> Int]] /\ depth' \in [Sensors -> 0 .. HistLen]
          /\ samples' \in 0 .. HistLen /\ reset_cal' \in [Sensors -> BOOLEAN]
      BY <2>1, <2>2, CalibrationAssumption DEF CalibrationInv, CalibrationTypes
    <2> QED
      BY <1>1, <2>3 DEF CalibrationInv, CalibrationTypes
  <1>3. CommandInv'
    BY <1>1, FittingStays DEF CalibrationInv, CommandInv
  <1>4. DepthInv'
    <2> SUFFICES ASSUME NEW s \in Fitted PROVE samples' <= depth'[s]
      BY <1>1, FittingStays DEF DepthInv
    <2>1. s \in Sensors
      BY DEF Fitted
    <2> QED
      BY <2>1, CalibrationAssumption DEF HandleResets, CalibrationInv, CalibrationTypes, DepthInv
  <1>5. ASSUME NEW s \in Plain PROVE FirstInv(s)'
    <2>1. s \in Sensors /\ FirstInv(s) /\ ~reset_cal[s]
      BY DEF CalibrationInv, FirstInv, SampledInv, Plain, Fitted
    <2>2. cal'[s] = cal[s] /\ depth'[s] = depth[s] /\ reset_cal'[s] = reset_cal[s]
      BY <2>1 DEF HandleResets, CalibrationInv, CalibrationTypes
    <2> QED
      BY <1>1, <2>1, <2>2, SensorUntouched
  <1> QED
    BY <1>1, <1>2, <1>3, <1>4, <1>5, FittingStays DEF CalibrationInv

(* The readings of some sensors are taken, and the semaphore may be given  *)
(* once all have been.                                                     *)
LEMMA SampleStep ==
  ASSUME CalibrationInv, NEW read \in SUBSET Sensors, Sample(read),
         UNCHANGED <<fitting, stored, cal, reset_cal, pc, sensor, option, todo, commands, done>>,
         imu_data_ready' \in BOOLEAN, imu_data_ready' => imu_data_ready \/ Fitted \subseteq read,
         samples' \in 0 .. HistLen, samples' <= samples \/ (samples' <= samples + 1 /\ Fitted \subseteq read)
  PROVE  CalibrationInv'
  <1>1. \A s \in Sensors : Less(s, Rest(s)) \in [Axes -> Int]
    BY LessType DEF CalibrationInv
  <1>2. /\ reading' = [s \in Sensors |-> IF s \in read THEN Less(s, Rest(s)) ELSE reading[s]]
        /\ depth' = [s \in Sensors |->
                       IF s \in read /\ depth[s] < HistLen THEN depth[s] + 1 ELSE depth[s]]
    BY DEF Sample, Rest
  <1>3. CalibrationTypes'
    <2>1. reading' \in [Sensors -> [Axes -> Int]] /\ depth' \in [Sensors -> 0 .. HistLen]
      BY <1>1, <1>2, CalibrationAssumption DEF CalibrationInv, CalibrationTypes
    <2> QED
      BY <2>1 DEF CalibrationInv, CalibrationTypes
  <1>4. CommandInv'
    BY FittingStays DEF CalibrationInv, CommandInv
  <1>5. DepthInv'
    <2> SUFFICES ASSUME NEW s \in Fitted PROVE samples' <= depth'[s]
      BY FittingStays DEF DepthInv
    <2>1. s \in Sensors
      BY DEF Fitted
    <2>2. samples <= depth[s] /\ depth[s] \in 0 .. HistLen /\ samples \in 0 .. HistLen
      BY <2>1 DEF CalibrationInv, CalibrationTypes, DepthInv
    <2> QED
      BY <1>2, <2>1, <2>2, CalibrationAssumption
  <1>6. ASSUME NEW s \in Plain PROVE FirstInv(s)'
    <2>1. s \in Sensors /\ s \in Fitted /\ FirstInv(s)
      BY DEF CalibrationInv, Plain, Fitted
    <2>2. Offset(s)' = Offset(s) /\ Rest(s)' = Rest(s)
      BY <2>1, FittingStays
    <2>3. Busy(s)' = Busy(s) /\ \A k \in Axes : Ahead(s, k)' <=> Ahead(s, k)
      BY DEF Busy, Ahead
    <2>4. depth[s] \in 0 .. HistLen
      BY <2>1 DEF CalibrationInv, CalibrationTypes
    <2>5. CASE s \in read
      <3>1. depth'[s] > 0 /\ reading'[s] = Less(s, Rest(s))
        BY <1>2, <2>1, <2>4, <2>5, CalibrationAssumption
      <3>2. SampledInv(s)'
        BY <2>1, <2>3, <3>1 DEF FirstInv, SampledInv
      <3>3. ASSUME NEW k \in Axes, AxisInv(s, k) PROVE AxisInv(s, k)'
        <4>1. Ahead(s, k) => reading'[s][k] = Rest(s)[k]
          BY <2>1, <3>1, <3>3, LessNothing DEF AxisInv, CalibrationInv
        <4> QED
          BY <2>2, <2>3, <3>3, <4>1 DEF AxisInv
      <3>4. StoredInv(s) => StoredInv(s)'
        BY <2>2, <2>3 DEF StoredInv
      <3> QED
        BY <2>1, <2>2, <2>3, <3>2, <3>3, <3>4 DEF FirstInv, Zero
    <2>6. CASE s \notin read
      <3>1. depth'[s] = depth[s] /\ reading'[s] = reading[s] /\ (imu_data_ready' => imu_data_ready)
        BY <1>2, <2>1, <2>6
      <3> QED
        BY <2>1, <3>1, SensorUntouched
    <2> QED
      BY <2>5, <2>6
  <1> QED
    BY <1>3, <1>4, <1>5, <1>6, FittingStays DEF CalibrationInv

LEMMA ProcessDataStep == CalibrationInv /\ ProcessData => CalibrationInv'
  <1> SUFFICES ASSUME CalibrationInv, ProcessData PROVE CalibrationInv'
    OBVIOUS
  <1>1. UNCHANGED <<fitting, stored, cal, reset_cal, pc, sensor, option, todo, commands, done>> /\ Sample(Fitted)
    BY DEF ProcessData, shell
  <1>2. samples \in 0 .. HistLen /\ imu_data_ready \in BOOLEAN
    BY DEF CalibrationInv, CalibrationTypes
  <1>3. imu_data_ready' \in BOOLEAN /\ samples' \in 0 .. HistLen /\ samples' <= samples + 1
    <2>1. CASE samples + 1 > HistLen
      <3>1. samples' = 0 /\ imu_data_ready' = TRUE
        BY <2>1 DEF ProcessData
      <3> QED
        BY <1>2, <3>1, CalibrationAssumption
    <2>2. CASE ~(samples + 1 > HistLen)
      <3>1. samples' = samples + 1 /\ imu_data_ready' = imu_data_ready
        BY <2>2 DEF ProcessData
      <3> QED
        BY <1>2, <2>2, <3>1, CalibrationAssumption
    <2> QED
      BY <2>1, <2>2
  <1>4. Fitted \in SUBSET Sensors /\ (samples' <= samples \/ samples' <= samples + 1)
    BY <1>3 DEF Fitted
  <1> QED
    BY <1>1, <1>3, <1>4, SampleStep

LEMMA ReadFailsStep == CalibrationInv /\ (ReadFailsBmi \/ ReadFailsIcm) => CalibrationInv'
  <1> SUFFICES ASSUME CalibrationInv, NEW first \in Sensors, ReadFails(first)
               PROVE  CalibrationInv'
    BY DEF ReadFailsBmi, ReadFailsIcm, Sensors
  <1>1. PICK read \in {{}, {first}} : Sample(read)
    BY DEF ReadFails
  <1>2. /\ UNCHANGED <<fitting, stored, cal, reset_cal, pc, sensor, option, todo, commands, done>>
        /\ UNCHANGED <<samples, imu_data_ready>>
    BY DEF ReadFails, shell
  <1>3. samples \in 0 .. HistLen /\ imu_data_ready \in BOOLEAN
    BY DEF CalibrationInv, CalibrationTypes
  <1> QED
    BY <1>1, <1>2, <1>3, SampleStep

LEMMA RestartStep == CalibrationInv /\ Restart => CalibrationInv'
  <1> SUFFICES ASSUME CalibrationInv, Restart PROVE CalibrationInv'
    OBVIOUS
  <1>1. /\ UNCHANGED <<fitting, stored, sensor, option, commands, done>>
        /\ pc' = "idle" /\ samples' = 0 /\ imu_data_ready' = FALSE
        /\ cal' = [s \in Sensors |-> Load(stored[s])] /\ reading' = [s \in Sensors |-> Zero]
        /\ depth' = [s \in Sensors |-> 0] /\ reset_cal' = [s \in Sensors |-> FALSE]
    BY DEF Restart
  <1>2. Zero \in [Axes -> Int] /\ \A k \in Axes : Zero[k] = 0
    BY DEF Zero
  <1>3. \A s \in Sensors : DOMAIN stored[s] \subseteq Axes /\ stored[s] \in [DOMAIN stored[s] -> Int]
    BY DEF CalibrationInv, CalibrationTypes
  <1>4. \A s \in Sensors : Load(stored[s]) \in [Axes -> Int]
    <2> SUFFICES ASSUME NEW s \in Sensors PROVE Load(stored[s]) \in [Axes -> Int]
      OBVIOUS
    <2>1. LoadEachKey(stored[s]) \in [Axes -> Int]
      BY <1>3 DEF LoadEachKey
    <2>2. LoadAllOrNone(stored[s]) \in [Axes -> Int]
      BY <1>2, <1>3 DEF LoadAllOrNone
    <2> QED
      BY <2>1, <2>2 DEF Load
  <1>5. CalibrationTypes'
    <2>1. cal' \in [Sensors -> [Axes -> Int]]
      BY <1>1, <1>4
    <2>2. reading' \in [Sensors -> [Axes -> Int]]
      BY <1>1, <1>2
    <2>3. 0 \in 0 .. HistLen
      BY CalibrationAssumption
    <2>4. depth' \in [Sensors -> 0 .. HistLen] /\ reset_cal' \in [Sensors -> BOOLEAN]
      BY <1>1, <2>3
    <2> QED
      BY <1>1, <2>1, <2>2, <2>3, <2>4 DEF CalibrationInv, CalibrationTypes
  <1>6. CommandInv' /\ DepthInv'
    BY <1>1, FittingStays DEF CalibrationInv, CommandInv, DepthInv, Fitted
  <1>7. ASSUME NEW s \in Plain PROVE FirstInv(s)'
    <2>1. s \in Sensors /\ FirstInv(s)
      BY DEF CalibrationInv, Plain, Fitted
    <2>2. Offset(s)' = Offset(s) /\ Offset(s) \in [Axes -> Int]
      BY <1>1, <2>1, FittingStays, RestType DEF CalibrationInv, CalibrationTypes
    <2>3. /\ ~Busy(s)' /\ cal'[s] = Load(stored[s]) /\ depth'[s] = 0 /\ ~reset_cal'[s]
          /\ ~imu_data_ready' /\ stored'[s] = stored[s] /\ commands'[s] = commands[s]
      BY <1>1, <2>1 DEF Busy
    <2>4. SampledInv(s)'
      BY <1>1, <2>1, <2>3 DEF FirstInv, SampledInv
    <2>5. ASSUME commands[s] <= 1, NEW k \in Axes PROVE AxisInv(s, k)'
      <3>1. AxisInv(s, k)
        BY <2>1, <2>5 DEF FirstInv
      <3>2. cal'[s][k] \in {0, Offset(s)[k]}
        <4>1. LoadEachKey(stored[s])[k] \in {0, Offset(s)[k]}
          BY <3>1 DEF LoadEachKey, AxisInv
        <4>2. LoadAllOrNone(stored[s])[k] \in {0, Offset(s)[k]}
          BY <1>2, <3>1 DEF LoadAllOrNone, AxisInv
        <4> QED
          BY <2>3, <4>1, <4>2 DEF Load
      <3>3. Ahead(s, k)' => cal'[s][k] = 0
        <4> SUFFICES ASSUME commands[s] = 0 PROVE cal'[s][k] = 0
          BY <2>3 DEF Ahead
        <4>1. DOMAIN stored[s] = {}
          BY <2>1 DEF FirstInv, SampledInv
        <4>2. LoadEachKey(stored[s])[k] = 0 /\ LoadAllOrNone(stored[s])[k] = 0
          BY <1>2, <4>1 DEF LoadEachKey, LoadAllOrNone
        <4> QED
          BY <2>3, <4>2 DEF Load
      <3> QED
        BY <2>2, <2>3, <3>1, <3>2, <3>3 DEF AxisInv
    <2>6. ASSUME commands[s] <= 1, fitting.imu = "bmi" PROVE cal'[s] \in {Zero, Offset(s)}
      <3>1. cal'[s] = LoadAllOrNone(stored[s])
        BY <2>3, <2>6 DEF Load
      <3>2. ASSUME DOMAIN stored[s] = Axes PROVE stored[s] = Offset(s)
        <4>1. \A k \in Axes : stored[s][k] = Offset(s)[k]
          BY <2>1, <2>6, <3>2 DEF FirstInv, AxisInv
        <4> QED
          BY <1>3, <2>1, <2>2, <3>2, <4>1
      <3> QED
        BY <3>1, <3>2 DEF LoadAllOrNone
    <2>7. ASSUME commands[s] <= 1 PROVE StoredInv(s)'
      <3> SUFFICES ASSUME s \in done PROVE cal'[s] = Offset(s) /\ stored'[s] = Offset(s)
        BY <1>1, <2>2, <2>3 DEF StoredInv
      <3>1. stored[s] = Offset(s) /\ DOMAIN stored[s] = Axes
        BY <2>1, <2>2, <2>7 DEF FirstInv, StoredInv
      <3>2. LoadEachKey(stored[s]) = [k \in Axes |-> Offset(s)[k]]
        BY <3>1 DEF LoadEachKey
      <3>3. LoadEachKey(stored[s]) = Offset(s) /\ LoadAllOrNone(stored[s]) = Offset(s)
        BY <2>2, <3>1, <3>2 DEF LoadAllOrNone
      <3> QED
        BY <2>3, <3>1, <3>3 DEF Load
    <2> QED
      BY <1>1, <2>2, <2>3, <2>4, <2>5, <2>6, <2>7 DEF FirstInv, Zero
  <1> QED
    BY <1>1, <1>5, <1>6, <1>7, FittingStays DEF CalibrationInv

LEMMA EnterStep == CalibrationInv /\ Enter => CalibrationInv'
  <1> SUFFICES ASSUME CalibrationInv, Enter PROVE CalibrationInv'
    OBVIOUS
  <1>1. /\ UNCHANGED <<fitting, stored, cal, reset_cal, imu_data_ready, reading, depth, samples, todo, done>>
        /\ pc = "idle" /\ sensor' \in Fitted /\ option' \in fitting.options[sensor']
        /\ commands' = [commands EXCEPT ![sensor'] = @ + 1]
        /\ pc' = IF option' = "reset" THEN "drain" ELSE "wait"
    BY DEF Enter, imu_state
  <1>2. CalibrationTypes'
    <2>1. sensor' \in Sensors /\ commands \in [Sensors -> Nat]
      BY <1>1 DEF CalibrationInv, CalibrationTypes, Fitted
    <2>2. commands' \in [Sensors -> Nat]
      BY <1>1, <2>1
    <2> QED
      BY <1>1, <2>2 DEF CalibrationInv, CalibrationTypes
  <1>3. CommandInv' /\ DepthInv'
    BY <1>1, FittingStays DEF CalibrationInv, CommandInv, DepthInv, Fitted
  <1>4. ASSUME NEW s \in Plain PROVE FirstInv(s)'
    <2>1. s \in Sensors /\ FirstInv(s) /\ ~Busy(s) /\ commands[s] \in Nat
      BY <1>1 DEF CalibrationInv, CalibrationTypes, Plain, Fitted, Busy
    <2>2. CASE s # sensor'
      <3>1. commands'[s] = commands[s] /\ ~Busy(s)'
        BY <1>1, <2>1, <2>2 DEF CalibrationInv, CalibrationTypes, Busy
      <3> QED
        BY <1>1, <2>1, <3>1, SensorUntouched
    <2>3. CASE s = sensor'
      <3>1. commands'[s] = commands[s] + 1 /\ pc' = "wait" /\ Busy(s)'
        BY <1>1, <2>1, <2>3 DEF CalibrationInv, CalibrationTypes, Plain, Busy
      <3>2. \A k \in Axes : Ahead(s, k)'
        BY <3>1 DEF Ahead
      <3>3. SampledInv(s)'
        BY <1>1, <2>1, <3>1 DEF FirstInv, SampledInv
      <3>4. ASSUME commands'[s] <= 1, NEW k \in Axes PROVE AxisInv(s, k)'
        <4>1. commands[s] = 0 /\ AxisInv(s, k) /\ Ahead(s, k)
          BY <2>1, <3>1, <3>4 DEF FirstInv, Ahead
        <4>2. Offset(s)' = Offset(s) /\ Rest(s)' = Rest(s)
          BY <1>1, <2>1, FittingStays
        <4> QED
          BY <1>1, <3>2, <4>1, <4>2 DEF AxisInv
      <3>5. ASSUME commands'[s] <= 1 PROVE StoredInv(s)'
        BY <1>1, <2>1, <3>1, <3>5 DEF FirstInv, SampledInv, StoredInv
      <3> QED
        BY <3>1, <3>3, <3>4, <3>5 DEF FirstInv
    <2> QED
      BY <2>2, <2>3
  <1> QED
    BY <1>1, <1>2, <1>3, <1>4, FittingStays DEF CalibrationInv

(* The steps of a command before its data is there.                        *)
LEMMA ResetSteps == CalibrationInv /\ (Drain \/ DrainTimesOut \/ RequestReset) => CalibrationInv'
  <1> SUFFICES ASSUME CalibrationInv, Drain \/ DrainTimesOut \/ RequestReset PROVE CalibrationInv'
    OBVIOUS
  <1>1. /\ UNCHANGED <<fitting, stored, cal, reading, depth, samples, sensor, option, todo, commands, done>>
        /\ reset_cal' \in {reset_cal, [reset_cal EXCEPT ![sensor] = TRUE]}
        /\ UNCHANGED imu_data_ready \/ imu_data_ready' = FALSE
        /\ pc \in {"drain", "reset"} /\ pc' \in {"reset", "wait"}
    BY DEF Drain, DrainTimesOut, RequestReset, imu_state
  <1>2. pc # "idle" /\ sensor \in Fitted /\ option = "reset" /\ option \in fitting.options[sensor]
    BY <1>1 DEF CalibrationInv, CommandInv
  <1>3. CalibrationTypes'
    BY <1>1 DEF CalibrationInv, CalibrationTypes
  <1>4. CommandInv' /\ DepthInv'
    <2>1. Fitted' = Fitted
      BY <1>1, FittingStays
    <2>2. pc' = "reset" \/ pc' = "wait"
      BY <1>1
    <2> QED
      BY <1>1, <1>2, <2>1, <2>2 DEF CalibrationInv, CommandInv, DepthInv
  <1>5. ASSUME NEW s \in Plain PROVE FirstInv(s)'
    <2>1. s \in Sensors /\ FirstInv(s) /\ s # sensor
      BY <1>2 DEF CalibrationInv, Plain, Fitted
    <2>2. ~Busy(s) /\ ~Busy(s)' /\ reset_cal'[s] = reset_cal[s]
      BY <1>1, <2>1 DEF Busy, CalibrationInv, CalibrationTypes
    <2>3. /\ cal'[s] = cal[s] /\ stored'[s] = stored[s] /\ reading'[s] = reading[s]
          /\ depth'[s] = depth[s] /\ commands'[s] = commands[s] /\ UNCHANGED <<fitting, done>>
          /\ imu_data_ready' => imu_data_ready
      BY <1>1
    <2> QED
      BY <2>1, <2>2, <2>3, SensorUntouched
  <1> QED
    BY <1>1, <1>3, <1>4, <1>5, FittingStays DEF CalibrationInv

LEMMA DataTakenStep == CalibrationInv /\ DataTaken => CalibrationInv'
  <1> SUFFICES ASSUME CalibrationInv, DataTaken PROVE CalibrationInv'
    OBVIOUS
  <1>1. /\ UNCHANGED <<fitting, stored, cal, reset_cal, reading, depth, samples, sensor, option, commands, done>>
        /\ pc = "wait" /\ pc' = "calibrate" /\ todo' = Axes /\ imu_data_ready /\ ~imu_data_ready'
        /\ imu_data_ready' \in BOOLEAN
    BY DEF DataTaken, imu_state
  <1>2. CalibrationTypes'
    BY <1>1 DEF CalibrationInv, CalibrationTypes
  <1>3. CommandInv' /\ DepthInv'
    BY <1>1, FittingStays, CalibrationAssumption DEF CalibrationInv, CommandInv, DepthInv
  <1>4. ASSUME NEW s \in Plain PROVE FirstInv(s)'
    <2>1. s \in Sensors /\ FirstInv(s)
      BY DEF CalibrationInv, Plain, Fitted
    <2>2. Offset(s)' = Offset(s) /\ Rest(s)' = Rest(s)
      BY <1>1, <2>1, FittingStays
    <2>3. Busy(s)' = Busy(s) /\ \A k \in Axes : Ahead(s, k)' <=> Ahead(s, k)
      BY <1>1 DEF Busy, Ahead
    <2>4. SampledInv(s)'
      BY <1>1, <2>1, <2>3 DEF FirstInv, SampledInv
    <2>5. \A k \in Axes : AxisInv(s, k) => AxisInv(s, k)'
      BY <1>1, <2>2, <2>3 DEF AxisInv
    <2>6. StoredInv(s) => StoredInv(s)'
      BY <1>1, <2>2, <2>3 DEF StoredInv
    <2> QED
      BY <1>1, <2>1, <2>2, <2>3, <2>4, <2>5, <2>6 DEF FirstInv, Zero
  <1> QED
    BY <1>1, <1>2, <1>3, <1>4, FittingStays DEF CalibrationInv

LEMMA WaitTimesOutStep == CalibrationInv /\ WaitTimesOut => CalibrationInv'
  <1> SUFFICES ASSUME CalibrationInv, WaitTimesOut PROVE CalibrationInv'
    OBVIOUS
  <1>1. /\ UNCHANGED <<fitting, stored, cal, reset_cal, imu_data_ready, reading, depth, samples>>
        /\ UNCHANGED <<sensor, option, todo, commands, done>>
        /\ pc = "wait" /\ pc' = "idle"
    BY DEF WaitTimesOut, imu_state
  <1>2. CalibrationTypes'
    BY <1>1 DEF CalibrationInv, CalibrationTypes
  <1>3. CommandInv' /\ DepthInv'
    BY <1>1, FittingStays DEF CalibrationInv, CommandInv, DepthInv
  <1>4. ASSUME NEW s \in Plain PROVE FirstInv(s)'
    <2>1. s \in Sensors /\ FirstInv(s) /\ ~Busy(s)'
      BY <1>1 DEF CalibrationInv, Plain, Fitted, Busy
    <2>2. Offset(s)' = Offset(s) /\ Rest(s)' = Rest(s)
      BY <1>1, <2>1, FittingStays
    <2>3. \A k \in Axes : Ahead(s, k)' => Ahead(s, k)
      BY <1>1 DEF Busy, Ahead
    <2>4. SampledInv(s)'
      BY <1>1, <2>1 DEF FirstInv, SampledInv
    <2>5. \A k \in Axes : AxisInv(s, k) => AxisInv(s, k)'
      BY <1>1, <2>1, <2>2, <2>3 DEF AxisInv
    <2>6. ASSUME commands[s] <= 1, fitting.imu = "bmi" PROVE cal[s] \in {Zero, Offset(s)}
      <3>1. CASE ~Busy(s)
        BY <2>1, <2>6, <3>1 DEF FirstInv
      <3>2. CASE Busy(s)
        <4>1. \A k \in Axes : cal[s][k] = 0
          BY <1>1, <2>1, <2>6, <3>2 DEF FirstInv, AxisInv, Ahead
        <4> QED
          BY <2>1, <4>1 DEF Zero, CalibrationInv, CalibrationTypes
      <3> QED
        BY <3>1, <3>2
    <2>7. StoredInv(s) => StoredInv(s)'
      BY <1>1, <2>1, <2>2 DEF StoredInv
    <2> QED
      BY <1>1, <2>1, <2>2, <2>4, <2>5, <2>6, <2>7 DEF FirstInv, Zero
  <1> QED
    BY <1>1, <1>2, <1>3, <1>4, FittingStays DEF CalibrationInv

LEMMA CalibrateStep == CalibrationInv /\ Calibrate => CalibrationInv'
  <1> SUFFICES ASSUME CalibrationInv, Calibrate PROVE CalibrationInv'
    OBVIOUS
  <1>1. /\ UNCHANGED <<fitting, stored, reset_cal, imu_data_ready, reading, depth, samples>>
        /\ UNCHANGED <<sensor, option, commands, done>>
        /\ pc = "calibrate"
    BY DEF Calibrate, imu_state
  <1>2. sensor \in Fitted /\ sensor \in Sensors /\ todo \subseteq Axes /\ todo # {}
        /\ option \in fitting.options[sensor]
    BY <1>1 DEF CalibrationInv, CommandInv
  <1>3. PICK k \in todo :
          /\ cal' = [cal EXCEPT ![sensor][k] = reading[sensor][k] - Level[sensor][k]]
          /\ IF todo = {k} THEN pc' = "store" /\ todo' = Axes
                           ELSE todo' = todo \ {k} /\ UNCHANGED pc
    BY <1>2, NextAxis DEF Calibrate
  <1>4. k \in Axes /\ reading[sensor][k] - Level[sensor][k] \in Int
    <2>1. reading[sensor][k] \in Int /\ Level[sensor][k] \in Int
      BY <1>2, LevelType DEF CalibrationInv, CalibrationTypes
    <2> QED
      BY <1>2, <2>1
  <1>5. CalibrationTypes'
    <2>1. cal' \in [Sensors -> [Axes -> Int]]
      BY <1>2, <1>3, <1>4 DEF CalibrationInv, CalibrationTypes
    <2> QED
      BY <1>1, <2>1 DEF CalibrationInv, CalibrationTypes
  <1>6. CommandInv' /\ DepthInv'
    <2>1. todo' \subseteq Axes /\ todo' # {} /\ pc' \in {"calibrate", "store"}
      BY <1>1, <1>2, <1>3, CalibrationAssumption
    <2> QED
      BY <1>1, <1>2, <2>1, FittingStays DEF CalibrationInv, CommandInv, DepthInv
  <1>7. ASSUME NEW s \in Plain PROVE FirstInv(s)'
    <2>1. s \in Sensors /\ FirstInv(s)
      BY DEF CalibrationInv, Plain, Fitted
    <2>2. CASE s # sensor
      <3>1. ~Busy(s) /\ ~Busy(s)' /\ cal'[s] = cal[s]
        BY <1>1, <1>3, <2>1, <2>2 DEF Busy, CalibrationInv, CalibrationTypes
      <3> QED
        BY <1>1, <2>1, <3>1, SensorUntouched
    <2>3. CASE s = sensor
      <3>1. Offset(s)' = Offset(s) /\ Rest(s)' = Rest(s)
        BY <1>1, <2>1, FittingStays
      <3>2. Busy(s) /\ Busy(s)' /\ depth[s] > 0 /\ commands[s] # 0
        BY <1>1, <1>3, <2>1, <2>3 DEF Busy, FirstInv, SampledInv
      <3>3. \A l \in Axes : Ahead(s, l) <=> l \in todo
        BY <1>1, <3>2 DEF Ahead
      <3>4. \A l \in Axes : Ahead(s, l)' <=> l \in todo /\ l # k
        BY <1>1, <1>3, <3>2 DEF Ahead
      <3>5. SampledInv(s)'
        BY <1>1, <2>1, <3>2 DEF FirstInv, SampledInv
      <3>6. ASSUME commands[s] <= 1, NEW l \in Axes PROVE AxisInv(s, l)'
        <4>1. AxisInv(s, l)
          BY <2>1, <3>6 DEF FirstInv
        <4>2. CASE l = k
          <5>1. cal'[s][l] = reading[s][l] - Level[s][l] /\ reading[s][l] = Rest(s)[l]
            BY <1>2, <1>3, <2>3, <3>2, <3>3, <4>1, <4>2 DEF AxisInv, CalibrationInv, CalibrationTypes
          <5>2. cal'[s][l] = Offset(s)[l] /\ ~Ahead(s, l)'
            BY <3>4, <4>2, <5>1 DEF Offset, Rest
          <5> QED
            BY <1>1, <3>1, <4>1, <5>2 DEF AxisInv
        <4>3. CASE l # k
          <5>1. cal'[s][l] = cal[s][l]
            BY <1>2, <1>3, <2>3, <4>3 DEF CalibrationInv, CalibrationTypes
          <5> QED
            BY <1>1, <3>1, <3>2, <3>3, <3>4, <4>1, <4>3, <5>1 DEF AxisInv
        <4> QED
          BY <4>2, <4>3
      <3>7. ASSUME commands[s] <= 1 PROVE StoredInv(s)'
        <4>1. s \notin done
          BY <2>1, <3>2, <3>7 DEF FirstInv, StoredInv
        <4> QED
          BY <1>1, <1>3, <4>1 DEF StoredInv
      <3> QED
        BY <1>1, <3>2, <3>5, <3>6, <3>7 DEF FirstInv
    <2> QED
      BY <2>2, <2>3
  <1> QED
    BY <1>1, <1>5, <1>6, <1>7, FittingStays DEF CalibrationInv

(* What is stored of a sensor is what its command has found.               *)
LEMMA StoreSteps == CalibrationInv /\ (Store \/ StoreFails) => CalibrationInv'
  <1> SUFFICES ASSUME CalibrationInv, Store \/ StoreFails PROVE CalibrationInv'
    OBVIOUS
  <1>1. /\ UNCHANGED <<fitting, cal, reset_cal, imu_data_ready, reading, depth, samples>>
        /\ UNCHANGED <<sensor, option, commands>>
        /\ pc = "store"
    BY DEF Store, StoreFails, imu_state
  <1>2. sensor \in Fitted /\ sensor \in Sensors /\ todo \subseteq Axes /\ todo # {}
        /\ option \in fitting.options[sensor]
    BY <1>1 DEF CalibrationInv, CommandInv
  <1>3. PICK k \in todo :
          \/ /\ stored' = [stored EXCEPT ![sensor] = WithKey(@, k, cal[sensor][k])]
             /\ todo' = todo \ {k}
             /\ IF todo = {k} THEN pc' = "idle" /\ done' = done \cup {sensor} ELSE UNCHANGED <<pc, done>>
          \/ stored' = stored /\ pc' = "idle" /\ done' = done
    BY <1>2, NextAxis DEF Store, StoreFails
  <1>4. pc' = "idle" \/ (pc' = "store" /\ todo' \subseteq Axes /\ todo' # {})
    BY <1>1, <1>2, <1>3
  <1>5. /\ DOMAIN stored' = Sensors
        /\ \A s \in Sensors : s # sensor => stored'[s] = stored[s]
        /\ stored'[sensor] \in {stored[sensor], WithKey(stored[sensor], k, cal[sensor][k])}
    BY <1>2, <1>3 DEF CalibrationInv, CalibrationTypes
  <1>6. k \in Axes /\ cal[sensor][k] \in Int
    BY <1>2 DEF CalibrationInv, CalibrationTypes
  <1>7. DOMAIN stored[sensor] \subseteq Axes /\ stored[sensor] \in [DOMAIN stored[sensor] -> Int]
    BY <1>2 DEF CalibrationInv, CalibrationTypes
  <1>8. CalibrationTypes'
    <2>1. \A s \in Sensors : DOMAIN stored'[s] \subseteq Axes /\ stored'[s] \in [DOMAIN stored'[s] -> Int]
      <3> SUFFICES ASSUME NEW s \in Sensors
                   PROVE  DOMAIN stored'[s] \subseteq Axes /\ stored'[s] \in [DOMAIN stored'[s] -> Int]
        OBVIOUS
      <3>1. CASE s # sensor
        BY <1>5, <3>1 DEF CalibrationInv, CalibrationTypes
      <3>2. CASE s = sensor
        BY <1>5, <1>6, <1>7, <3>2 DEF WithKey
      <3> QED
        BY <3>1, <3>2
    <2>2. done' \subseteq Sensors
      BY <1>2, <1>3 DEF CalibrationInv, CalibrationTypes
    <2> QED
      BY <1>1, <1>5, <2>1, <2>2 DEF CalibrationInv, CalibrationTypes
  <1>9. CommandInv' /\ DepthInv'
    BY <1>1, <1>2, <1>4, FittingStays DEF CalibrationInv, CommandInv, DepthInv
  <1>10. ASSUME NEW s \in Plain PROVE FirstInv(s)'
    <2>1. s \in Sensors /\ FirstInv(s)
      BY DEF CalibrationInv, Plain, Fitted
    <2>2. CASE s # sensor
      <3>1. ~Busy(s) /\ ~Busy(s)' /\ stored'[s] = stored[s] /\ (s \in done' <=> s \in done)
        BY <1>1, <1>3, <1>5, <2>1, <2>2 DEF Busy
      <3> QED
        BY <1>1, <2>1, <3>1, SensorUntouched
    <2>3. CASE s = sensor
      <3>1. Offset(s)' = Offset(s) /\ Rest(s)' = Rest(s) /\ Offset(s) \in [Axes -> Int]
        BY <1>1, <2>1, FittingStays, RestType DEF CalibrationInv, CalibrationTypes
      <3>2. Busy(s) /\ commands[s] # 0
        BY <1>1, <2>1, <2>3 DEF Busy, FirstInv, SampledInv
      <3>3. \A l \in Axes : ~Ahead(s, l) /\ ~Ahead(s, l)'
        BY <1>1, <1>4, <3>2 DEF Ahead
      <3>4. SampledInv(s)'
        BY <1>1, <1>4, <2>1, <3>2 DEF FirstInv, SampledInv
      <3>5. ASSUME commands[s] <= 1 PROVE cal[s] = Offset(s) /\ \A l \in Axes : AxisInv(s, l)'
        <4>1. \A l \in Axes : AxisInv(s, l)
          BY <2>1, <3>5 DEF FirstInv
        <4>2. \A l \in Axes : cal[s][l] = Offset(s)[l]
          BY <3>2, <3>3, <4>1 DEF AxisInv
        <4>3. \A l \in Axes : l \in DOMAIN stored'[s] => stored'[s][l] = Offset(s)[l]
          BY <1>5, <1>6, <2>3, <4>1, <4>2 DEF AxisInv, WithKey
        <4>4. cal[s] = Offset(s)
          BY <2>1, <3>1, <4>2 DEF CalibrationInv, CalibrationTypes
        <4> QED
          BY <1>1, <3>1, <3>3, <4>2, <4>3, <4>4 DEF AxisInv
      <3>6. ASSUME commands[s] <= 1 PROVE StoredInv(s)'
        <4>1. s \notin done /\ Axes \ todo \subseteq DOMAIN stored[s]
          BY <1>1, <2>1, <3>2, <3>6 DEF FirstInv, StoredInv
        <4>2. CASE stored' = stored /\ pc' = "idle" /\ done' = done
          BY <4>1, <4>2 DEF StoredInv, Busy
        <4>3. CASE /\ stored' = [stored EXCEPT ![sensor] = WithKey(@, k, cal[sensor][k])]
                   /\ todo' = todo \ {k}
                   /\ IF todo = {k} THEN pc' = "idle" /\ done' = done \cup {sensor}
                                    ELSE UNCHANGED <<pc, done>>
          <5>1. stored'[s] = WithKey(stored[s], k, cal[s][k]) /\ DOMAIN stored'[s] = DOMAIN stored[s] \cup {k}
            BY <2>1, <2>3, <4>3 DEF WithKey, CalibrationInv, CalibrationTypes
          <5>2. CASE todo = {k}
            <6>1. pc' = "idle" /\ DOMAIN stored'[s] = Axes
              BY <1>6, <1>7, <2>3, <4>1, <4>3, <5>1, <5>2
            <6>2. \A l \in Axes : stored'[s][l] = Offset(s)[l]
              BY <3>1, <3>5, <3>6, <6>1 DEF AxisInv
            <6>3. stored'[s] = [l \in Axes |-> stored'[s][l]]
              BY <5>1, <6>1 DEF WithKey
            <6>4. stored'[s] = Offset(s)
              BY <3>1, <6>2, <6>3
            <6> QED
              BY <1>1, <3>1, <3>5, <3>6, <6>1, <6>4 DEF StoredInv, Busy
          <5>3. CASE todo # {k}
            BY <1>1, <4>1, <4>3, <5>1, <5>3 DEF StoredInv
          <5> QED
            BY <5>2, <5>3
        <4> QED
          BY <1>3, <4>2, <4>3
      <3> QED
        BY <1>1, <3>1, <3>4, <3>5, <3>6 DEF FirstInv
    <2> QED
      BY <2>2, <2>3
  <1> QED
    BY <1>1, <1>8, <1>9, <1>10, FittingStays DEF CalibrationInv

LEMMA CalibrationStep == CalibrationInv /\ [Next]_vars => CalibrationInv'
  <1> SUFFICES ASSUME CalibrationInv, [Next]_vars PROVE CalibrationInv'
    OBVIOUS
  <1>1. CASE ImuThread
    BY <1>1, HandleResetsStep, ProcessDataStep, ReadFailsStep DEF ImuThread
  <1>2. CASE Command
    BY <1>2, ResetSteps, DataTakenStep, WaitTimesOutStep, CalibrateStep, StoreSteps DEF Command
  <1>3. CASE UNCHANGED vars
    <2>1. /\ UNCHANGED <<fitting, stored, cal, reset_cal, imu_data_ready, reading, depth, samples>>
          /\ UNCHANGED <<pc, sensor, option, todo, commands, done>>
      BY <1>3 DEF vars, imu_state, shell
    <2>2. CalibrationTypes'
      BY <2>1 DEF CalibrationInv, CalibrationTypes
    <2>3. CommandInv' /\ DepthInv'
      BY <2>1, FittingStays DEF CalibrationInv, CommandInv, DepthInv
    <2>4. ASSUME NEW s \in Plain PROVE FirstInv(s)'
      BY <2>1, SensorUntouched DEF CalibrationInv
    <2> QED
      BY <2>1, <2>2, <2>3, <2>4, FittingStays DEF CalibrationInv
  <1> QED
    BY <1>1, <1>2, <1>3, EnterStep, RestartStep DEF Next

(* Whatever the commands, the failures and the restarts, the only offset   *)
(* that a first calibration without a reset leaves, in effect or in flash, *)
(* is the one of a unit at rest, and what it has stored completely stays   *)
(* in effect and in flash.                                                 *)
THEOREM FirstCalibrationTheorem == Spec => []FirstCalibrationIsOffset
  <1>1. CalibrationInv => FirstCalibrationIsOffset
    <2> SUFFICES ASSUME CalibrationInv, pc = "idle",
                        NEW s \in Fitted, "reset" \notin fitting.options[s], commands[s] <= 1
                 PROVE  /\ s \in done => cal[s] = Offset(s) /\ stored[s] = Offset(s)
                        /\ \A k \in Axes : cal[s][k] \in {0, Offset(s)[k]}
                        /\ fitting.imu = "bmi" => cal[s] \in {Zero, Offset(s)}
                        /\ \A k \in DOMAIN stored[s] : stored[s][k] = Offset(s)[k]
      BY DEF FirstCalibrationIsOffset
    <2>1. FirstInv(s) /\ ~Busy(s) /\ s \in Sensors
      BY DEF CalibrationInv, Plain, Busy, Fitted
    <2>2. DOMAIN stored[s] \subseteq Axes
      BY <2>1 DEF CalibrationInv, CalibrationTypes
    <2> QED
      BY <2>1, <2>2 DEF FirstInv, AxisInv, StoredInv
  <1> QED
    BY <1>1, CalibrationInitInv, CalibrationStep, PTL DEF Spec

(* Data is announced to the commands only when every history has been      *)
(* filled since the last reset of any sensor.                              *)
THEOREM WholeHistoryTheorem == Spec => ReadyMeansWholeHistory
  <1> DEFINE Whole == ~imu_data_ready /\ imu_data_ready' => \A s \in Fitted : depth'[s] = HistLen
  <1>1. CalibrationInv /\ [Next]_vars => [Whole]_vars
    <2> SUFFICES ASSUME CalibrationInv, Next, ~imu_data_ready, imu_data_ready', NEW s \in Fitted
                 PROVE  depth'[s] = HistLen
      OBVIOUS
    <2>1. ProcessData /\ samples + 1 > HistLen
      BY DEF Next, ImuThread, Command, HandleResets, ProcessData, ReadFailsBmi, ReadFailsIcm, ReadFails,
             Enter, Drain, DrainTimesOut, RequestReset, DataTaken, WaitTimesOut, Calibrate, Store,
             StoreFails, Restart
    <2>2. s \in Sensors /\ samples <= depth[s] /\ depth[s] \in 0 .. HistLen /\ samples \in 0 .. HistLen
      BY DEF CalibrationInv, CalibrationTypes, DepthInv, Fitted
    <2>3. depth'[s] = IF depth[s] < HistLen THEN depth[s] + 1 ELSE depth[s]
      BY <2>1, <2>2 DEF ProcessData, Sample
    <2> QED
      BY <2>1, <2>2, <2>3, CalibrationAssumption
  <1> QED
    BY <1>1, CalibrationInitInv, CalibrationStep, PTL DEF Spec, ReadyMeansWholeHistory

-----------------------------------------------------------------------------
(* Calibration: what is published *)

LEMMA BmiReads ==
  ASSUME fitting.imu = "bmi", NEW s \in Sensors, NEW motion \in [Axes -> Int]
  PROVE  Read(s, motion) = [k \in Axes |->
           LET x == motion[k] + Bias[s][k]
           IN  IF s = "accel" THEN ChannelAccelConvert(DriverAccel(x)) ELSE ChannelGyroConvert(DriverGyro(x))]
  <1>1. fitting.imu # "icm"
    OBVIOUS
  <1>2. Driver(s, Sensed(s, motion)) = [k \in Axes |->
          LET x == motion[k] + Bias[s][k] IN IF s = "accel" THEN DriverAccel(x) ELSE DriverGyro(x)]
    BY DEF Driver, Sensed
  <1>3. CASE s = "accel"
    <2>1. Read(s, motion) = ReadAccelData(Driver(s, Sensed(s, motion)))
      BY <1>1, <1>3 DEF Read
    <2> QED
      BY <1>2, <1>3, <2>1 DEF ReadAccelData
  <1>4. CASE s # "accel"
    <2>1. Read(s, motion) = ReadGyroData(Driver(s, Sensed(s, motion)))
      BY <1>1, <1>4 DEF Read, Sensors
    <2> QED
      BY <1>2, <1>4, <2>1 DEF ReadGyroData
  <1> QED
    BY <1>3, <1>4

(* The offset at rest cancels the bias, but for the two roundings.         *)
LEMMA BmiCalibrated ==
  ASSUME fitting \in Fittings, fitting.imu = "bmi", NEW s \in Fitted, cal[s] = Offset(s),
         NEW motion \in [Axes -> Int], FitsWord(motion), NEW k \in Axes
  PROVE  Abs(Published(s, Less(s, Read(s, motion)))[k] - motion[k]) <= 2
  <1> DEFINE m == motion[k]
             b == Bias[s][k]
             l == Level[s][k]
             out == Read(s, motion)[k] - (Read(s, Level[s])[k] - l)
  <1>1. s \in Sensors /\ fitting.options[s] # {}
    BY DEF Fitted
  <1>2. m \in Int /\ b \in Int /\ l \in Int /\ Level[s] \in [Axes -> Int]
    BY <1>1, LevelType, CalibrationAssumption
  <1>3. -(IntMax - 2) <= m /\ m <= IntMax - 2 /\ IntMax \in Nat
    <2>1. Abs(m) <= IntMax - 2 /\ IntMax \in Nat
      BY IntMaxAssumption DEF FitsWord
    <2> HIDE DEF m
    <2> QED
      BY <1>2, <2>1, AbsWithin
  <1>4. out \in Word /\ out - m <= 2 /\ m - out <= 2
    <2> DEFINE x == m + b
               y == l + b
               p == IF s = "accel" THEN ChannelAccelConvert(DriverAccel(x)) ELSE ChannelGyroConvert(DriverGyro(x))
               q == IF s = "accel" THEN ChannelAccelConvert(DriverAccel(y)) ELSE ChannelGyroConvert(DriverGyro(y))
    <2>1. x \in Int /\ y \in Int
      BY <1>2
    <2>2. p \in Int /\ p - x <= 1 /\ x - p <= 1 /\ q \in Int /\ q - y <= 1 /\ y - q <= 1
      BY <2>1, AccelConversion, GyroConversion
    <2>3. out = p - (q - l)
      BY <1>1, <1>2, BmiReads
    <2> HIDE DEF p, q, m, b, l, out
    <2>4. out \in Int /\ out - m <= 2 /\ m - out <= 2
      BY <1>2, <2>2, <2>3
    <2> QED
      BY <1>2, <1>3, <2>4 DEF Word, IntMin
  <1>5. Less(s, Read(s, motion)) = [j \in Axes |-> Read(s, motion)[j] - Offset(s)[j]]
    BY DEF Less
  <1>6. Published(s, Less(s, Read(s, motion)))[k] = WrapSigned(out)
    <2>1. Published(s, Less(s, Read(s, motion))) = Int16(Less(s, Read(s, motion)))
      BY <1>1 DEF Published, GetAccelData, GetGyroData, Sensors
    <2> QED
      BY <1>5, <2>1 DEF Int16, Offset
  <1>7. WrapSigned(out) = out
    BY <1>4, WrapSignedKeeps
  <1> HIDE DEF m, out
  <1>8. Abs(out - m) <= 2
    BY <1>2, <1>4 DEF Abs, Word, IntMin
  <1> QED
    BY <1>6, <1>7, <1>8 DEF m

(* For any bias of the BMI270's sensors and any motion that 16 bits hold,  *)
(* the getters answer the motion once a sensor has its offset.             *)
THEOREM CalibratedTheorem == Spec => []CalibratedReadsMotion
  <1>1. CalibrationInv => CalibratedReadsMotion
    <2> SUFFICES ASSUME CalibrationInv, fitting.imu = "bmi", NEW s \in Fitted, cal[s] = Offset(s),
                        NEW motion \in Motions[s], FitsWord(motion), NEW k \in Axes
                 PROVE  Abs(Published(s, Less(s, Read(s, motion)))[k] - motion[k]) <= 2
      BY DEF CalibratedReadsMotion, Publishes
    <2>1. fitting \in Fittings
      BY DEF CalibrationInv, CalibrationTypes
    <2>2. motion \in [Axes -> Int]
      BY CalibrationAssumption DEF Fitted
    <2> QED
      BY <2>1, <2>2, BmiCalibrated
  <1> QED
    BY <1>1, CalibrationInitInv, CalibrationStep, PTL DEF Spec
=============================================================================
