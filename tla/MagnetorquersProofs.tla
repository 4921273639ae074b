------------------------- MODULE MagnetorquersProofs -------------------------
(***************************************************************************)
(* What holds of the magnetorquer thread for any number of axes, any word  *)
(* width, any gains, any ADC samples and any commands: C's arithmetic and  *)
(* the control of a current, the pacing of the loop, the invariant of the  *)
(* thread, and that each coil is driven as CoilDrive says.                 *)
(***************************************************************************)
EXTENDS Magnetorquers, LoopPacing, FiniteSetTheorems, SequenceTheorems, TLAPS

-----------------------------------------------------------------------------
(* C's integer arithmetic *)

LEMMA SaturateBounds ==
  ASSUME NEW v \in Int, NEW min \in Int, NEW max \in Int, min <= max
  PROVE  Saturate(v, min, max) \in min .. max
  BY DEF Saturate

LEMMA WordBounds == IntMin \in Int /\ IntMax \in Int /\ IntMin < 0 /\ 0 < IntMax
                    /\ Modulus \in Nat \ {0} /\ Modulus = IntMax - IntMin + 1
  BY IntMaxAssumption DEF IntMin, Modulus

LEMMA FloatToWordType ==
  ASSUME NEW v \in Int
  PROVE  FloatToWord(v) \in Word
  BY WordBounds, SaturateBounds DEF FloatToWord, Word

(* Saturation keeps the sign.                                              *)
LEMMA FloatToWordSign ==
  ASSUME NEW v \in Int
  PROVE  /\ v >= 0 => FloatToWord(v) >= 0
         /\ v <= 0 => FloatToWord(v) <= 0
  BY WordBounds DEF FloatToWord, Saturate

LEMMA ModBounds ==
  ASSUME NEW v \in Int, NEW m \in Nat \ {0}
  PROVE  v % m \in 0 .. m - 1
  OBVIOUS

LEMMA WrapSignedType ==
  ASSUME NEW v \in Int
  PROVE  WrapSigned(v) \in Word
<1>1. v - IntMin \in Int
  BY WordBounds
<1>2. (v - IntMin) % Modulus \in 0 .. Modulus - 1
  BY <1>1, ModBounds, WordBounds
<1> QED BY <1>2, WordBounds DEF WrapSigned, Word

LEMMA WrapUnsignedType ==
  ASSUME NEW v \in Int
  PROVE  WrapUnsigned(v) \in 0 .. Modulus - 1
  BY ModBounds, WordBounds DEF WrapUnsigned

LEMMA QuotientBound ==
  ASSUME NEW a \in Nat, NEW k \in Nat \ {0}, NEW b \in Nat, a <= k * b
  PROVE  a \div k \in 0 .. b
<1>1. a \div k \in Nat /\ a = k * (a \div k) + (a % k) /\ a % k >= 0
  BY Z3
<1> DEFINE q == a \div k
<1>2. SUFFICES ASSUME q > b PROVE FALSE
  BY <1>1
<1>3. q >= b + 1 BY <1>1, <1>2
<1>4. k * q >= k * (b + 1) BY <1>1, <1>3, Z3
<1>5. k * (b + 1) = k * b + k BY Z3
<1> QED BY <1>1, <1>4, <1>5, Z3

LEMMA TruncDivBounds ==
  ASSUME NEW a \in Int, NEW k \in Nat \ {0}, NEW b \in Nat, -k * b <= a, a <= k * b
  PROVE  TruncDiv(a, k) \in -b .. b
<1>1. CASE a >= 0
  BY <1>1, QuotientBound DEF TruncDiv
<1>2. CASE a < 0
  <2>1. -a \in Nat /\ -a <= k * b BY <1>2
  <2>2. (-a) \div k \in 0 .. b BY <2>1, QuotientBound
  <2> QED BY <1>2, <2>2 DEF TruncDiv
<1> QED BY <1>1, <1>2

-----------------------------------------------------------------------------
(* The current loop *)

(* The duty the quadratic map gives is at most the full duty.              *)
LEMMA DutyForBounds ==
  ASSUME NEW outNum, NEW maxUa
  PROVE  DutyFor(outNum, maxUa) \in 0 .. MaxDuty
<1> DEFINE D == {d \in 1 .. MaxDuty : d * d * GainDen * maxUa <= outNum * MaxDuty * MaxDuty}
<1>1. IsFiniteSet(1 .. MaxDuty) /\ Cardinality(1 .. MaxDuty) = MaxDuty
  BY FS_Interval, ControlAssumption
<1>2. IsFiniteSet(D) /\ Cardinality(D) <= Cardinality(1 .. MaxDuty)
  BY <1>1, FS_Subset
<1>3. Cardinality(D) \in Nat
  BY <1>2, FS_CardinalityType
<1> QED BY <1>1, <1>2, <1>3, ControlAssumption DEF DutyFor

(* control_current: whatever the command and the measurement, the duty is  *)
(* within +/- the full duty and the integral within +/- the axis's largest *)
(* current.                                                                *)
THEOREM ControlCurrentBounds ==
  ASSUME NEW current \in Int, NEW actual \in Int, NEW maxUa \in Nat \ {0},
         NEW sum \in -maxUa .. maxUa
  PROVE  LET result == ControlCurrent(current, actual, sum, maxUa)
         IN  /\ result.duty \in -MaxDuty .. MaxDuty
             /\ result.integral \in -maxUa .. maxUa
<1> DEFINE error == WrapSigned(Saturate(current, -maxUa, maxUa) - actual)
           term  == IntegralTerm(sum, error, maxUa)
           out   == KpNum * error + term
<1>1. Saturate(current, -maxUa, maxUa) \in Int
  BY SaturateBounds
<1>2. error \in Int
  BY <1>1, WrapSignedType, WordBounds DEF Word
<1> DEFINE bound == GainDen * maxUa
           step  == GainDen * sum + KiNum * error
<1>3. term \in -bound .. bound
  <2>1. bound \in Nat /\ -bound \in Int /\ -bound <= bound /\ -GainDen * maxUa = -bound
    BY ControlAssumption, Z3
  <2>2. step \in Int
    BY <1>2, ControlAssumption, Z3
  <2>3. term = Saturate(step, -bound, bound)
    BY <2>1 DEF IntegralTerm
  <2> HIDE DEF bound, step, term
  <2> QED BY <2>1, <2>2, <2>3, SaturateBounds
<1>4. TruncDiv(term, GainDen) \in -maxUa .. maxUa
  BY <1>3, TruncDivBounds, ControlAssumption
<1>5. Sign(out) * DutyFor(Abs(out), maxUa) \in -MaxDuty .. MaxDuty
  BY DutyForBounds, ControlAssumption DEF Sign
<1> QED BY <1>4, <1>5, ControlAssumption DEF ControlCurrent

-----------------------------------------------------------------------------
(* The pacing of the loop *)

(* The time since t_last was taken is part of the iteration that has just  *)
(* ended and of the body that goes on, and the sleep makes up a period.    *)
PacingInv ==
  /\ PacingTypeOK
  /\ doing = "work" => elapsed <= length /\ elapsed <= Period + MaxLate
  /\ doing = "sleep" => /\ elapsed <= length + body
                       /\ t_sleep >= 1 /\ t_sleep >= Period - elapsed
  /\ previous + length >= Period

LEMMA PacingInitInv == PacingInit => PacingInv
  BY PacingAssumption DEF PacingInit, PacingInv, PacingTypeOK, Longest

LEMMA PacingStep == PacingInv /\ [PacingNext]_pacing => PacingInv'
  <1> SUFFICES ASSUME PacingInv, [PacingNext]_pacing PROVE PacingInv'
    OBVIOUS
  <1> USE PacingAssumption DEF PacingInv, PacingTypeOK, Longest
  <1>1. CASE \E work \in 0 .. MaxWork : EndOfBody(work)
    BY <1>1 DEF EndOfBody, SleepFor
  <1>2. CASE \E late \in 0 .. MaxLate : WakeUp(late)
    BY <1>2 DEF WakeUp
  <1>3. CASE UNCHANGED pacing
    BY <1>3 DEF pacing
  <1> QED
    BY <1>1, <1>2, <1>3 DEF PacingNext

(* However long the bodies of the iterations take and however late their   *)
(* sleeps end, two successive iterations of handle_magnetorquer's loop     *)
(* take a period at least.                                                 *)
THEOREM PacingTheorem == PacingSpec => []NoBurst
  <1>1. PacingInv => NoBurst
    BY DEF PacingInv, NoBurst
  <1> QED
    BY <1>1, PacingInitInv, PacingStep, PTL DEF PacingSpec

-----------------------------------------------------------------------------
(* The magnetorquer thread *)

(* The window after one more sample is a window, and not an empty one.     *)
LEMMA PushType ==
  ASSUME NEW w \in SampleWindows, NEW mv \in AdcMv
  PROVE  Push(w, mv, HistLen) \in SampleWindows /\ Len(Push(w, mv, HistLen)) > 0
<1>1. PICK n \in 0 .. HistLen : w \in [1 .. n -> AdcMv]
  BY DEF SampleWindows
<1> HistLen \in Nat \ {0}
  BY MagnetorquersAssumption
<1>2. w \in Seq(AdcMv) /\ Len(w) = n
  BY <1>1
<1> DEFINE s == <<mv>> \o w
           m == IF n < HistLen THEN n + 1 ELSE HistLen
<1>3. s \in Seq(AdcMv) /\ Len(s) = n + 1
  BY <1>2
<1>4. m \in 1 .. n + 1 /\ m \in 1 .. HistLen
  BY <1>1
<1>5. Push(w, mv, HistLen) = SubSeq(s, 1, m)
  BY <1>2 DEF Push
<1> HIDE DEF s, m
<1>6. \A k \in 1 .. m : s[k] \in AdcMv
  BY <1>3, <1>4, ElementOfSeq
<1>7. SubSeq(s, 1, m) \in Seq(AdcMv) /\ Len(SubSeq(s, 1, m)) = m
  BY <1>4, <1>6, SubSeqProperties
<1>8. SubSeq(s, 1, m) \in [1 .. m -> AdcMv]
  BY <1>7, LenProperties
<1> QED BY <1>4, <1>5, <1>7, <1>8 DEF SampleWindows

LEMMA MeasuredType ==
  ASSUME NEW mv \in Int, NEW ofs \in Int, NEW duty \in Int
  PROVE  Measured(mv, ofs, duty) \in Word
<1>1. WrapUnsigned(mv - ofs) \in Int
  BY WrapUnsignedType, WordBounds
<1>2. Sign(duty) * UaPerMv * WrapUnsigned(mv - ofs) \in Int
  BY <1>1, ControlAssumption DEF Sign
<1> QED BY <1>2, FloatToWordType DEF Measured

LEMMA NextAxisType ==
  ASSUME NEW head, NEW after, i \in Axis, NextAxis(head, after)
  PROVE  i' \in Axis /\ pc' \in {head, after}
  BY MagnetorquersAssumption DEF NextAxis, Axis

LEMMA InitTypeOK == Init => TypeOK /\ WithinLimits
<1> SUFFICES ASSUME Init PROVE TypeOK /\ WithinLimits
  OBVIOUS
<1>1. 0 \in Axis /\ 0 \in Word
  BY MagnetorquersAssumption, WordBounds DEF Axis, Word
<1>2. <<>> \in SampleWindows
  <2>1. <<>> \in [1 .. 0 -> AdcMv] OBVIOUS
  <2> QED BY <2>1, MagnetorquersAssumption DEF SampleWindows
<1>3. TypeOK
  BY <1>1, <1>2 DEF Init, TypeOK, InitPcs
<1>4. WithinLimits
  BY ControlAssumption, MagnetorquersAssumption DEF Init, WithinLimits
<1> QED BY <1>3, <1>4

(* The steps that move the thread on and change nothing but the pin and    *)
(* error variables keep the types and the limits.                          *)
LEMMA ControlStep ==
  ASSUME TypeOK, WithinLimits, ControlAxis
  PROVE  (TypeOK /\ WithinLimits)'
<1> USE DEF TypeOK, ControlAxis
<1> DEFINE result == ControlCurrent(setpoint[i], feedback[i], integral[i], MaxUa[i])
<1>1. MaxUa[i] \in Nat \ {0} /\ setpoint[i] \in Int /\ feedback[i] \in Int
      /\ integral[i] \in -MaxUa[i] .. MaxUa[i]
  <2>1. MaxUa[i] \in 1 .. IntMax BY MagnetorquersAssumption
  <2>2. setpoint[i] \in Word /\ feedback[i] \in Word OBVIOUS
  <2> QED BY <2>1, <2>2, WordBounds DEF Word, WithinLimits
<1>2. result.duty \in -MaxDuty .. MaxDuty /\ result.integral \in -MaxUa[i] .. MaxUa[i]
  BY <1>1, ControlCurrentBounds
<1>3. result.duty \in Int /\ result.integral \in Int
  BY <1>1, <1>2, ControlAssumption
<1> HIDE DEF result
<1>4. goal' = [goal EXCEPT ![i] = result.duty] /\ integral' = [integral EXCEPT ![i] = result.integral]
  BY DEF result
<1>5. i' \in Axis /\ pc' \in LoopPcs
  BY NextAxisType DEF LoopPcs
<1>6. TypeOK'
  BY <1>3, <1>4, <1>5 DEF driver, coils, od
<1>7. WithinLimits'
  BY <1>2, <1>4 DEF WithinLimits, driver, coils, od
<1> QED BY <1>6, <1>7

LEMMA ReadStep ==
  ASSUME TypeOK, WithinLimits, NEW mv \in AdcMv, ReadAxis(mv)
  PROVE  (TypeOK /\ WithinLimits)'
<1> USE DEF TypeOK, ReadAxis
<1> DEFINE learnt == IF active[i] = 0 THEN Push(window[i], mv, HistLen) ELSE window[i]
           offset == IF active[i] = 0 THEN Average(learnt) ELSE ofs_mv[i]
<1>1. learnt \in SampleWindows
  BY PushType
<1>2. offset \in Int
  BY PushType, AverageAssumption
<1>3. Measured(mv, offset, active[i]) \in Word
  BY <1>2, MeasuredType, MagnetorquersAssumption
<1> HIDE DEF learnt, offset
<1>4. /\ window' = [window EXCEPT ![i] = learnt]
      /\ ofs_mv' = [ofs_mv EXCEPT ![i] = offset]
      /\ feedback' = [feedback EXCEPT ![i] = Measured(mv, offset, active[i])]
  BY DEF learnt, offset
<1>5. i' \in Axis /\ pc' \in LoopPcs
  BY NextAxisType DEF LoopPcs
<1>6. TypeOK'
  BY <1>1, <1>2, <1>3, <1>4, <1>5 DEF report, driver, coils, od
<1>7. WithinLimits'
  BY DEF WithinLimits, report, driver, coils, od
<1> QED BY <1>6, <1>7

LEMMA TypeStep == TypeOK /\ WithinLimits /\ [Next]_vars => (TypeOK /\ WithinLimits)'
<1> SUFFICES ASSUME TypeOK, WithinLimits, [Next]_vars PROVE (TypeOK /\ WithinLimits)'
  OBVIOUS
<1> USE DEF TypeOK, WithinLimits, InitPcs, LoopPcs, control, report, driver, coils, od
<1>1. CASE Startup
  BY <1>1 DEF Startup
<1>2. CASE InitMagnetorquer
  <2>1. CASE InitFails BY <2>1 DEF InitFails
  <2>2. CASE InitGpios BY <2>2 DEF InitGpios
  <2>3. CASE WriteCurrentLimit BY <2>3 DEF WriteCurrentLimit
  <2>4. CASE InitDevices BY <2>4 DEF InitDevices
  <2>5. ASSUME NEW at, NEW level \in BOOLEAN, NEW after \in InitPcs, SetEnable(at, level, after)
        PROVE  (TypeOK /\ WithinLimits)'
    BY <2>5 DEF SetEnable
  <2>6. ASSUME NEW at, NEW level \in BOOLEAN, NEW after \in InitPcs \cup LoopPcs,
               SetStandby(at, level, after)
        PROVE  (TypeOK /\ WithinLimits)'
    BY <2>6 DEF SetStandby
  <2>7. CASE ZeroCoil
    <3>1. i' \in Axis /\ pc' \in InitPcs BY <2>7, NextAxisType DEF ZeroCoil
    <3> QED BY <2>7, <3>1, ControlAssumption DEF ZeroCoil
  <2> QED BY <1>2, <2>1, <2>2, <2>3, <2>4, <2>5, <2>6, <2>7 DEF InitMagnetorquer
<1>3. CASE Iterate
  <2>1. CASE Acquire BY <2>1 DEF Acquire
  <2>2. CASE AcquireFails BY <2>2 DEF AcquireFails
  <2>3. ASSUME NEW mv \in AdcMv, ReadAxis(mv) PROVE (TypeOK /\ WithinLimits)'
    BY <2>3, ReadStep
  <2>4. CASE ReadFails
    <3>1. i' \in Axis /\ pc' \in LoopPcs BY <2>4, NextAxisType DEF ReadFails
    <3> QED BY <2>4, <3>1 DEF ReadFails
  <2>5. CASE ControlAxis BY <2>5, ControlStep
  <2>6. CASE OutputUnchanged
    <3>1. i' \in Axis /\ pc' \in LoopPcs BY <2>6, NextAxisType DEF OutputUnchanged
    <3> QED BY <2>6, <3>1 DEF OutputUnchanged
  <2>7. CASE OutputPhase BY <2>7 DEF OutputPhase
  <2>8. CASE OutputPhaseFails
    <3>1. i' \in Axis /\ pc' \in LoopPcs BY <2>8, NextAxisType DEF OutputPhaseFails
    <3> QED BY <2>8, <3>1 DEF OutputPhaseFails
  <2>9. CASE OutputPwm
    <3>1. Abs(goal[i]) \in 0 .. MaxDuty /\ Abs(goal[i]) \in Nat
      BY ControlAssumption DEF Abs
    <3>2. width' = [width EXCEPT ![i] = Abs(goal[i])] /\ pc' \in LoopPcs
          /\ sched_locked' \in BOOLEAN
          /\ UNCHANGED <<i, control, err, driver, phase_pin, od>> /\ missed' \in SUBSET Axis
      BY <2>9 DEF OutputPwm
    <3> QED BY <3>1, <3>2
  <2>10. CASE OutputPwmFails BY <2>10 DEF OutputPwmFails
  <2>11. CASE OutputActive
    <3>1. i' \in Axis /\ pc' \in LoopPcs BY <2>11, NextAxisType DEF OutputActive
    <3> QED BY <2>11, <3>1 DEF OutputActive
  <2>12. CASE Publish BY <2>12 DEF Publish
  <2>13. CASE Sleep BY <2>13 DEF Sleep
  <2> QED BY <1>3, <2>1, <2>2, <2>3, <2>4, <2>5, <2>6, <2>7, <2>8, <2>9, <2>10, <2>11, <2>12, <2>13
          DEF Iterate
<1>4. ASSUME NEW a \in Axis, NEW ua \in Setpoints, SdoWrite(a, ua)
      PROVE  (TypeOK /\ WithinLimits)'
  BY <1>4, MagnetorquersAssumption DEF SdoWrite
<1>5. CASE UNCHANGED vars
  BY <1>5 DEF vars
<1> QED BY <1>1, <1>2, <1>3, <1>4, <1>5 DEF Next, Thread

(* Whatever the C3 commands and the ADC reads, the controllers' integrals  *)
(* and every duty stay within their limits (control_current,               *)
(* set_pwm_output).                                                        *)
THEOREM LimitsTheorem == Spec => [](TypeOK /\ WithinLimits)
<1>1. Init => TypeOK /\ WithinLimits
  BY InitTypeOK
<1>2. TypeOK /\ WithinLimits /\ [Next]_vars => (TypeOK /\ WithinLimits)'
  BY TypeStep
<1> QED BY <1>1, <1>2, PTL DEF Spec

-----------------------------------------------------------------------------
(* The bring-up: where the thread stands says which of the enables are     *)
(* down.  Before standby is left for the first time nothing is enabled;    *)
(* until the reset sequence has lowered it, the enable is down; it is      *)
(* raised again only in standby; and once the loop runs it stays up.       *)
BringUpInv ==
  /\ pc \in {"delay", "gpios", "ilim", "devices", "en_low"} => ~mt_en /\ ~n_mt_stby_rst
  /\ pc \in {"stby_high", "zero", "reset_en_low", "reset_stby_low"} => ~mt_en
  /\ pc \in {"reset_en_high", "reset_stby_high"} => ~n_mt_stby_rst
  /\ pc = "stopped" => ~CoilOn
  /\ pc = "reset_stby_high" => mt_en
  /\ pc \in LoopPcs => CoilOn
  /\ pc \notin {"delay", "gpios", "ilim", "stopped"} => ilim_set

LEMMA BringUpStep ==
  ASSUME TypeOK, BringUpInv, [Next]_vars
  PROVE  BringUpInv'
<1> USE DEF BringUpInv, CoilOn, driver, LoopPcs
<1>1. CASE Startup
  BY <1>1 DEF Startup
<1>2. CASE InitMagnetorquer
  <2>1. CASE InitFails
    BY <2>1 DEF InitFails, InitPcs
  <2>2. CASE InitGpios BY <2>2 DEF InitGpios
  <2>3. CASE WriteCurrentLimit BY <2>3 DEF WriteCurrentLimit
  <2>4. CASE InitDevices BY <2>4 DEF InitDevices
  <2>5. CASE SetEnable("en_low", FALSE, "stby_high") BY <2>5 DEF SetEnable
  <2>6. CASE SetStandby("stby_high", TRUE, "zero") BY <2>6 DEF SetStandby
  <2>7. CASE ZeroCoil BY <2>7 DEF ZeroCoil, NextAxis
  <2>8. CASE SetEnable("reset_en_low", FALSE, "reset_stby_low") BY <2>8 DEF SetEnable
  <2>9. CASE SetStandby("reset_stby_low", FALSE, "reset_en_high") BY <2>9 DEF SetStandby
  <2>10. CASE SetEnable("reset_en_high", TRUE, "reset_stby_high") BY <2>10 DEF SetEnable
  <2>11. CASE SetStandby("reset_stby_high", TRUE, "acquire") BY <2>11 DEF SetStandby
  <2> QED BY <1>2, <2>1, <2>2, <2>3, <2>4, <2>5, <2>6, <2>7, <2>8, <2>9, <2>10, <2>11
          DEF InitMagnetorquer
<1>3. CASE Iterate
  <2>1. pc \in LoopPcs /\ pc' \in LoopPcs /\ UNCHANGED driver
    BY <1>3 DEF Iterate, Acquire, AcquireFails, ReadAxis, ReadFails, ControlAxis, OutputUnchanged,
                OutputPhase, OutputPhaseFails, OutputPwm, OutputPwmFails, OutputActive, Publish,
                Sleep, NextAxis, LoopPcs
  <2> QED BY <2>1 DEF LoopPcs
<1>4. CASE \E a \in Axis, ua \in Setpoints : SdoWrite(a, ua)
  BY <1>4 DEF SdoWrite
<1>5. CASE UNCHANGED vars
  BY <1>5 DEF vars
<1> QED BY <1>1, <1>2, <1>3, <1>4, <1>5 DEF Next, Thread

LEMMA BringUpInvariance == Spec => []BringUpInv
<1>1. Init => BringUpInv
  BY DEF Init, BringUpInv, CoilOn, LoopPcs
<1>2. TypeOK /\ BringUpInv /\ [Next]_vars => BringUpInv'
  BY BringUpStep
<1> QED BY <1>1, <1>2, LimitsTheorem, PTL DEF Spec

(* A bring-up that fails at any call leaves the driver stage off; it is on *)
(* only with its current limit set (init_magnetorquer, reset_magnetorquer).*)
THEOREM DriverTheorem == Spec => []DriverOnlyOnInLoop
<1>1. TypeOK /\ BringUpInv => DriverOnlyOnInLoop
  BY DEF TypeOK, BringUpInv, DriverOnlyOnInLoop, CoilOn, InitPcs, LoopPcs
<1> QED BY <1>1, BringUpInvariance, LimitsTheorem, PTL

-----------------------------------------------------------------------------
(* The coils' outputs.  phase_state is what the phase pin was last set to, *)
(* so a pin that needs no change is right already; between the two writes  *)
(* the pin is that of the goal and the duty still the old one; before the  *)
(* loop every coil is at rest; and the scheduler is locked between the two *)
(* writes only.                                                            *)
CoilInv ==
  /\ \A a \in Axis : phase_state[a] = phase_pin[a]
  /\ \A a \in Axis :
        IF a = i /\ pc = "pwm"
        THEN phase_pin[a] = (goal[a] < 0) /\ width[a] = Abs(active[a])
        ELSE IF a = i /\ pc = "active" THEN CoilMatches(a, goal[a])
        ELSE CoilMatches(a, active[a])
  /\ pc \notin LoopPcs => \A a \in Axis : active[a] = 0
  /\ pc = "pwm" => sched_locked
  /\ TelemetryMatchesCoils

LEMMA MatchedDrive ==
  ASSUME NEW a, NEW duty \in Int, CoilMatches(a, duty)
  PROVE  Drive(a) = duty
<1>1. CASE duty < 0
  <2>1. phase_pin[a] /\ width[a] = -duty BY <1>1 DEF CoilMatches, Abs
  <2> QED BY <2>1 DEF Drive
<1>2. CASE ~(duty < 0)
  <2>1. ~phase_pin[a] /\ width[a] = duty BY <1>2 DEF CoilMatches, Abs
  <2> QED BY <2>1 DEF Drive
<1> QED BY <1>1, <1>2

(* A step that moves the thread within or into a place where no output is  *)
(* pending that was not pending before, and touches no coil, keeps CoilInv.*)
LEMMA CoilQuietStep ==
  ASSUME TypeOK, CoilInv, UNCHANGED <<active, phase_state, coils, od_pwm>>,
         pc \notin {"pwm", "active"}, pc' \notin {"pwm", "active"},
         pc' \notin LoopPcs => pc \notin LoopPcs,
         \A a \in Axis : OutputPending(a) => OutputPending(a)'
  PROVE  CoilInv'
  BY DEF CoilInv, CoilMatches, TelemetryMatchesCoils, Drive, coils

LEMMA CoilStep ==
  ASSUME "pwm" \notin Faults, TypeOK, CoilInv, [Next]_vars
  PROVE  CoilInv'
<1> USE DEF TypeOK, control, report, driver, coils, od
<1>1. CASE Startup
  BY <1>1, CoilQuietStep DEF Startup, LoopPcs, OutputPending
<1>2. CASE InitMagnetorquer
  <2>1. CASE InitFails
    BY <2>1, CoilQuietStep DEF InitFails, InitPcs, LoopPcs, OutputPending
  <2>2. CASE InitGpios
    <3>1. \A a \in Axis : phase_pin[a] = FALSE
      BY <2>2 DEF InitGpios, CoilInv, CoilMatches, LoopPcs
    <3>2. phase_pin' = phase_pin
      BY <2>2, <3>1 DEF InitGpios
    <3> QED BY <2>2, <3>2, CoilQuietStep DEF InitGpios, LoopPcs, OutputPending
  <2>3. CASE WriteCurrentLimit
    BY <2>3, CoilQuietStep DEF WriteCurrentLimit, LoopPcs, OutputPending
  <2>4. CASE InitDevices
    BY <2>4, CoilQuietStep DEF InitDevices, LoopPcs, OutputPending
  <2>5. ASSUME NEW at \in InitPcs, NEW level, NEW after \in InitPcs, SetEnable(at, level, after)
        PROVE  CoilInv'
    BY <2>5, CoilQuietStep DEF SetEnable, InitPcs, LoopPcs, OutputPending
  <2>6. ASSUME NEW at \in InitPcs, NEW level, NEW after \in InitPcs \cup {"acquire"},
               SetStandby(at, level, after)
        PROVE  CoilInv'
    BY <2>6, CoilQuietStep DEF SetStandby, InitPcs, LoopPcs, OutputPending
  <2>7. CASE ZeroCoil
    <3>1. phase_pin[i] = FALSE /\ width[i] = 0
      BY <2>7 DEF ZeroCoil, CoilInv, CoilMatches, LoopPcs, Abs
    <3>2. phase_pin' = phase_pin /\ width' = width
      BY <2>7, <3>1 DEF ZeroCoil
    <3>3. pc' \in {"zero", "reset_en_low"}
      BY <2>7 DEF ZeroCoil, NextAxis
    <3> QED BY <2>7, <3>2, <3>3, CoilQuietStep DEF ZeroCoil, LoopPcs, OutputPending
  <2> QED BY <1>2, <2>1, <2>2, <2>3, <2>4, <2>5, <2>6, <2>7 DEF InitMagnetorquer, InitPcs
<1>3. CASE Iterate
  <2>1. CASE Acquire
    BY <2>1, CoilQuietStep DEF Acquire, LoopPcs, OutputPending
  <2>2. CASE AcquireFails
    BY <2>2, CoilQuietStep DEF AcquireFails, LoopPcs, OutputPending
  <2>3. ASSUME NEW mv \in AdcMv, ReadAxis(mv) PROVE CoilInv'
    <3>1. pc' \in {"read", "targets"} BY <2>3 DEF ReadAxis, NextAxis
    <3> QED BY <2>3, <3>1, CoilQuietStep DEF ReadAxis, LoopPcs, OutputPending
  <2>4. CASE ReadFails
    <3>1. pc' \in {"read", "targets"} BY <2>4 DEF ReadFails, NextAxis
    <3> QED BY <2>4, <3>1, CoilQuietStep DEF ReadFails, LoopPcs, OutputPending
  <2>5. CASE ControlAxis
    <3>1. pc' = "targets" \/ (pc' = "output" /\ i' = 0)
      BY <2>5 DEF ControlAxis, NextAxis
    <3> QED BY <2>5, <3>1, CoilQuietStep DEF ControlAxis, LoopPcs, OutputPending
  <2>6. CASE OutputUnchanged
    <3>1. (pc' = "output" /\ i' = i + 1) \/ pc' = "publish"
      BY <2>6 DEF OutputUnchanged, NextAxis
    <3> QED BY <2>6, <3>1, CoilQuietStep DEF OutputUnchanged, LoopPcs, OutputPending, Axis
  <2>7. CASE OutputPhase
    <3>1. \A a \in Axis : a # i => phase_pin'[a] = phase_pin[a] /\ phase_state'[a] = phase_state[a]
      BY <2>7 DEF OutputPhase
    <3>2. phase_pin'[i] = (goal[i] < 0) /\ phase_state'[i] = (goal[i] < 0)
      BY <2>7 DEF OutputPhase, CoilInv
    <3>3. width[i] = Abs(active[i])
      BY <2>7 DEF OutputPhase, CoilInv, CoilMatches
    <3>4. pc = "output" /\ pc' = "pwm" /\ sched_locked' /\ UNCHANGED <<i, goal, active, width, od_pwm>>
      BY <2>7 DEF OutputPhase
    <3>5. TelemetryMatchesCoils'
      BY <3>1, <3>4 DEF CoilInv, TelemetryMatchesCoils, OutputPending, Drive
    <3> QED BY <3>1, <3>2, <3>3, <3>4, <3>5 DEF CoilInv, CoilMatches, LoopPcs
  <2>8. CASE OutputPhaseFails
    <3>1. (pc' = "output" /\ i' = i + 1) \/ pc' = "publish"
      BY <2>8 DEF OutputPhaseFails, NextAxis
    <3> QED BY <2>8, <3>1, CoilQuietStep DEF OutputPhaseFails, LoopPcs, OutputPending, Axis
  <2>9. CASE OutputPwm
    <3>1. pc = "pwm" /\ pc' = "active" /\ UNCHANGED <<i, goal, active, phase_pin, phase_state, od_pwm>>
      BY <2>9 DEF OutputPwm
    <3>2. width'[i] = Abs(goal[i]) /\ \A a \in Axis : a # i => width'[a] = width[a]
      BY <2>9 DEF OutputPwm
    <3>3. TelemetryMatchesCoils'
      BY <3>1, <3>2 DEF CoilInv, TelemetryMatchesCoils, OutputPending, Drive
    <3> QED BY <3>1, <3>2, <3>3 DEF CoilInv, CoilMatches, LoopPcs
  <2>10. CASE OutputPwmFails
    BY <2>10 DEF OutputPwmFails
  <2>11. CASE OutputActive
    <3>1. pc = "active" /\ UNCHANGED <<goal, phase_state, coils, od_pwm>>
      BY <2>11 DEF OutputActive
    <3>2. (pc' = "output" /\ i' = i + 1) \/ (pc' = "publish")
      BY <2>11 DEF OutputActive, NextAxis
    <3>3. active'[i] = goal[i] /\ \A a \in Axis : a # i => active'[a] = active[a]
      BY <2>11 DEF OutputActive
    <3>4. \A a \in Axis : CoilMatches(a, active[a])'
      BY <3>1, <3>3 DEF CoilInv, CoilMatches
    <3>5. TelemetryMatchesCoils'
      BY <3>1, <3>2 DEF CoilInv, TelemetryMatchesCoils, OutputPending, Drive, Axis
    <3> QED BY <3>1, <3>2, <3>4, <3>5 DEF CoilInv, LoopPcs
  <2>12. CASE Publish
    <3>1. pc = "publish" /\ pc' = "sleep" /\ od_pwm' = active
          /\ UNCHANGED <<i, goal, active, phase_state, coils>>
      BY <2>12 DEF Publish
    <3>2. \A a \in Axis : CoilMatches(a, active[a]) /\ active[a] \in Int
      BY <3>1 DEF CoilInv
    <3>3. \A a \in Axis : od_pwm'[a] = Drive(a)'
      BY <3>1, <3>2 DEF Drive, CoilMatches, Abs
    <3> QED BY <3>1, <3>2, <3>3 DEF CoilInv, TelemetryMatchesCoils, LoopPcs, CoilMatches
  <2>13. CASE Sleep
    BY <2>13, CoilQuietStep DEF Sleep, LoopPcs, OutputPending
  <2> QED BY <1>3, <2>1, <2>2, <2>3, <2>4, <2>5, <2>6, <2>7, <2>8, <2>9, <2>10, <2>11, <2>12, <2>13
          DEF Iterate
<1>4. CASE \E a \in Axis, ua \in Setpoints : SdoWrite(a, ua)
  BY <1>4 DEF SdoWrite, CoilInv, CoilMatches, TelemetryMatchesCoils, OutputPending, Drive
<1>5. CASE UNCHANGED vars
  BY <1>5 DEF vars, CoilInv, CoilMatches, TelemetryMatchesCoils, OutputPending, Drive
<1> QED BY <1>1, <1>2, <1>3, <1>4, <1>5 DEF Next, Thread

LEMMA CoilInvariance ==
  ASSUME "pwm" \notin Faults
  PROVE  Spec => []CoilInv
<1>1. Init => CoilInv
  <2> SUFFICES ASSUME Init PROVE CoilInv
    OBVIOUS
  <2>1. \A a \in Axis : active[a] = 0 /\ width[a] = 0 /\ od_pwm[a] = 0
                        /\ phase_pin[a] = FALSE /\ phase_state[a] = FALSE
    BY DEF Init
  <2>2. pc = "delay"
    BY DEF Init
  <2>3. \A a \in Axis : CoilMatches(a, active[a])
    <3>1. (0 < 0) = FALSE /\ Abs(0) = 0 BY DEF Abs
    <3> QED BY <2>1, <3>1, Zenon DEF CoilMatches
  <2>4. TelemetryMatchesCoils
    BY <2>1 DEF TelemetryMatchesCoils, Drive
  <2> QED BY <2>1, <2>2, <2>3, <2>4 DEF CoilInv
<1>2. TypeOK /\ CoilInv /\ [Next]_vars => CoilInv'
  BY CoilStep
<1> QED BY <1>1, <1>2, LimitsTheorem, PTL DEF Spec

(* Phase pin and duty follow active_pwm_percent, and differ from each      *)
(* other only under the scheduler lock, whatever phase pins cannot be      *)
(* written (set_pwm_output).                                               *)
THEOREM CoilsTheorem ==
  ASSUME "pwm" \notin Faults
  PROVE  Spec => []CoilsFollowActive
<1>1. CoilInv => CoilsFollowActive
  BY DEF CoilInv, CoilsFollowActive
<1> QED BY <1>1, CoilInvariance, PTL

(* The published pwm_x/y/z is the coil's drive outside the time between an *)
(* output and the next publication (set_pwm_output, handle_can_open_data). *)
THEOREM TelemetryTheorem ==
  ASSUME "pwm" \notin Faults
  PROVE  Spec => []TelemetryMatchesCoils
<1>1. CoilInv => TelemetryMatchesCoils
  BY DEF CoilInv
<1> QED BY <1>1, CoilInvariance, PTL
-----------------------------------------------------------------------------
(* The feedback.  A loop starts at axis 0, so a reading made in this       *)
(* iteration is told from one of the last by the axis the thread is at.    *)
FeedbackInv ==
  /\ pc \notin {"zero", "read", "targets", "output", "pwm", "active", "stopped"} => i = 0
  /\ FeedbackSignMatchesDrive

LEMMA MeasuredSign ==
  ASSUME NEW mv \in Int, NEW ofs \in Int, NEW duty \in Int
  PROVE  /\ Measured(mv, ofs, duty) > 0 => duty >= 0
         /\ Measured(mv, ofs, duty) < 0 => duty < 0
<1> DEFINE u == WrapUnsigned(mv - ofs)
           p == UaPerMv * u
<1>1. u \in Nat
  BY WrapUnsignedType
<1> HIDE DEF u
<1>2. UaPerMv \in Nat
  BY ControlAssumption
<1>3. p \in Nat
  BY <1>1, <1>2
<1>4. Measured(mv, ofs, duty) = FloatToWord(Sign(duty) * UaPerMv * u)
  BY DEF Measured, u
<1>5. CASE duty < 0
  <2>1. Sign(duty) * UaPerMv * u = -p
    BY <1>1, <1>2, <1>5 DEF Sign
  <2> HIDE DEF p
  <2>2. FloatToWord(-p) <= 0 /\ FloatToWord(-p) \in Int
    BY <1>3, FloatToWordSign, FloatToWordType, WordBounds DEF Word
  <2> QED BY <1>4, <1>5, <2>1, <2>2
<1>6. CASE ~(duty < 0)
  <2>1. Sign(duty) * UaPerMv * u = p
    BY <1>1, <1>2, <1>6 DEF Sign
  <2> HIDE DEF p
  <2>2. FloatToWord(p) >= 0 /\ FloatToWord(p) \in Int
    BY <1>3, FloatToWordSign, FloatToWordType, WordBounds DEF Word
  <2> QED BY <1>4, <1>6, <2>1, <2>2
<1> QED BY <1>5, <1>6

(* A step that changes no feedback and no active duty, and after which no  *)
(* reading counts as fresh that did not before.                            *)
LEMMA FeedbackQuietStep ==
  ASSUME FeedbackInv, UNCHANGED <<feedback, active>>,
         \A a \in Axis : FeedbackFresh(a)' => FeedbackFresh(a),
         pc' \notin {"zero", "read", "targets", "output", "pwm", "active", "stopped"} => i' = 0
  PROVE  FeedbackInv'
  BY DEF FeedbackInv, FeedbackSignMatchesDrive

LEMMA FeedbackStep ==
  ASSUME "acquire" \notin Faults, "read" \notin Faults, TypeOK, FeedbackInv, [Next]_vars
  PROVE  FeedbackInv'
<1> USE DEF control, report, driver, coils, od
<1>0. i \in Axis /\ i \in Nat
  BY MagnetorquersAssumption DEF TypeOK, Axis
<1>1. CASE Startup
  BY <1>1, FeedbackQuietStep DEF Startup, FeedbackInv, FeedbackFresh
<1>2. CASE InitMagnetorquer
  <2>1. UNCHANGED <<feedback, active>>
    BY <1>2 DEF InitMagnetorquer, InitFails, InitGpios, WriteCurrentLimit, InitDevices, SetEnable,
                SetStandby, ZeroCoil
  <2>2. pc' \notin {"read", "targets", "output", "pwm", "active"}
    BY <1>2 DEF InitMagnetorquer, InitFails, InitGpios, WriteCurrentLimit, InitDevices, SetEnable,
                SetStandby, ZeroCoil, NextAxis
  <2>3. pc' \in {"zero", "stopped"} \/ i' = 0
    BY <1>2 DEF InitMagnetorquer, InitFails, InitGpios, WriteCurrentLimit, InitDevices, SetEnable,
                SetStandby, ZeroCoil, NextAxis, FeedbackInv
  <2> QED BY <2>1, <2>2, <2>3, FeedbackQuietStep DEF FeedbackFresh
<1>3. CASE Iterate
  <2>1. CASE Acquire
    <3>1. pc' = "read" /\ i' = 0 /\ UNCHANGED <<feedback, active>>
      BY <2>1 DEF Acquire, FeedbackInv
    <3> QED BY <3>1, FeedbackQuietStep DEF FeedbackFresh, Axis
  <2>2. CASE AcquireFails
    BY <2>2 DEF AcquireFails
  <2>3. ASSUME NEW mv \in AdcMv, ReadAxis(mv) PROVE FeedbackInv'
    <3>1. pc = "read" /\ active' = active
      BY <2>3 DEF ReadAxis
    <3>2. \/ pc' = "read" /\ i' = i + 1
          \/ pc' = "targets" /\ i + 1 >= NumAxes
      BY <2>3, <1>0, MagnetorquersAssumption DEF ReadAxis, NextAxis
    <3>3. \A a \in Axis : a # i => feedback'[a] = feedback[a]
      BY <2>3 DEF ReadAxis, TypeOK
    <3>4. PICK ofs : feedback'[i] = Measured(mv, ofs, active[i]) /\ ofs \in Int
      <4>1. (IF active[i] = 0 THEN Average(IF active[i] = 0 THEN Push(window[i], mv, HistLen)
                                           ELSE window[i])
             ELSE ofs_mv[i]) \in Int
        <5>1. CASE active[i] = 0
          BY <1>0, <5>1, PushType, AverageAssumption DEF TypeOK
        <5>2. CASE active[i] # 0
          BY <1>0, <5>2 DEF TypeOK
        <5> QED BY <5>1, <5>2
      <4> QED BY <2>3, <4>1 DEF ReadAxis, TypeOK
    <3>5. mv \in Int /\ active[i] \in Int
      BY <1>0, MagnetorquersAssumption DEF TypeOK
    <3>6. (feedback'[i] > 0 => active[i] >= 0) /\ (feedback'[i] < 0 => active[i] < 0)
      BY <3>4, <3>5, MeasuredSign
    <3>7. \A a \in Axis : FeedbackFresh(a)' => a = i \/ FeedbackFresh(a)
      BY <1>0, <3>1, <3>2, MagnetorquersAssumption DEF FeedbackFresh, Axis
    <3> QED BY <3>1, <3>2, <3>3, <3>6, <3>7 DEF FeedbackInv, FeedbackSignMatchesDrive
  <2>4. CASE ReadFails
    BY <2>4 DEF ReadFails
  <2>5. CASE ControlAxis
    <3>1. pc = "targets" /\ pc' \in {"targets", "output"} /\ UNCHANGED <<feedback, active>>
      BY <2>5 DEF ControlAxis, NextAxis
    <3> QED BY <3>1, FeedbackQuietStep DEF FeedbackFresh
  <2>6. CASE OutputUnchanged \/ OutputPhaseFails
    <3>1. pc = "output" /\ UNCHANGED <<feedback, active>>
      BY <2>6 DEF OutputUnchanged, OutputPhaseFails
    <3>2. (pc' = "output" /\ i' = i + 1) \/ (pc' = "publish" /\ i' = 0)
      BY <2>6 DEF OutputUnchanged, OutputPhaseFails, NextAxis
    <3> QED BY <1>0, <3>1, <3>2, FeedbackQuietStep DEF FeedbackFresh, Axis
  <2>7. CASE OutputPhase
    <3>1. pc = "output" /\ pc' = "pwm" /\ UNCHANGED <<i, feedback, active>>
      BY <2>7 DEF OutputPhase
    <3> QED BY <3>1, FeedbackQuietStep DEF FeedbackFresh
  <2>8. CASE OutputPwm \/ OutputPwmFails
    <3>1. pc = "pwm" /\ pc' = "active" /\ UNCHANGED <<i, feedback, active>>
      BY <2>8 DEF OutputPwm, OutputPwmFails
    <3> QED BY <3>1, FeedbackQuietStep DEF FeedbackFresh
  <2>9. CASE OutputActive
    <3>1. pc = "active" /\ feedback' = feedback
      BY <2>9 DEF OutputActive
    <3>2. (pc' = "output" /\ i' = i + 1) \/ (pc' = "publish" /\ i' = 0)
      BY <2>9 DEF OutputActive, NextAxis
    <3>3. \A a \in Axis : a # i => active'[a] = active[a]
      BY <2>9 DEF OutputActive, TypeOK
    <3>4. \A a \in Axis : FeedbackFresh(a)' => a # i /\ FeedbackFresh(a)
      BY <1>0, <3>1, <3>2 DEF FeedbackFresh, Axis
    <3> QED BY <3>1, <3>2, <3>3, <3>4 DEF FeedbackInv, FeedbackSignMatchesDrive
  <2>10. CASE Publish
    BY <2>10, FeedbackQuietStep DEF Publish, FeedbackInv, FeedbackFresh
  <2>11. CASE Sleep
    BY <2>11, FeedbackQuietStep DEF Sleep, FeedbackInv, FeedbackFresh
  <2> QED BY <1>3, <2>1, <2>2, <2>3, <2>4, <2>5, <2>6, <2>7, <2>8, <2>9, <2>10, <2>11 DEF Iterate
<1>4. CASE \E a \in Axis, ua \in Setpoints : SdoWrite(a, ua)
  BY <1>4, FeedbackQuietStep DEF SdoWrite, FeedbackInv, FeedbackFresh
<1>5. CASE UNCHANGED vars
  BY <1>5, FeedbackQuietStep DEF vars, FeedbackInv, FeedbackFresh
<1> QED BY <1>1, <1>2, <1>3, <1>4, <1>5 DEF Next, Thread

(* When the ADC answers, control_current never compares its goal with a    *)
(* feedback whose sign contradicts the drive it was measured under, not    *)
(* even one of a sample that wrapped below its offset                      *)
(* (get_current_readings).                                                 *)
THEOREM FeedbackTheorem ==
  ASSUME "acquire" \notin Faults, "read" \notin Faults
  PROVE  Spec => []FeedbackSignMatchesDrive
<1>1. Init => FeedbackInv
  BY DEF Init, FeedbackInv, FeedbackSignMatchesDrive, FeedbackFresh
<1>2. TypeOK /\ FeedbackInv /\ [Next]_vars => FeedbackInv'
  BY FeedbackStep
<1>3. FeedbackInv => FeedbackSignMatchesDrive
  BY DEF FeedbackInv
<1> QED BY <1>1, <1>2, <1>3, LimitsTheorem, PTL DEF Spec
-----------------------------------------------------------------------------
(* The magnetorquer thread implements CoilDrive, for any number of axes    *)
(* and whatever calls fail except the writing of a duty.                   *)

(* The duty that stands on a coil: the one that counts as active, or the   *)
(* goal once it has been written and before it counts as active.           *)
Standing(a) == IF pc = "active" /\ a = i THEN goal[a] ELSE active[a]

LEMMA AppliedIsStanding ==
  ASSUME TypeOK, CoilInv
  PROVE  [a \in Axis |-> AppliedDrive(a)] = [a \in Axis |-> Standing(a)]
<1> SUFFICES ASSUME NEW a \in Axis PROVE AppliedDrive(a) = Standing(a)
  OBVIOUS
<1>0. active[a] \in Int /\ goal[a] \in Int
  BY DEF TypeOK
<1>1. CASE pc = "pwm" /\ a = i
  <2>1. width[a] = Abs(active[a])
    BY <1>1 DEF CoilInv
  <2> QED BY <1>0, <1>1, <2>1 DEF AppliedDrive, Standing, Abs
<1>2. CASE pc = "active" /\ a = i
  <2>1. CoilMatches(a, goal[a])
    BY <1>2 DEF CoilInv
  <2> QED BY <1>0, <1>2, <2>1, MatchedDrive DEF AppliedDrive, Standing
<1>3. CASE ~(pc = "pwm" /\ a = i) /\ ~(pc = "active" /\ a = i)
  <2>1. CoilMatches(a, active[a])
    BY <1>3 DEF CoilInv
  <2> QED BY <1>0, <1>3, <2>1, MatchedDrive DEF AppliedDrive, Standing
<1> QED BY <1>1, <1>2, <1>3

LEMMA AppliedIsStandingNext ==
  (TypeOK /\ CoilInv => [a \in Axis |-> AppliedDrive(a)] = [a \in Axis |-> Standing(a)])'
<1>1. TypeOK /\ CoilInv => [a \in Axis |-> AppliedDrive(a)] = [a \in Axis |-> Standing(a)]
  BY AppliedIsStanding
<1> QED BY <1>1, PTL

LEMMA CoilDriveInit == Init => Promise!Init
<1> SUFFICES ASSUME Init PROVE Promise!Init
  OBVIOUS
<1>1. \A a \in Axis : AppliedDrive(a) = 0
  BY DEF Init, AppliedDrive, Drive
<1>2. [a \in Axis |-> AppliedDrive(a)] = [a \in Axis |-> 0]
  BY <1>1
<1> QED BY <1>2 DEF Init, Promise!Init, CoilOn

(* A step that leaves the goals, what stands on the coils and the driver   *)
(* stage alone is a stutter.                                               *)
LEMMA CoilDriveStutter ==
  ASSUME TypeOK, CoilInv, TypeOK', CoilInv', goal' = goal, CoilOn' = CoilOn,
         \A a \in Axis : Standing(a)' = Standing(a)
  PROVE  UNCHANGED Promise!vars
<1>1. [a \in Axis |-> AppliedDrive(a)] = [a \in Axis |-> Standing(a)]
  BY AppliedIsStanding
<1>2. [a \in Axis |-> AppliedDrive(a)]' = [a \in Axis |-> Standing(a)]'
  BY AppliedIsStandingNext
<1>3. [a \in Axis |-> Standing(a)]' = [a \in Axis |-> Standing(a)]
  OBVIOUS
<1> QED BY <1>1, <1>2, <1>3 DEF Promise!vars

LEMMA CoilDriveStep ==
  ASSUME "pwm" \notin Faults, TypeOK, WithinLimits, CoilInv, BringUpInv, [Next]_vars,
         TypeOK', WithinLimits', CoilInv', BringUpInv'
  PROVE  [Promise!Next]_(Promise!vars)
<1> DEFINE applied == [a \in Axis |-> AppliedDrive(a)]
<1> USE DEF control, report, driver, coils, od
<1>1. CASE Startup
  BY <1>1, CoilDriveStutter DEF Startup, CoilOn, Standing
<1>2. CASE InitMagnetorquer
  <2>1. pc \in InitPcs /\ pc \notin LoopPcs /\ pc # "active" /\ goal' = goal
    BY <1>2 DEF InitMagnetorquer, InitFails, InitGpios, WriteCurrentLimit, InitDevices, SetEnable,
                SetStandby, ZeroCoil, InitPcs, LoopPcs
  <2>2. pc' # "active" /\ active' = active
    BY <1>2, NextAxisType DEF InitMagnetorquer, InitFails, InitGpios, WriteCurrentLimit,
       InitDevices, SetEnable, SetStandby, ZeroCoil, NextAxis
  <2>3. \A a \in Axis : Standing(a)' = Standing(a)
    BY <2>1, <2>2 DEF Standing
  <2>4. applied = [a \in Axis |-> Standing(a)]
    BY AppliedIsStanding
  <2>5. applied' = [a \in Axis |-> Standing(a)]'
    BY AppliedIsStandingNext
  <2>6. applied' = applied
    BY <2>3, <2>4, <2>5
  <2>7. CoilOn \in BOOLEAN /\ CoilOn' \in BOOLEAN
    BY DEF CoilOn
  <2>8. ~CoilOn
    BY <2>1 DEF BringUpInv, InitPcs, CoilOn
  <2> QED BY <2>1, <2>6, <2>7, <2>8 DEF Promise!Next, Promise!SwitchOn, Promise!vars
<1>3. CASE Iterate
  <2>0. pc \in LoopPcs /\ pc' \in LoopPcs /\ UNCHANGED driver
    BY <1>3 DEF Iterate, Acquire, AcquireFails, ReadAxis, ReadFails, ControlAxis, OutputUnchanged,
                OutputPhase, OutputPhaseFails, OutputPwm, OutputPwmFails, OutputActive, Publish,
                Sleep, NextAxis, LoopPcs
  <2>1. CoilOn /\ CoilOn' = CoilOn
    BY <2>0 DEF CoilOn, BringUpInv
  <2>2. CASE Acquire \/ AcquireFails
    BY <2>1, <2>2, CoilDriveStutter DEF Acquire, AcquireFails, Standing
  <2>3. CASE (\E mv \in AdcMv : ReadAxis(mv)) \/ ReadFails
    <3>1. pc # "active" /\ pc' # "active" /\ UNCHANGED <<goal, active>>
      BY <2>3 DEF ReadAxis, ReadFails, NextAxis
    <3> QED BY <2>1, <3>1, CoilDriveStutter DEF Standing
  <2>4. CASE ControlAxis
    <3>1. pc # "active" /\ pc' # "active" /\ active' = active
      BY <2>4 DEF ControlAxis, NextAxis
    <3>2. applied' = applied
      <4>1. \A a \in Axis : Standing(a)' = Standing(a)
        BY <3>1 DEF Standing
      <4> QED BY <4>1, AppliedIsStanding, AppliedIsStandingNext
    <3>3. PICK duty : goal' = [goal EXCEPT ![i] = duty]
      BY <2>4 DEF ControlAxis
    <3>4. i \in Axis /\ duty = goal'[i] /\ goal'[i] \in -MaxDuty .. MaxDuty
      BY <3>3 DEF TypeOK, WithinLimits
    <3>5. Promise!SetGoal(i, duty)
      BY <2>1, <3>2, <3>3 DEF Promise!SetGoal
    <3> QED BY <3>4, <3>5 DEF Promise!Next
  <2>5. CASE OutputUnchanged \/ OutputPhaseFails
    <3>1. pc # "active" /\ pc' # "active" /\ UNCHANGED <<goal, active>>
      BY <2>5 DEF OutputUnchanged, OutputPhaseFails, NextAxis
    <3> QED BY <2>1, <3>1, CoilDriveStutter DEF Standing
  <2>6. CASE OutputPhase
    <3>1. pc # "active" /\ pc' # "active" /\ UNCHANGED <<goal, active>>
      BY <2>6 DEF OutputPhase
    <3> QED BY <2>1, <3>1, CoilDriveStutter DEF Standing
  <2>7. CASE OutputPwm
    <3>1. pc # "active" /\ pc' = "active" /\ UNCHANGED <<i, goal, active>>
      BY <2>7 DEF OutputPwm
    <3>2. \A a \in Axis : Standing(a)' = IF a = i THEN goal[a] ELSE Standing(a)
      BY <3>1 DEF Standing
    <3>3. applied' = [applied EXCEPT ![i] = goal[i]]
      BY <3>2, AppliedIsStanding, AppliedIsStandingNext
    <3>4. Promise!Apply(i)
      BY <2>1, <3>1, <3>3 DEF Promise!Apply
    <3> QED BY <3>4 DEF Promise!Next, TypeOK
  <2>8. CASE OutputPwmFails
    BY <2>8 DEF OutputPwmFails
  <2>9. CASE OutputActive
    <3>1. pc = "active" /\ pc' # "active" /\ goal' = goal
      BY <2>9 DEF OutputActive, NextAxis
    <3>2. active' = [active EXCEPT ![i] = goal[i]]
      BY <2>9 DEF OutputActive
    <3>3. \A a \in Axis : Standing(a)' = Standing(a)
      BY <3>1, <3>2 DEF Standing, TypeOK
    <3> QED BY <2>1, <3>1, <3>3, CoilDriveStutter
  <2>10. CASE Publish
    BY <2>1, <2>10, CoilDriveStutter DEF Publish, Standing
  <2>11. CASE Sleep
    BY <2>1, <2>11, CoilDriveStutter DEF Sleep, Standing
  <2> QED BY <1>3, <2>2, <2>3, <2>4, <2>5, <2>6, <2>7, <2>8, <2>9, <2>10, <2>11 DEF Iterate
<1>4. CASE \E a \in Axis, ua \in Setpoints : SdoWrite(a, ua)
  BY <1>4, CoilDriveStutter DEF SdoWrite, CoilOn, Standing
<1>5. CASE UNCHANGED vars
  BY <1>5, CoilDriveStutter DEF vars, CoilOn, Standing
<1> QED BY <1>1, <1>2, <1>3, <1>4, <1>5 DEF Next, Thread

(* The thread implements CoilDrive: the driver stage is switched on once   *)
(* with every coil at rest and stays on, and from then on a coil's drive   *)
(* only ever becomes the goal control_current has set, in one step         *)
(* (set_pwm_output, under the scheduler lock).                             *)
THEOREM CoilDriveTheorem ==
  ASSUME "pwm" \notin Faults
  PROVE  Spec => ImplementsCoilDrive
<1>1. Init => Promise!Init
  BY CoilDriveInit
<1>2. /\ TypeOK /\ WithinLimits /\ CoilInv /\ BringUpInv /\ [Next]_vars
      /\ (TypeOK /\ WithinLimits)' /\ CoilInv' /\ BringUpInv'
      => [Promise!Next]_(Promise!vars)
  BY CoilDriveStep
<1> QED BY <1>1, <1>2, LimitsTheorem, BringUpInvariance, CoilInvariance, PTL
        DEF Spec, ImplementsCoilDrive, Promise!Spec
=============================================================================
