---------------------------- MODULE Magnetorquers ----------------------------
(***************************************************************************)
(* The magnetorquer thread of src/magnetorquers.c (magtqr_thread, normal   *)
(* build): it brings the coil drivers up, then repeats for ever the        *)
(* iteration that reads the coil currents, runs one current controller per *)
(* axis, drives the coils and exchanges data with the CANopen object       *)
(* dictionary.  The CAN thread runs at a higher priority and writes the    *)
(* setpoints between any two steps, except while the scheduler is locked.  *)
(*                                                                         *)
(* Not in this module: the sensor readings the thread copies to the object *)
(* dictionary and the time it sleeps (LoopPacing); log output; the fields  *)
(* error, feedback_measurement_V and last_update_time, which nothing reads *)
(* back.                                                                   *)
(***************************************************************************)
EXTENDS Integers, Sequences, FiniteSets, CurrentControl, Windows

CONSTANTS
  NumAxes,          (* three coils: x, y, z                                 *)
  MaxUa,            (* max_i_ua: axis -> largest current                    *)
  HistLen,          (* HIST_LEN, samples in the offset average              *)
  AdcMv,            (* the millivolts an ADC channel can read               *)
  Setpoints,        (* the currents the C3 may command                      *)
  Average(_),       (* update_windowed_average on a window (WindowedAverage)*)
  Faults            (* the kinds of call that may fail                      *)

Axis == 0 .. NumAxes - 1

(* "init": any fallible step of init_magnetorquer; "acquire", "read": the  *)
(* ADC; "phase": gpio_pin_set_dt on a phase pin; "pwm": pwm_set_cycles.    *)
FaultKinds == {"init", "acquire", "read", "phase", "pwm"}

SampleWindows == UNION {[1 .. n -> AdcMv] : n \in 0 .. HistLen}

ASSUME MagnetorquersAssumption ==
  /\ NumAxes \in Nat \ {0}
  /\ MaxUa \in [Axis -> 1 .. IntMax]
  /\ HistLen \in Nat \ {0}
  /\ AdcMv \subseteq Nat /\ AdcMv # {}
  /\ Setpoints \subseteq Word
  /\ Faults \subseteq FaultKinds

(* What WindowedAverage shows of update_windowed_average.                  *)
ASSUME AverageAssumption ==
  \A w \in SampleWindows : Len(w) > 0 =>
    /\ Average(w) \in Int
    /\ \E j, k \in DOMAIN w : w[j] <= Average(w) /\ Average(w) <= w[k]

VARIABLES
  pc,               (* the step the thread is about to take                 *)
  i,                (* the axis of the loop it is in                        *)
  sched_locked,     (* k_sched_lock is held                                 *)
  (* g_adcs_data.mt_pwm_data[axis] *)
  target,           (* target_current_uA                                    *)
  target_changed,
  goal,             (* goal_pwm_percent, negative for an inverted phase     *)
  active,           (* active_pwm_percent, negative for an inverted phase   *)
  window,           (* ofs_mv_store                                         *)
  ofs_mv,
  feedback,         (* feedback_measurement_uA                              *)
  integral,
  phase_state,
  (* the return value of set_pwm_output, and the axes whose last duty could *)
  (* not be written (history)                                               *)
  err,
  missed,
  (* outputs of the board *)
  ilim_set,         (* the DAC holds MT_ILIM_DAC_VALUE                      *)
  mt_en,
  n_mt_stby_rst,
  phase_pin,        (* TRUE when the coil is driven inverted                *)
  width,            (* duty of the coil's PWM channel                       *)
  (* CO_OD_RAM.magnetorquer *)
  setpoint,         (* current_x/y/z_setpoint                               *)
  od_current,       (* current_x/y/z                                        *)
  od_pwm            (* pwm_x/y/z                                            *)

control == <<target, target_changed, goal, active, window, ofs_mv, feedback, integral, phase_state>>
report  == <<err, missed>>
driver  == <<ilim_set, mt_en, n_mt_stby_rst>>
coils   == <<phase_pin, width>>
od      == <<setpoint, od_current, od_pwm>>
vars    == <<pc, i, sched_locked, control, report, driver, coils, od>>

InitPcs == {"delay", "gpios", "ilim", "devices", "en_low", "stby_high", "zero",
            "reset_en_low", "reset_stby_low", "reset_en_high", "reset_stby_high"}
LoopPcs == {"acquire", "read", "targets", "output", "pwm", "active", "publish", "sleep"}

Init ==
  /\ pc = "delay" /\ i = 0 /\ sched_locked = FALSE
  /\ target = [a \in Axis |-> 0]
  /\ target_changed = [a \in Axis |-> FALSE]
  /\ goal = [a \in Axis |-> 0]
  /\ active = [a \in Axis |-> 0]
  /\ window = [a \in Axis |-> <<>>]
  /\ ofs_mv = [a \in Axis |-> 0]
  /\ feedback = [a \in Axis |-> 0]
  /\ integral = [a \in Axis |-> 0]
  /\ phase_state = [a \in Axis |-> FALSE]
  /\ err = FALSE /\ missed = {}
  /\ ilim_set = FALSE /\ mt_en = FALSE /\ n_mt_stby_rst = FALSE
  /\ phase_pin = [a \in Axis |-> FALSE]
  /\ width = [a \in Axis |-> 0]
  /\ setpoint = [a \in Axis |-> 0]
  /\ od_current = [a \in Axis |-> 0]
  /\ od_pwm = [a \in Axis |-> 0]

(* The end of one pass of a for loop over the axes: the next axis, at the  *)
(* head of the loop, or what follows the loop.                             *)
NextAxis(head, after) ==
  IF i + 1 < NumAxes
  THEN pc' = head /\ i' = i + 1
  ELSE pc' = after /\ i' = 0

-----------------------------------------------------------------------------
(* init_magnetorquer and reset_magnetorquer.  Each call may fail, and then *)
(* the thread returns, leaving the outputs as they are.                    *)

Startup ==
  /\ pc = "delay"
  /\ pc' = "gpios"
  /\ UNCHANGED <<i, sched_locked, control, report, driver, coils, od>>

InitFails ==
  /\ "init" \in Faults
  /\ pc \in InitPcs \ {"delay"}
  /\ pc' = "stopped"
  /\ UNCHANGED <<i, sched_locked, control, report, driver, coils, od>>

(* init_gpios and init_mt_gpios: enable low, standby and phases inactive.  *)
InitGpios ==
  /\ pc = "gpios"
  /\ pc' = "ilim"
  /\ mt_en' = FALSE /\ n_mt_stby_rst' = FALSE
  /\ phase_pin' = [a \in Axis |-> FALSE]
  /\ UNCHANGED <<i, sched_locked, control, report, ilim_set, width, od>>

(* init_dac and write_dac(MT_ILIM_DAC_VALUE). *)
WriteCurrentLimit ==
  /\ pc = "ilim"
  /\ pc' = "devices"
  /\ ilim_set' = TRUE
  /\ UNCHANGED <<i, sched_locked, control, report, mt_en, n_mt_stby_rst, coils, od>>

(* init_pwm and init_adc. *)
InitDevices ==
  /\ pc = "devices"
  /\ pc' = "en_low"
  /\ UNCHANGED <<i, sched_locked, control, report, driver, coils, od>>

(* gpio_pin_set_dt on mt_en or n_mt_stby_rst, and the step that follows.   *)
SetEnable(at, level, after) ==
  /\ pc = at
  /\ pc' = after
  /\ mt_en' = level
  /\ UNCHANGED <<i, sched_locked, control, report, ilim_set, n_mt_stby_rst, coils, od>>

SetStandbyStuck(at, level, after) ==          \* mutant: standby is not entered again
  /\ pc = at
  /\ pc' = after
  /\ n_mt_stby_rst' = TRUE
  /\ UNCHANGED <<i, sched_locked, control, report, ilim_set, mt_en, coils, od>>

SetStandby(at, level, after) ==
  /\ pc = at
  /\ pc' = after
  /\ n_mt_stby_rst' = level
  /\ UNCHANGED <<i, sched_locked, control, report, ilim_set, mt_en, coils, od>>

(* set_pwm_phase(axis, false) and set_pwm(axis, 0), axis by axis.          *)
ZeroCoil ==
  /\ pc = "zero"
  /\ phase_pin' = [phase_pin EXCEPT ![i] = FALSE]
  /\ width' = [width EXCEPT ![i] = 0]
  /\ NextAxis("zero", "reset_en_low")
  /\ UNCHANGED <<sched_locked, control, report, driver, od>>

InitMagnetorquer ==
  \/ InitFails
  \/ InitGpios
  \/ WriteCurrentLimit
  \/ InitDevices
  \/ SetEnable("en_low", FALSE, "stby_high")
  \/ SetStandby("stby_high", TRUE, "zero")
  \/ ZeroCoil
  \/ SetEnable("reset_en_low", FALSE, "reset_stby_low")
  \/ SetStandby("reset_stby_low", FALSE, "reset_en_high")
  \/ SetEnable("reset_en_high", TRUE, "reset_stby_high")
  \/ SetStandby("reset_stby_high", TRUE, "acquire")

-----------------------------------------------------------------------------
(* get_current_readings *)

Acquire ==
  /\ pc = "acquire"
  /\ pc' = "read"
  /\ UNCHANGED <<i, sched_locked, control, report, driver, coils, od>>

(* A failed acquisition returns 0 with every feedback as it was.           *)
AcquireFails ==
  /\ "acquire" \in Faults
  /\ pc = "acquire"
  /\ pc' = "targets"
  /\ UNCHANGED <<i, sched_locked, control, report, driver, coils, od>>

(* One channel: the offset is learnt while the coil is at rest.            *)
ReadAxis(mv) ==
  /\ pc = "read"
  /\ LET learnt == IF active[i] = 0 THEN Push(window[i], mv, HistLen) ELSE window[i]
         offset == IF active[i] = 0 THEN Average(learnt) ELSE ofs_mv[i]
     IN  /\ window' = [window EXCEPT ![i] = learnt]
         /\ ofs_mv' = [ofs_mv EXCEPT ![i] = offset]
         /\ feedback' = [feedback EXCEPT ![i] = Measured(mv, offset, active[i])]
  /\ NextAxis("read", "targets")
  /\ UNCHANGED <<sched_locked, target, target_changed, goal, active, integral, phase_state,
                 report, driver, coils, od>>

ReadFails ==
  /\ "read" \in Faults
  /\ pc = "read"
  /\ NextAxis("read", "targets")
  /\ UNCHANGED <<sched_locked, control, report, driver, coils, od>>

-----------------------------------------------------------------------------
(* process_can_open_targets: the setpoint is read without the OD lock.     *)
ControlAxis ==
  /\ pc = "targets"
  /\ LET result == ControlCurrent(setpoint[i], feedback[i], integral[i], MaxUa[i])
     IN  /\ goal' = [goal EXCEPT ![i] = result.duty]
         /\ integral' = [integral EXCEPT ![i] = result.integral]
  /\ target_changed' = [target_changed EXCEPT ![i] = FALSE]
  /\ NextAxis("targets", "output")
  /\ err' = FALSE
  /\ UNCHANGED <<sched_locked, target, active, window, ofs_mv, feedback, phase_state,
                 missed, driver, coils, od>>

-----------------------------------------------------------------------------
(* set_pwm_output *)

OutputUnchanged ==
  /\ pc = "output"
  /\ active[i] = goal[i]
  /\ NextAxis("output", "publish")
  /\ UNCHANGED <<sched_locked, control, report, driver, coils, od>>

(* The scheduler is locked and the phase pin written, if it must change.   *)
OutputPhaseStale ==                           \* mutant: phase_state is not kept
  /\ pc = "output"
  /\ active[i] # goal[i]
  /\ pc' = "pwm"
  /\ sched_locked' = TRUE
  /\ phase_pin' = IF phase_state[i] # (goal[i] < 0)
                  THEN [phase_pin EXCEPT ![i] = (goal[i] < 0)] ELSE phase_pin
  /\ UNCHANGED <<i, control, report, driver, width, od>>

OutputPhase ==
  /\ pc = "output"
  /\ active[i] # goal[i]
  /\ pc' = "pwm"
  /\ sched_locked' = TRUE
  /\ phase_pin' = IF phase_state[i] # (goal[i] < 0)
                  THEN [phase_pin EXCEPT ![i] = (goal[i] < 0)] ELSE phase_pin
  /\ phase_state' = [phase_state EXCEPT ![i] = (goal[i] < 0)]
  /\ UNCHANGED <<i, target, target_changed, goal, active, window, ofs_mv, feedback, integral,
                 report, driver, width, od>>

(* The phase pin cannot be written: the axis keeps its old drive.          *)
OutputPhaseFailsButActive ==                  \* mutant: the goal counts as active
  /\ "phase" \in Faults
  /\ pc = "output"
  /\ active[i] # goal[i]
  /\ phase_state[i] # (goal[i] < 0)
  /\ err' = TRUE
  /\ active' = [active EXCEPT ![i] = goal[i]]
  /\ NextAxis("output", "publish")
  /\ UNCHANGED <<sched_locked, target, target_changed, goal, window, ofs_mv, feedback, integral,
                 phase_state, missed, driver, coils, od>>

OutputPhaseFails ==
  /\ "phase" \in Faults
  /\ pc = "output"
  /\ active[i] # goal[i]
  /\ phase_state[i] # (goal[i] < 0)
  /\ err' = TRUE
  /\ NextAxis("output", "publish")
  /\ UNCHANGED <<sched_locked, control, missed, driver, coils, od>>

(* set_pwm, whose result is ignored, and the scheduler is unlocked.        *)
OutputPwm ==
  /\ pc = "pwm"
  /\ pc' = "active"
  /\ sched_locked' = FALSE
  /\ width' = [width EXCEPT ![i] = Abs(goal[i])]
  /\ missed' = missed \ {i}
  /\ UNCHANGED <<i, control, err, driver, phase_pin, od>>

OutputPwmFails ==
  /\ "pwm" \in Faults
  /\ pc = "pwm"
  /\ pc' = "active"
  /\ sched_locked' = FALSE
  /\ missed' = missed \cup {i}
  /\ UNCHANGED <<i, control, err, driver, coils, od>>

OutputActive ==
  /\ pc = "active"
  /\ active' = [active EXCEPT ![i] = goal[i]]
  /\ NextAxis("output", "publish")
  /\ UNCHANGED <<sched_locked, target, target_changed, goal, window, ofs_mv, feedback, integral,
                 phase_state, report, driver, coils, od>>

-----------------------------------------------------------------------------
(* handle_can_open_data.  It holds the OD lock throughout, which the SDO   *)
(* server takes too for each write, so the copies are one step.            *)
PublishGoal ==                                \* mutant: publishes the goal
  /\ pc = "publish"
  /\ pc' = "sleep"
  /\ target' = setpoint
  /\ target_changed' = [a \in Axis |-> target_changed[a] \/ target[a] # setpoint[a]]
  /\ od_current' = feedback
  /\ od_pwm' = goal
  /\ UNCHANGED <<i, sched_locked, goal, active, window, ofs_mv, feedback, integral, phase_state,
                 report, driver, coils, setpoint>>

Publish ==
  /\ pc = "publish"
  /\ pc' = "sleep"
  /\ target' = setpoint
  /\ target_changed' = [a \in Axis |-> target_changed[a] \/ target[a] # setpoint[a]]
  /\ od_current' = feedback
  /\ od_pwm' = active
  /\ UNCHANGED <<i, sched_locked, goal, active, window, ofs_mv, feedback, integral, phase_state,
                 report, driver, coils, setpoint>>

Sleep ==
  /\ pc = "sleep"
  /\ pc' = "acquire"
  /\ UNCHANGED <<i, sched_locked, control, report, driver, coils, od>>

Iterate ==
  \/ Acquire \/ AcquireFails
  \/ \E mv \in AdcMv : ReadAxis(mv)
  \/ ReadFails
  \/ ControlAxis
  \/ OutputUnchanged \/ OutputPhase \/ OutputPhaseFails
  \/ OutputPwm \/ OutputPwmFails \/ OutputActive
  \/ Publish
  \/ Sleep

Thread == Startup \/ InitMagnetorquer \/ Iterate

(* The C3 writes a setpoint: the CAN thread's SDO server preempts the      *)
(* magnetorquer thread, except while the scheduler is locked.              *)
SdoWrite(a, ua) ==
  /\ ~sched_locked
  /\ setpoint' = [setpoint EXCEPT ![a] = ua]
  /\ UNCHANGED <<pc, i, sched_locked, control, report, driver, coils, od_current, od_pwm>>

Next == Thread \/ \E a \in Axis, ua \in Setpoints : SdoWrite(a, ua)

Spec == Init /\ [][Next]_vars

(* The thread always has something to do or sleeps for a bounded time, and *)
(* the threads above it sleep in every cycle.                              *)
FairSpec == Spec /\ WF_vars(Thread)

-----------------------------------------------------------------------------
TypeOK ==
  /\ pc \in InitPcs \cup LoopPcs \cup {"stopped"}
  /\ i \in Axis
  /\ sched_locked \in BOOLEAN
  /\ target \in [Axis -> Word]
  /\ target_changed \in [Axis -> BOOLEAN]
  /\ goal \in [Axis -> Int]
  /\ active \in [Axis -> Int]
  /\ window \in [Axis -> SampleWindows]
  /\ ofs_mv \in [Axis -> Int]
  /\ feedback \in [Axis -> Word]
  /\ integral \in [Axis -> Int]
  /\ phase_state \in [Axis -> BOOLEAN]
  /\ err \in BOOLEAN /\ missed \in SUBSET Axis
  /\ ilim_set \in BOOLEAN /\ mt_en \in BOOLEAN /\ n_mt_stby_rst \in BOOLEAN
  /\ phase_pin \in [Axis -> BOOLEAN]
  /\ width \in [Axis -> Nat]
  /\ setpoint \in [Axis -> Word]
  /\ od_current \in [Axis -> Word]
  /\ od_pwm \in [Axis -> Int]

(* Whatever the C3 commands and the ADC reads, wrapped samples included,   *)
(* the controller's integral stays within the axis's largest current and   *)
(* every duty, wanted, applied or published, within the full duty.         *)
WithinLimits ==
  \A a \in Axis :
    /\ integral[a] \in -MaxUa[a] .. MaxUa[a]
    /\ goal[a] \in -MaxDuty .. MaxDuty
    /\ active[a] \in -MaxDuty .. MaxDuty
    /\ width[a] \in 0 .. MaxDuty
    /\ od_pwm[a] \in -MaxDuty .. MaxDuty

CoilOn == mt_en /\ n_mt_stby_rst

Drive(a) == IF phase_pin[a] THEN -width[a] ELSE width[a]

(* The driver stage is on only after its current limit has been set and    *)
(* while the iteration runs: a bring-up that fails at any call leaves it   *)
(* off, and it is switched on with every coil at rest.                     *)
DriverOnlyOnInLoop ==
  CoilOn => ilim_set /\ pc \in LoopPcs

(* As long as duties can be written, the phase pin and the duty of a coil  *)
(* are what active_pwm_percent says, whatever phase pins could not be      *)
(* written: they differ from it only for the axis whose output is being    *)
(* changed, and from each other only while the scheduler is locked.        *)
CoilMatches(a, duty) == phase_pin[a] = (duty < 0) /\ width[a] = Abs(duty)

CoilsFollowActive ==
  \A a \in Axis :
    IF a = i /\ pc = "pwm" THEN sched_locked
    ELSE IF a = i /\ pc = "active" THEN CoilMatches(a, goal[a])
    ELSE CoilMatches(a, active[a])

(* The output of axis a is not being changed and has not been changed      *)
(* since the object dictionary was last updated.                           *)
OutputPending(a) ==
  \/ pc \in {"output", "pwm", "active"} /\ a < i
  \/ pc \in {"pwm", "active"} /\ a = i
  \/ pc = "publish"

(* The pwm_x/y/z that the C3 reads is what the coil is being driven with,  *)
(* outside the short time between an output and the next publication.      *)
TelemetryMatchesCoils ==
  \A a \in Axis : ~OutputPending(a) => od_pwm[a] = Drive(a)

(* The controller compares its goal with a feedback of the sign of the     *)
(* drive it was measured under: between the measurement and the output,    *)
(* feedback and active duty never disagree in sign.                        *)
FeedbackFresh(a) ==
  \/ pc = "read" /\ a < i
  \/ pc = "targets"
  \/ pc \in {"output", "pwm", "active"} /\ a >= i

FeedbackSignMatchesDrive ==
  \A a \in Axis : FeedbackFresh(a) =>
    /\ feedback[a] > 0 => active[a] >= 0
    /\ feedback[a] < 0 => active[a] < 0

(* A coil whose setpoint stays 0 is eventually no longer driven, for ever, *)
(* even when ADC acquisitions and reads keep failing: the zero command is  *)
(* honoured whatever the feedback was.  Duties may have failed to be       *)
(* written before, but not as the last one of the coil.                    *)
ZeroCommandStopsCoil ==
  \A a \in Axis : <>[](setpoint[a] = 0 /\ a \notin missed) => <>[](Drive(a) = 0)

(* src/magnetorquers.c:555-558: the op-amp offset is "removed below" and    *)
(* amounts to at most a few mV when PWM = 0, "equivalent to 166 to 1833     *)
(* uA": a coil at rest is measured at no more current than the largest      *)
(* at-rest sample stands for.                                               *)
RestCurrentIsSmall ==
  \A a \in Axis : pc = "targets" /\ active[a] = 0 =>
    Abs(feedback[a]) <= UaPerMv * (CHOOSE m \in AdcMv : \A n \in AdcMv : n <= m)

(* src/magnetorquers.c:820-823: the loop warns "One or more PWM channels    *)
(* could not be set": a pass of set_pwm_output that leaves a coil without   *)
(* its duty returns an error.                                               *)
(* Does not hold: README, section 7.                                        *)
MissedDutyIsReported == pc = "publish" => (missed # {} => err)

(* The thread implements CoilDrive.  While the scheduler is locked the     *)
(* phase pin may already be the new one; the drive is then still the old.  *)
AppliedDrive(a) ==
  IF pc = "pwm" /\ a = i THEN (IF active[a] < 0 THEN -width[a] ELSE width[a]) ELSE Drive(a)

Promise == INSTANCE CoilDrive WITH
  Coil <- Axis, on <- CoilOn, drive <- [a \in Axis |-> AppliedDrive(a)]

ImplementsCoilDrive == Promise!Spec
=============================================================================
