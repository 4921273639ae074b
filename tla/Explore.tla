------------------------------- MODULE Explore -------------------------------
(***************************************************************************)
(* The exploration build of src/magnetorquers.c                            *)
(* (CONFIG_MAGNETORQUER_EXPLORE): the test loop of the magnetorquer thread *)
(* and the shell commands mtpwm, frqpwm, ua2pwm and mtmode that drive the  *)
(* same coils.  The shell has the lowest priority: it runs while the loop  *)
(* sleeps or waits for the ADC, and the loop preempts a command between    *)
(* any two of its steps except under k_sched_lock.  The CAN thread, above  *)
(* both, writes setpoints at any step.                                     *)
(*                                                                         *)
(* The loop's own steps between two waits are one action where neither the *)
(* shell nor the CAN thread can tell.  Not in this module: the bring-up    *)
(* and the failing phase and PWM calls (Magnetorquers), whose results the  *)
(* loop here only logs; what is only printed.  The first ramp is started   *)
(* more than step_ms after boot.                                           *)
(***************************************************************************)
EXTENDS Integers, FiniteSets, CurrentControl, Pwm

CONSTANTS
  NumAxes,
  MaxUa,            (* max_i_ua: axis -> largest current                    *)
  StepUa,           (* mt_ramp_info.step_ua                                 *)
  FirstStopUa,      (* the stop_ua mt_ramp_info is initialised with         *)
  Feedbacks,        (* the currents get_current_readings can measure        *)
  SdoWrites,        (* <<axis, current>>: what the C3 may command           *)
  HandDuties,       (* <<axis, duty>>: what mtpwm may be given              *)
  HandTargets,      (* <<axis, current>>: what ua2pwm may be given          *)
  HandFrequencies,  (* <<axis, frequency>>: what frqpwm may be given        *)
  Modes             (* the modes given to mtmode                            *)

Axis == 0 .. NumAxes - 1

TestModes == {"TM_OFF", "TM_ADC", "TM_CURRENT", "TM_LOOP", "TM_LOOP_RAMP"}

ASSUME ExploreAssumption ==
  /\ NumAxes = NumPwms
  /\ MaxUa \in [Axis -> 1 .. IntMax]
  /\ StepUa \in 1 .. IntMax /\ FirstStopUa \in 0 .. IntMax
  /\ Feedbacks \subseteq Word /\ Feedbacks # {}
  /\ SdoWrites \subseteq Axis \X Word /\ HandTargets \subseteq Axis \X Word
  /\ HandDuties \subseteq Axis \X (-MaxDuty .. MaxDuty) /\ MaxDuty = PercentScale
  /\ \A w \in HandFrequencies : w[1] \in 0 .. NumAxes /\ w[2] \in Nat \ {0}
  /\ Modes \subseteq TestModes

VARIABLES
  lp,               (* where the loop is                                    *)
  sh,               (* where the shell's command is, "idle" at the prompt   *)
  cmd,              (* its axis, its value, the axis and duty of its output *)
  mode,             (* mt_test_mode                                         *)
  ramp_axis,        (* mt_ramp_info.axis                                    *)
  stop_ua,          (* mt_ramp_info.stop_ua                                 *)
  next_ua,          (* the sum the ramp is about to store                   *)
  tlr_printed,      (* the ramp has been entered                            *)
  t_mt_loop,        (* t_mt_loop > 0: the ramp has stepped                  *)
  setpoint, feedback, integral, goal, active, phase_state,
  phase_pin,        (* the pin: TRUE when the coil is driven inverted       *)
  periods,          (* pwm_table[].period                                   *)
  pwm,              (* what each channel is running                         *)
  decided,          (* the duty of the last output of a coil (history)      *)
  by_hand           (* axes that mtpwm has driven (history)                 *)

ramp   == <<ramp_axis, stop_ua, next_ua, tlr_printed, t_mt_loop>>
drive  == <<active, phase_state, phase_pin, pwm, decided>>
explore == <<lp, sh, cmd, mode, ramp, setpoint, feedback, integral, goal, drive, periods, by_hand>>

NoCommand == [axis |-> 0, value |-> 0, i |-> 0, duty |-> 0]

ExploreInit ==
  /\ lp = "switch" /\ sh = "idle" /\ cmd = NoCommand
  /\ mode = "TM_OFF"
  /\ ramp_axis = 0 /\ stop_ua = FirstStopUa /\ next_ua = 0
  /\ tlr_printed = FALSE /\ t_mt_loop = FALSE
  /\ setpoint = [a \in Axis |-> 0]
  /\ feedback = [a \in Axis |-> 0]
  /\ integral = [a \in Axis |-> 0]
  /\ goal = [a \in Axis |-> 0]
  /\ active = [a \in Axis |-> 0]
  /\ phase_state = [a \in Axis |-> FALSE]
  /\ phase_pin = [a \in Axis |-> FALSE]
  /\ periods = InitialPeriods
  /\ pwm = [a \in Axis |-> Cycles(a, InitialPeriods[a], 0)]
  /\ decided = [a \in Axis |-> 0]
  /\ by_hand = {}

-----------------------------------------------------------------------------
(* set_pwm_output with the given goals.  The section under k_sched_lock,   *)
(* for the axes of a set: phase pin, if phase_state says it must change,   *)
(* and pulse.                                                              *)
DriveCoilsPinOnly(as, duty) ==                \* mutant: phase_state is not kept
  /\ phase_pin' = [a \in Axis |-> IF a \in as /\ phase_state[a] # (duty[a] < 0)
                                  THEN duty[a] < 0 ELSE phase_pin[a]]
  /\ phase_state' = phase_state
  /\ pwm' = [a \in Axis |-> IF a \in as THEN Cycles(a, periods[a], Abs(duty[a])) ELSE pwm[a]]
  /\ decided' = [a \in Axis |-> IF a \in as THEN duty[a] ELSE decided[a]]

DriveCoils(as, duty) ==
  /\ phase_pin' = [a \in Axis |-> IF a \in as /\ phase_state[a] # (duty[a] < 0)
                                  THEN duty[a] < 0 ELSE phase_pin[a]]
  /\ phase_state' = [a \in Axis |-> IF a \in as THEN duty[a] < 0 ELSE phase_state[a]]
  /\ pwm' = [a \in Axis |-> IF a \in as THEN Cycles(a, periods[a], Abs(duty[a])) ELSE pwm[a]]
  /\ decided' = [a \in Axis |-> IF a \in as THEN duty[a] ELSE decided[a]]

(* The loop's call: nothing it reads or writes changes under it.           *)
LoopOutput(duty) ==
  /\ goal' = duty
  /\ DriveCoils({a \in Axis : active[a] # duty[a]}, duty)
  /\ active' = duty

-----------------------------------------------------------------------------
(* The loop: one pass of the switch on the mode.                           *)

(* TM_OFF ends a ramp: its axis is commanded to rest, once.                *)
OffKeepsGoal ==                               \* mutant: only the setpoint is reset
  /\ lp = "switch" /\ mode = "TM_OFF"
  /\ lp' = "sleep"
  /\ t_mt_loop' = FALSE /\ tlr_printed' = (tlr_printed /\ ~t_mt_loop)
  /\ setpoint' = IF t_mt_loop THEN [setpoint EXCEPT ![ramp_axis] = 0] ELSE setpoint
  /\ UNCHANGED <<goal, drive>>
  /\ UNCHANGED <<sh, cmd, mode, ramp_axis, stop_ua, next_ua, feedback, integral, periods, by_hand>>

Off ==
  /\ lp = "switch" /\ mode = "TM_OFF"
  /\ lp' = "sleep"
  /\ t_mt_loop' = FALSE /\ tlr_printed' = (tlr_printed /\ ~t_mt_loop)
  /\ IF t_mt_loop
     THEN /\ setpoint' = [setpoint EXCEPT ![ramp_axis] = 0]
          /\ LoopOutput([goal EXCEPT ![ramp_axis] = 0])
     ELSE UNCHANGED <<setpoint, goal, drive>>
  /\ UNCHANGED <<sh, cmd, mode, ramp_axis, stop_ua, next_ua, feedback, integral, periods, by_hand>>

(* The other modes start with an acquisition, at which the loop waits.     *)
Dispatch ==
  /\ lp = "switch"
  /\ \/ mode = "TM_ADC" /\ lp' = "adc"
     \/ mode = "TM_CURRENT" /\ lp' = "current"
     \/ mode = "TM_LOOP" /\ lp' = "loop"
  /\ UNCHANGED <<sh, cmd, mode, ramp, setpoint, feedback, integral, goal, drive, periods, by_hand>>

(* TM_LOOP_RAMP: the first pass sets the start and the upper bound ...     *)
RampEnter ==
  /\ lp = "switch" /\ mode = "TM_LOOP_RAMP" /\ ~tlr_printed
  /\ tlr_printed' = TRUE
  /\ setpoint' = [setpoint EXCEPT ![ramp_axis] = 0]
  /\ stop_ua' = MaxUa[ramp_axis]
  /\ UNCHANGED <<lp, sh, cmd, mode, ramp_axis, next_ua, t_mt_loop, feedback, integral, goal,
                 drive, periods, by_hand>>

(* ... and every step_ms the setpoint is raised, and starts over beyond    *)
(* the bound (compared as unsigned words).  The CAN thread may write it    *)
(* between the read, the store and the test.                               *)
RampWait ==
  /\ lp = "switch" /\ mode = "TM_LOOP_RAMP" /\ tlr_printed
  /\ t_mt_loop
  /\ lp' = "loop"
  /\ UNCHANGED <<sh, cmd, mode, ramp, setpoint, feedback, integral, goal, drive, periods, by_hand>>

RampAdd ==
  /\ lp = "switch" /\ mode = "TM_LOOP_RAMP" /\ tlr_printed
  /\ lp' = "store"
  /\ t_mt_loop' = TRUE
  /\ next_ua' = WrapSigned(setpoint[ramp_axis] + StepUa)
  /\ UNCHANGED <<sh, cmd, mode, ramp_axis, stop_ua, tlr_printed, setpoint, feedback, integral,
                 goal, drive, periods, by_hand>>

RampStore ==
  /\ lp = "store"
  /\ lp' = "test"
  /\ setpoint' = [setpoint EXCEPT ![ramp_axis] = next_ua]
  /\ next_ua' = 0
  /\ UNCHANGED <<sh, cmd, mode, ramp_axis, stop_ua, tlr_printed, t_mt_loop, feedback, integral,
                 goal, drive, periods, by_hand>>

RampTest ==
  /\ lp = "test"
  /\ lp' = "loop"
  /\ setpoint' = IF WrapUnsigned(setpoint[ramp_axis]) > stop_ua
                 THEN [setpoint EXCEPT ![ramp_axis] = 0] ELSE setpoint
  /\ UNCHANGED <<sh, cmd, mode, ramp, feedback, integral, goal, drive, periods, by_hand>>

(* TM_ADC: a failed acquisition ends the thread.                           *)
AdcRead ==
  /\ lp = "adc"
  /\ lp' \in {"sleep", "stopped"}
  /\ UNCHANGED <<sh, cmd, mode, ramp, setpoint, feedback, integral, goal, drive, periods, by_hand>>

(* get_current_readings, which keeps the old feedback when it fails.       *)
Readings == feedback' \in [Axis -> Feedbacks] \cup {feedback}

CurrentRead ==
  /\ lp = "current"
  /\ lp' = "sleep"
  /\ Readings
  /\ UNCHANGED <<sh, cmd, mode, ramp, setpoint, integral, goal, drive, periods, by_hand>>

(* TM_LOOP: the readings arrive, process_can_open_targets computes every   *)
(* goal and set_pwm_output applies them.                                   *)
Control(a) == ControlCurrent(setpoint[a], feedback'[a], integral[a], MaxUa[a])

LoopControl ==
  /\ lp = "loop"
  /\ lp' = "sleep"
  /\ Readings
  /\ integral' = [a \in Axis |-> Control(a).integral]
  /\ LoopOutput([a \in Axis |-> Control(a).duty])
  /\ UNCHANGED <<sh, cmd, mode, ramp, setpoint, periods, by_hand>>

Wake ==
  /\ lp = "sleep"
  /\ lp' = "switch"
  /\ UNCHANGED <<sh, cmd, mode, ramp, setpoint, feedback, integral, goal, drive, periods, by_hand>>

Loop ==
  \/ Off \/ Dispatch
  \/ RampEnter \/ RampWait \/ RampAdd \/ RampStore \/ RampTest
  \/ AdcRead \/ CurrentRead \/ LoopControl
  \/ Wake

-----------------------------------------------------------------------------
(* The shell, when the loop lets it run.                                   *)
ShellRuns(at) == sh = at /\ lp \in {"sleep", "adc", "current", "loop", "stopped"}

(* cmd_mtpwm: goal, phase pin, pulse and active, without the lock.         *)
MtPwm(a, duty) ==
  /\ ShellRuns("idle")
  /\ sh' = "pwm_phase"
  /\ cmd' = [NoCommand EXCEPT !.axis = a, !.value = duty]
  /\ goal' = [goal EXCEPT ![a] = duty]
  /\ by_hand' = by_hand \cup {a}
  /\ UNCHANGED <<lp, mode, ramp, setpoint, feedback, integral, drive, periods>>

MtPwmPhase ==
  /\ ShellRuns("pwm_phase")
  /\ sh' = "pwm_pulse"
  /\ phase_pin' = [phase_pin EXCEPT ![cmd.axis] = (cmd.value < 0)]
  /\ UNCHANGED <<lp, cmd, mode, ramp, setpoint, feedback, integral, goal, active, phase_state,
                 pwm, decided, periods, by_hand>>

MtPwmPulse ==
  /\ ShellRuns("pwm_pulse")
  /\ sh' = "pwm_active"
  /\ pwm' = [pwm EXCEPT ![cmd.axis] = Cycles(cmd.axis, periods[cmd.axis], Abs(cmd.value))]
  /\ UNCHANGED <<lp, cmd, mode, ramp, setpoint, feedback, integral, goal, active, phase_state,
                 phase_pin, decided, periods, by_hand>>

MtPwmActive ==
  /\ ShellRuns("pwm_active")
  /\ sh' = "idle" /\ cmd' = NoCommand
  /\ active' = [active EXCEPT ![cmd.axis] = cmd.value]
  /\ UNCHANGED <<lp, mode, ramp, setpoint, feedback, integral, goal, phase_state, phase_pin,
                 pwm, decided, periods, by_hand>>

(* cmd_frqpwm: axis 3 passes the command's test and fails in the driver.   *)
FrqPwm(n, frequency) ==
  /\ ShellRuns("idle")
  /\ periods' = SetFrequency(periods, n, frequency)
  /\ UNCHANGED <<lp, sh, cmd, mode, ramp, setpoint, feedback, integral, goal, drive, by_hand>>

(* cmd_ua2pwm: control_current, and with it the integral the loop uses.    *)
Ua2Pwm(a, target) ==
  /\ ShellRuns("idle")
  /\ sh' = "ua2pwm"
  /\ cmd' = [NoCommand EXCEPT !.axis = a,
               !.value = ControlCurrent(target, feedback[a], integral[a], MaxUa[a]).integral]
  /\ UNCHANGED <<lp, mode, ramp, setpoint, feedback, integral, goal, drive, periods, by_hand>>

Ua2PwmStore ==
  /\ ShellRuns("ua2pwm")
  /\ sh' = "idle" /\ cmd' = NoCommand
  /\ integral' = [integral EXCEPT ![cmd.axis] = cmd.value]
  /\ UNCHANGED <<lp, mode, ramp, setpoint, feedback, goal, drive, periods, by_hand>>

(* cmd_mtmode without an axis.  A mode given by name is the first whose    *)
(* name begins the word, so TM_LOOP_RAMP is reached by number only.        *)
MtMode(m) ==
  /\ ShellRuns("idle")
  /\ mode' = m
  /\ UNCHANGED <<lp, sh, cmd, ramp, setpoint, feedback, integral, goal, drive, periods, by_hand>>

(* cmd_mtmode with an axis: the mode first, then reset_ramp_mode for the   *)
(* axis of the ramp, and then the new axis, if there is such an axis.      *)
MtModeAxis(m, n) ==
  /\ ShellRuns("idle")
  /\ sh' = "reset_setpoint"
  /\ cmd' = [NoCommand EXCEPT !.value = n]
  /\ mode' = m
  /\ UNCHANGED <<lp, ramp, setpoint, feedback, integral, goal, drive, periods, by_hand>>

ResetSetpoint ==
  /\ ShellRuns("reset_setpoint")
  /\ sh' = "reset_goal"
  /\ setpoint' = [setpoint EXCEPT ![ramp_axis] = 0]
  /\ UNCHANGED <<lp, cmd, mode, ramp, feedback, integral, goal, drive, periods, by_hand>>

ResetGoal ==
  /\ ShellRuns("reset_goal")
  /\ sh' = "output"
  /\ goal' = [goal EXCEPT ![ramp_axis] = 0]
  /\ UNCHANGED <<lp, cmd, mode, ramp, setpoint, feedback, integral, drive, periods, by_hand>>

NextOutput(c) ==
  IF c.i + 1 < NumAxes
  THEN sh' = "output" /\ cmd' = [c EXCEPT !.i = c.i + 1, !.duty = 0]
  ELSE sh' = "set_axis" /\ cmd' = [c EXCEPT !.i = 0, !.duty = 0]

OutputSkip ==
  /\ ShellRuns("output")
  /\ active[cmd.i] = goal[cmd.i]
  /\ NextOutput(cmd)
  /\ UNCHANGED <<lp, mode, ramp, setpoint, feedback, integral, goal, drive, periods, by_hand>>

(* The new phase and duty are taken from the goal before the lock (by one  *)
(* load in the code built from it) ...                                     *)
OutputTake ==
  /\ ShellRuns("output")
  /\ active[cmd.i] # goal[cmd.i]
  /\ sh' = "locked"
  /\ cmd' = [cmd EXCEPT !.duty = goal[cmd.i]]
  /\ UNCHANGED <<lp, mode, ramp, setpoint, feedback, integral, goal, drive, periods, by_hand>>

(* ... applied under it, where the loop cannot run ...                     *)
OutputLocked ==
  /\ ShellRuns("locked")
  /\ sh' = "output_active"
  /\ DriveCoils({cmd.i}, [a \in Axis |-> cmd.duty])
  /\ UNCHANGED <<lp, cmd, mode, ramp, setpoint, feedback, integral, goal, active, periods, by_hand>>

(* ... and the goal is read again for active_pwm_percent.                  *)
OutputActive ==
  /\ ShellRuns("output_active")
  /\ active' = [active EXCEPT ![cmd.i] = goal[cmd.i]]
  /\ NextOutput(cmd)
  /\ UNCHANGED <<lp, mode, ramp, setpoint, feedback, integral, goal, phase_state, phase_pin, pwm,
                 decided, periods, by_hand>>

SetRampAxis ==
  /\ ShellRuns("set_axis")
  /\ sh' = "idle" /\ cmd' = NoCommand
  /\ ramp_axis' = IF cmd.value \in Axis THEN cmd.value ELSE ramp_axis
  /\ UNCHANGED <<lp, mode, stop_ua, next_ua, tlr_printed, t_mt_loop, setpoint, feedback, integral,
                 goal, drive, periods, by_hand>>

Commands ==
  \/ \E w \in HandDuties : MtPwm(w[1], w[2])
  \/ \E w \in HandFrequencies : FrqPwm(w[1], w[2])
  \/ \E w \in HandTargets : Ua2Pwm(w[1], w[2])
  \/ \E m \in Modes : MtMode(m)
  \/ \E m \in Modes, n \in 0 .. NumAxes : MtModeAxis(m, n)

Continue ==
  \/ MtPwmPhase \/ MtPwmPulse \/ MtPwmActive
  \/ Ua2PwmStore
  \/ ResetSetpoint \/ ResetGoal
  \/ OutputSkip \/ OutputTake \/ OutputLocked \/ OutputActive
  \/ SetRampAxis

-----------------------------------------------------------------------------
(* The C3 writes a setpoint through the CAN thread's SDO server.           *)
SdoWrite(a, ua) ==
  /\ setpoint' = [setpoint EXCEPT ![a] = ua]
  /\ UNCHANGED <<lp, sh, cmd, mode, ramp, feedback, integral, goal, drive, periods, by_hand>>

ExploreNext ==
  \/ Loop
  \/ Commands
  \/ Continue
  \/ \E w \in SdoWrites : SdoWrite(w[1], w[2])

ExploreSpec == ExploreInit /\ [][ExploreNext]_explore

-----------------------------------------------------------------------------
(* The type invariant.                                                     *)
ExploreTypeOK ==
  /\ lp \in {"switch", "adc", "current", "loop", "store", "test", "sleep", "stopped"}
  /\ sh \in {"idle", "pwm_phase", "pwm_pulse", "pwm_active", "ua2pwm", "reset_setpoint",
             "reset_goal", "output", "locked", "output_active", "set_axis"}
  /\ cmd.axis \in Axis /\ cmd.value \in Int /\ cmd.i \in Axis /\ cmd.duty \in Word
  /\ mode \in TestModes
  /\ ramp_axis \in Axis /\ stop_ua \in 0 .. IntMax /\ next_ua \in Word
  /\ tlr_printed \in BOOLEAN /\ t_mt_loop \in BOOLEAN
  /\ {setpoint, feedback, integral, goal, active, decided} \subseteq [Axis -> Word]
  /\ {phase_state, phase_pin} \subseteq [Axis -> BOOLEAN]
  /\ periods \in [Axis -> Nat] /\ pwm \in [Axis -> [period : Nat, pulse : Nat]]
  /\ by_hand \subseteq Axis

Driven(a) == pwm[a].pulse # 0

(* Whatever the frequency set from the shell, a pulse fits the period it   *)
(* runs in, even where the product of period and duty overflows the word.  *)
PulseWithinPeriod == \A a \in Axis : pwm[a].pulse <= pwm[a].period

(* The shell's reset of the ramp and the loop write the same coils.  A     *)
(* coil that was never driven by hand has the phase and the duty of one    *)
(* and the same output, never the phase of one and the duty of the other,  *)
(* and none is driven while its active duty says that it is at rest.       *)
OneOutputPerCoil ==
  \A a \in Axis \ by_hand :
    /\ phase_pin[a] = (decided[a] < 0)
    /\ pwm[a].pulse = Pulse(pwm[a].period, Abs(decided[a]))
    /\ active[a] = 0 => ~Driven(a)

(* When the loop ends a ramp, at whatever point of a command that resets   *)
(* the same axis or moves the ramp to another, the coil of the ramp is at  *)
(* rest, unless it has been driven by hand.                                *)
RampEndsAtRest ==
  [][t_mt_loop /\ ~t_mt_loop' => ramp_axis \in by_hand \/ ~Driven(ramp_axis)']_explore

(* src/magnetorquers.c:628: an output is locked to minimise delays between *)
(* its phase and its duty, which mtpwm's is not: with no command under way *)
(* every coil's pin has the phase that the loop will compare with.         *)
(* Does not hold: README, section 7.                                       *)
PhaseStateIsThePin == sh = "idle" => \A a \in Axis : phase_state[a] = phase_pin[a]

(* src/magnetorquers.c:617: goals that differ from the active duty are     *)
(* applied to the outputs: with no command under way the active duty of a  *)
(* coil that was never driven by hand is what its output was last set to.  *)
(* Does not hold: README, section 7.                                       *)
ActiveIsDriven == sh = "idle" => \A a \in Axis \ by_hand : active[a] = decided[a]

(* src/magnetorquers.c:979: "adjust the upper bounds per axis": the ramp   *)
(* does not command an axis beyond its largest current.                    *)
(* Does not hold: README, section 7.                                       *)
RampWithinAxis ==
  t_mt_loop /\ lp = "loop" => setpoint[ramp_axis] <= MaxUa[ramp_axis]

(* The shell help of mtmode (src/magnetorquers.c:1234): an axis moves the  *)
(* ramp, and the axis it leaves is reset.                                  *)
(* Does not hold: README, section 7.                                       *)
LeftAxisIsReleased ==
  [][ramp_axis' # ramp_axis => ramp_axis \in by_hand \/ ~Driven(ramp_axis)]_explore
=============================================================================
