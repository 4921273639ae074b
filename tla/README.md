# A model of the OreSat magnetorquer card firmware

The firmware of the ADCS card (`src/`, Zephyr, MCXN947) reads an IMU and the
end-cap magnetometers, measures and controls the current through three
magnetorquer coils, and exchanges all of it with the C3 over CANopen. These
TLA+ modules model its control, check it with TLC on small instances and prove
what matters most with TLAPS for every value of the constants.

Source paths below are relative to the repository root, so the program's own
code is `src/src/*.c` seen from the directory above this one.

## 1. Inventory

### Threads and shared state

| thread | priority | file | what it does |
|---|---|---|---|
| `can_thread` | 0 | `can.c`, `can_util.c` | settings, node id, MCUboot confirmation, CANopenNode main loop (NMT, SDO server, RPDO, TPDO) |
| `imu_thread` | 0 | `imu_bmi.c` (board 1.1.0) or `imu_icm.c` (board 1.0.0) | I2C recovery with a persistent count, sampling and averaging, calibration |
| `mag_thread` | 0 | `magnetometer.c` | powers the two end-cap magnetometers, reads them every second |
| `magtqr_thread` | 7 | `magnetorquers.c` | the coil current loop, every 5 ms; copies all data to and from the object dictionary |
| `blink` | 7 | `blink.c` | an LED |
| shell | lowest | `magnetorquers.c` 844-1235, `imu_*.c`, `can_util.c` | only in the shell builds: drive the coils by hand, calibrate, set the node id |
| host | | `flash_canopen.py` | on the other side of the bus: updates the firmware |

All threads are preemptible and a smaller number is a higher priority: the CAN,
IMU and magnetometer threads preempt the magnetorquer loop wherever it stands,
unless it holds the scheduler lock. They share `CO_OD_RAM` (the object
dictionary, with `CO_LOCK_OD` used by the loop and the SDO server, but not by
the TPDOs), `mag_data`, the IMU's `a_mgs`, `g_mdps`..., the settings in flash
and the `initialized` flags of `gpios.c`.

### Components

| component | state | operations | correct when |
|---|---|---|---|
| coil current loop, `magnetorquers.c` | per axis: target, goal, active duty, offset average, feedback, integral, phase; driver pins; DAC | bring-up, `get_current_readings`, `process_can_open_targets`, `set_pwm_output`, `handle_can_open_data`, sleep | duties and integrals stay in range whatever is measured; coils do what `active_pwm_percent` and the telemetry say; the driver is on only once it is safe; a zero command stops a coil |
| loop pacing, same file | `t_last`, `t_sleep` | end of an iteration | no bursts after a slow iteration |
| `windowed_average.c` | history array, depth | init, reset, update | the mean of the most recent samples since the last reset |
| `adc.c` | channel maps, sample buffers | `init_adc`, `acquire_adc_readings`, `read_adc` | retries are bounded, and old samples are taken for new only when they are used up; each axis reads its sensor (not on every board: section 7) |
| `gpios.c`, `dac.c`, `pwm.c` | once-only flags, board revision, periods | init and set calls | each pin is configured before it is used; a duty becomes the right pulse width |
| `magnetometer.c` | `mag_data`, good flags | power-up, read loop, `get_mag_reading` | readings are whole, recent and of the right sensor |
| `imu_bmi.c`, `imu_icm.c` | averages, calibration, recovery count, register bank | recovery, sampling, calibration commands | recovery is counted and ends; a calibration is of data taken after the reset |
| `can.c`, `can_util.c` | node id, reset command | start-up, main loop, reset | an image is confirmed only when it works; a reset request resets |
| exploration shell | mode, ramps, PWM frequencies | `mtpwm`, `ua2pwm`, `frqpwm`, `mtmode` | a coil has the pin and the pulse of one output, and is not driven when its active duty is 0; leaves no coil driven that nobody commands |
| getters and `handle_can_open_data` | copies of the readings, `CO_OD_RAM` | collect field by field, publish field by field | what the C3 sees is recent and never goes back |
| `flash_canopen.py` | its step, the board's program download | stop, clear, download, start, confirm | only whole images are tried; what it returns is what happened |

Behaviours that are hard to test: preemption between two steps of the loop; a
call that fails after another has taken effect; wrapped and saturated integers;
stale samples after a failed acquisition; a slow iteration; a restart between
two settings writes. `PROJECT.json` lists each of them with its line under
`hazards`, and the properties that cover it.

## 2. Plan

Order of work, the most important behaviour first:

1. (done) The coils: `CArithmetic`, `Windows`, `WindowedAverage`/`RecentMean`,
   `CurrentControl`, `Magnetorquers`/`CoilDrive`, `LoopPacing`, `Adc`, with
   their runs and proofs.
2. (done) The threads that start the devices: `ImuBmi` and `ImuIcm`, both
   implementing `BootCount`, with proofs; `Calibration`, `Magnetometer`,
   `CanThread`.
3. (done) `Telemetry`, which composes `Magnetometer` with the copies of the
   readings; `init_adc` in `Adc`; `Pwm` and `Explore`; the calibration, the units
   and the frame of the ICM42688 in `Calibration` and `ImuReadings`;
   `FlashCanopen`, which composes `CanThread` with the host's script.
4. (done) Proofs of every safety and action property that the passing runs
   check but one, each from an inductive invariant (section 6); the object
   dictionary's records and TPDOs and the raw getters of the BMI270.
5. (to do) A proof of `ImplementsRecentMean`, with the mean stated over partial
   sums so that it needs no induction; the data-ready timeout of the ICM42688
   with the age of its data.

There is one run per question and instance, and the runs stay few: a module that
composes another (`Telemetry`, `FlashCanopen`) checks its properties as well.

Abstract specifications: `RecentMean` (implemented by `WindowedAverage`),
`CoilDrive` (by `Magnetorquers`), `BootCount` (by `ImuBmi` and `ImuIcm`).
Composition: `Magnetorquers` uses `CurrentControl` and takes the average as a
parameter that `WindowedAverage` justifies; `Adc` refines what `Magnetorquers`
leaves open about which sensor a sample is of and when it was taken.
`Calibration` starts where `ImuBmi` or `ImuIcm` reaches its loop, and reads
through `ImuReadings`. `Telemetry` runs the thread of `Magnetometer` against the
magnetorquer thread's copies; `FlashCanopen` runs the board of `CanThread`
against the host; `Explore` runs the loop of `CurrentControl` and the outputs
of `Pwm` against the shell.

## 3. Modules

| module | code | how it corresponds |
|---|---|---|
| `CArithmetic` | C integer and float conversions | a word of any width: wrapping, saturation, truncation |
| `Windows` | `windowed_average.c`, seen from its users | the window as a sequence, newest first, and its mean |
| `RecentMean` | `windowed_average.h` | abstract: an update answers the mean of the recent samples |
| `WindowedAverage` | `windowed_average.c` | the array, the depth and both loops, one iteration per step |
| `CurrentControl` | `control_current`, the arithmetic of `get_current_readings` | operators on integers; gains are fractions over `GainDen` |
| `CoilDrive` | | abstract: the driver is switched on once, and a coil's drive only ever becomes its goal |
| `Magnetorquers` | `handle_magnetorquer` and all it calls, the SDO writes of the CAN thread | `pc` names the step the thread is about to take; one action per call and per way it can fail, `i` is the axis of the loop it is in |
| `LoopPacing` | the end of the loop | the clock is the time since `t_last`; `doing` says whether the thread works or sleeps |
| `Pwm` | `pwm.c` | periods and pulses in clock cycles, in words that overflow |
| `Explore` | `magnetorquers.c` 844-1235 | `lp` is where the test loop is, `sh` where the command of the shell is; the loop's steps between two waits are one action where nobody can tell |
| `Adc` | `adc.c` and `get_current_readings` | `init_adc` channel by channel, then the acquisitions; a sample is reduced to whether this acquisition took it and from which channel |
| `BootCount` | | abstract: over any number of boots, a count in flash is raised at most once a boot, up to its maximum, or cleared |
| `ImuBmi` | `recover_i2c_bus`, `init_imu`, `configure_imu` of `imu_bmi.c` | a boot from the load of the count to the loop or the fatal error, with the attributes the sensor has taken; `Restart` at any point keeps only what is in flash |
| `ImuIcm` | `imu_icm.c` except its calibration | the device has a bank and registers, the driver `prev_bank` and `imu_addr`; a transfer that fails may have had its effect or not |
| `IcmBytes` | `imu_icm.c:560` and its like | what becomes of the two bytes of a data register, bit by bit |
| `ImuReadings` | the conversions and getters of both IMUs | a motion in thousandths, through the sensor's units, axes and registers (external), the bytes and the conversion, and the getter with its `int16_t` |
| `Calibration` | the loop and the shell commands of `imu_bmi.c` and `imu_icm.c` | `fitting` says which IMU; two threads that share flags, offsets, readings and the semaphore; the axes are calibrated and stored one per step; `done` is a history variable, the sensors whose offsets have all been stored |
| `ObjectDictionary` | the generated `CO_OD.c`, `CO_OD.h` | the records 0x4000 to 0x4007 with their fields, and what each TPDO maps |
| `Magnetometer` | `magnetometer.c` except its getter, which is in `Telemetry` | one action per call of `init_mag` and per read; a sample is its sensor and number |
| `Telemetry` | the getters, `get_*_readings`, `handle_can_open_data` | one field per step; of a reading only its age matters, the samples its source has delivered since; the fields followed are those of the TPDOs in `Frames` |
| `CanThread` | `can.c`, `can_util.c`, the rest of `gpios.c` | start-up to main loop, over restarts, with MCUboot's trial and revert of an image as the environment |
| `FlashCanopen` | `flash_canopen.py` | `host` is the step the script is at; a request needs a board that processes its stack, and an exception may come at any step |
| `MC*` | | constants for TLC |
| `MagnetorquersProofs` | | `CArithmetic`, `CurrentControl`, `LoopPacing` and `Magnetorquers` with `CoilDrive` |
| `ShellProofs` | | `Pwm` and `Explore`, `ImuReadings` and `Calibration` |
| `WindowedAverageProofs`, `AdcProofs`, `ImuBmiProofs`, `ImuIcmProofs`, `TelemetryProofs`, `FlashCanopenProofs` | | the module of that name, the last with `CanThread` |

Grain of atomicity. The magnetorquer thread is preempted only by threads of
higher priority, of which `Magnetorquers` has the one that writes what the loop
reads: the CAN thread's SDO server. A step of the loop ends wherever such a
write could be noticed: each axis's setpoint is read in a step of its own; phase
and duty are written in two, with `sched_locked` forbidding the CAN thread in
between. `handle_can_open_data` is one step because both sides hold
`CO_LOCK_OD`; for the readings `Telemetry` has its fields one by one, because the
TPDOs do not. RPDOs map no magnetorquer object, so setpoints arrive by SDO only.

What is abstracted: float rounding (the arithmetic is exact until a value
becomes an `int32_t`), the feed-forward term (`Kff` is 0 for every axis), log
output, and fields that nothing reads back (`error`, `feedback_measurement_V`,
`last_update_time`). Signed overflow is undefined in C; the model wraps, which
is what the generated code does with operands it cannot bound, and the
properties that hold do so for the wrapped value. The conversion of a float
that is too large saturates, as the Cortex-M33's does.

`Average` is a parameter of `Magnetorquers`. TLC runs it with `WindowMean`; the
proofs assume only that it lies between two samples of the window
(`AverageAssumption`), which `ReturnTheorem` shows of the C code.

## 4. Runs

| run | bounds | question | outcome |
|---|---|---|---|
| `WindowedAverage` | capacity 3, three samples of both signs, a word that just holds a full window's sum | is the array the mean of the recent samples, are its loops safe? | holds |
| `Limits` | one axis, words of 7 bits, currents to 12, duties to 4, failing acquisitions, reads and duty writes, fair thread | is the controller bounded, does a zero command stop its coil? | holds |
| `Coils` | two axes, words of 5 bits, duties to 2, a bring-up that fails anywhere, failing phase pins | do coils, active duties and telemetry agree, has the feedback the sign of the drive, is `CoilDrive` implemented? | holds |
| `LoopPacing` | period 5, bodies to 8 ms, sleeps up to 2 ms late | are there bursts? | holds |
| `AdcThreeChannels` | channels 2+1, 10 tries as in the code, both converters failing | are retries bounded, when are stale samples used, does an acquisition end? | holds |
| `ImuBmiRecovery` | 10 boots, 10 attempts as in the code, any outcomes, settings that fail, fair thread | does the count keep its promise, is a failed boot counted, who clears the count, does recovery end? | holds |
| `ImuIcmBus` | 2 boots, 4 attempts, 2 tries; any transfer fails, fair thread | banks, configuration, count; does recovery give up? | holds |
| `CalibrationCommands` | either IMU, two axes, history of 2, a command for the accelerometer and two for the gyroscope, which may reset, faults, fair shell | does a first calibration that stores its offsets leave them in effect and in flash, and any other the true ones or none; does a calibrated BMI270 publish the motion it is put to, are histories whole, do commands end? | holds |
| `Telemetry` | both magnetometers with every fault, one vector and one rate followed, ages to 2, fair threads | is what an iteration publishes recent, never older than before, torn in one direction only; is the last sample published; power-up, and is one sensor read without the other? | holds |
| `FlashCanopen` | images that work or fail at their settings, passing failures of the board and the script, fair thread | is only a whole image tried, does success follow the trial, is the board back on the bus? | holds |
| `Explore` | two coils, words of 5 bits, duties to 2, all five modes, one value of each command | do pulses fit their periods, has a coil the pin and pulse of one output and none at an active duty of 0, does a ramp end at rest? | holds |
| `AtRest` | as `Limits`, no faults | is the current of a coil at rest small, as the comment says? | violated |

The run that is violated checks what a comment of the source says; `findings` in
`PROJECT.json` quotes it. Section 7 lists the other places where
TLC disagrees with a comment.

Why the bounds are enough. The word widths are chosen so that a wrapped sample
exceeds every limit, `goal - actual` overflows, the integral reaches its limit
and the duty its maximum, which happens within a few iterations. Setpoints lie
inside the limit, beyond it on both sides of zero, and at zero. Two axes are
enough for the loops over the axes because axes share nothing but `i`, `err`
and the scheduler lock; the proofs cover any number. A window of two samples
tells a filling window from a full one; `WindowedAverage` checks three. The
pacing of an iteration depends on the one before it only, and bodies both
shorter and longer than the period, up to more than one and a half of it, follow
each other in every order.

The recovery counts run with the limits of the code where the state space
allows; with 2 boots and 4 attempts `ImuIcmBus` still has a boot at the maximum,
and an attempt that counts once, twice and past the limit. The calibration is
independent of the number of axes beyond "some done, some not", which two show,
and of the length of a history beyond "filling, full". `MaxCommands` lets the
accelerometer be calibrated once and the gyroscope twice, so that a sensor is
seen after its first calibration and after its second. `Motions` has motions
close to zero, near the full scale of the ICM42688, at the end of 16 bits, near
the end of the BMI270's 125 degrees a second, and beyond; the conversions may be
two thousandths off. A motion is in range (`InRange`) when what is sensed of it,
with the bias, lies within the range that the code sets: 2 g, 125 degrees a
second, and 15.625 for the ICM. Of those, `FitsWord` has the ones that the 16 bits of the
getters hold; `WholeRangeIsPublished` of section 7 is about the others.
`FittingAssumption` says that the ICM's board has no accelerometer command. The
ICM's registers hold the counts of what it senses (external), and
`ReadGyroDataIcm` makes of their bytes what `imu_icm.c:560`, 572 and 584 do. That
is not the count, so the property of the motion is the BMI270's alone, and what
becomes of the ICM's is `IcmReadsMotion` of section 7. A calibration of the ICM
is followed all the same: its offset is that of whatever is read at rest.

`Telemetry` follows the fields of two TPDOs (`Frames`), the vector of one
magnetometer and the temperature: fields of different sources do not interact
but for the order they are read in, and an age of 2 (`MaxAge`) tells the last sample, the one
before and older ones apart. `FlashCanopen` lets an image work or fail
(`NewImages`), node ids be usable or truncated to none (`NodeIds`), and each
step of the script fail; after a failed set-up of the pins the revision read is
1.0.0, the first of the others or that of the pins. `Explore` gives each command
one or two arguments (`HandDuties`, `HandTargets`, `HandFrequencies`, `Modes`,
`SdoWrites`): a negative duty, a current by hand on the other axis, a frequency
at which the product of period and duty overflows, and one for axis 2, which
`frqpwm` rejects. Axis 3 is not given to `mtpwm` and `ua2pwm`, whose test
`axis > 3` lets it through to arrays of three: what follows is undefined. The
first ramp is entered later than one step's time after the boot.

When `mtmode` calls `set_pwm_output` from the shell, the loop may change
`goal_pwm_percent` between any two reads of it: for the test and the phase
(`magnetorquers.c:616`, 618), for the pulse (621), and for the active duty (642).
`OutputTake` stands for the first three, as one load, which an optimised build
makes of them, and `OutputActive` for the last, which comes after other calls. A
build that loads the goal anew for each could also mix the phase of one duty with the
pulse of another; nothing is shown of such a build.

The types are written as `TypeOK` (`TypeTelemetry`, `TypeUpdate`) in each module;
they hold in these instances. For the modules with proofs they are part of the
inductive invariants, and no run spends its time on them.

Deadlock is checked in every run but `AdcThreeChannels`, where the loop over the
reference voltages (`adc.c:223`) may fault and end the program. A thread that
stops leaves the others running, and the board may always be restarted.

## 5. Fairness

No safety property depends on fairness, though most runs state it.
`ZeroCommandStopsCoil` assumes weak fairness of the
magnetorquer thread: it never waits for another thread (it sleeps for bounded
times and takes a lock that the SDO server holds briefly), and the threads
above it all sleep in every cycle, so it runs again and again. Nothing is
assumed of the C3: setpoints may change or not. `AcquisitionEnds` assumes weak
fairness of the ADC code's next step: `k_sleep` ends and `adc_read` returns,
with whatever result; nothing is assumed of a converter ever succeeding.

The threads of `ImuBmi`, `ImuIcm`, `Calibration` (the shell command) and
`Magnetometer` are weakly fair as a whole: their sleeps end, their waits have a
timeout, and the calls of the drivers return with some result. Nothing is
assumed of which result, of the IMU thread delivering data to the shell, nor of
resets: `RecoveryEnds` and `GivesUp` speak of behaviours in which they end (and, for
`GivesUp`, in which no soft reset works and the driver has bus recovery), and
`PowersUp` of those in which the power fault ends. `CanThread` also assumes that
a board whose thread has halted is restarted in the end; the firmware asserts
("Fatal error") and the C3, which powers the card, no longer hears of it.
`FlashCanopen` takes both over and assumes nothing of the script, which may stop
between any two requests. `Telemetry` adds that the iteration is weakly fair: the
threads that preempt it all sleep in every cycle. Nothing is assumed of the IMU,
which may stop delivering. `Explore` assumes no fairness.

## 6. Proofs

TLAPS proves, for every value of the constants that satisfies the named
assumptions (`IntMaxAssumption`, `ControlAssumption`, `WindowAssumption`,
`MagnetorquersAssumption`, `AverageAssumption`, `AdcAssumption`,
`ImuAssumption`, `IcmAssumption`, `PacingAssumption`, `TelemetryAssumption`,
`MagAssumption`, `MappingAssumption`, `PwmAssumption`, `ExploreAssumption`,
`CalibrationAssumption`, `FittingAssumption`):

| theorem | property | further assumption |
|---|---|---|
| `ControlCurrentBounds` | duty and integral of one control step are within limits | |
| `LimitsTheorem` | `WithinLimits` (with `TypeOK`) | |
| `DriverTheorem` | `DriverOnlyOnInLoop` | |
| `CoilsTheorem`, `TelemetryTheorem` | `CoilsFollowActive`, `TelemetryMatchesCoils` | duty writes do not fail |
| `FeedbackTheorem` | `FeedbackSignMatchesDrive` | the ADC does not fail |
| `CoilDriveTheorem` | `ImplementsCoilDrive` | duty writes do not fail |
| `HoldUpTheorem`, `StaleTheorem` | `HoldUpIsBounded`, `StaleOnlyAfterRetries` | |
| `RecoveryCountTheorem` (of each IMU) | `ImplementsBootCount` | |
| `FailedBootTheorem`, `ClearedOnlyWhenReadyTheorem` | `FailedBootIsCounted`, `ClearedOnlyWhenReady` | |
| `RightBankTheorem` | `RightBank` | the IMU loses its power with the MCU |
| `ConfiguredTheorem` | `ConfiguredBeforeSampling` | |
| `PacingTheorem` | `NoBurst` | |
| `LatestTheorem`, `TornOneWayTheorem`, `NeverBackwardsTheorem` | `LatestDuringIteration`, `TornOneWay`, `NeverBackwards` | |
| `PulseTheorem`, `OneOutputTheorem`, `RampTheorem` | `PulseWithinPeriod`, `OneOutputPerCoil`, `RampEndsAtRest` | |
| `FirstCalibrationTheorem`, `WholeHistoryTheorem` | `FirstCalibrationIsOffset`, `ReadyMeansWholeHistory` | |
| `CalibratedTheorem` | `CalibratedReadsMotion` | (of the BMI270, as the property says) |
| `SuccessTheorem` | `SuccessFollowsTrial` | |
| `LoopsTheorem`, `BeyondDepthTheorem`, `ReturnTheorem` | `LoopsAreSafe`, `NothingBeyondDepth`, `ReturnWithinWindow` | |

The further assumptions are needed: section 7 has the counterexamples for a duty
write that fails and an IMU that keeps its power, and with a failed acquisition a feedback keeps the sign of an earlier drive. The
two properties of `ImuBmi` are about boots that are not `impaired`: a history
variable of `Spec` set when the settings fail or the bus driver has no recovery.

The arguments. `MagnetorquersProofs` begins with the lemmas about words: saturation and
float conversion land in the word, wrapping does and is the identity inside it,
a truncated quotient lies between 0 and its dividend and respects the order.
`ControlCurrentBounds` bounds a duty as the cardinality of a subset of `1 .. MaxDuty`
and the integral as the quotient of a saturated numerator. `WithinLimits` is
then inductive with the type invariant. `DriverOnlyOnInLoop` needs
`BringUpInv`, which says at each step of the bring-up which of the two enable
pins is low: neither pin alone keeps the driver off throughout.
`CoilsFollowActive` and `TelemetryMatchesCoils` are proved together from
`CoilInv`, which ties the phase pin to `phase_state`, the pulse width to the
active duty, or to the goal in the two steps in which they differ, and has the
driver's outputs at rest before the loop. `CoilDriveTheorem` maps every step of
the thread to a step of `CoilDrive` or a stutter, with the same invariant.
The invariant of the windowed average says of each loop index which entries
have moved, that the entries beyond the depth are zero, and that the partial
sum lies between `i` times the smallest and `i` times the largest sample seen,
which is what keeps the accumulator from overflowing and the mean within the
window. The ADC's `BudgetInv` counts the sleeps against the shared retries, with any
number of channels, the four of board 1.1.0 included.
For the recovery counts, `CountInv` says that the count in hand is the one in
flash, or 0 when it could not be loaded, and that this boot has not been counted
yet, from the load to the store; `FailureInv` follows the error of the last
attempt to the store, in a boot that is not impaired. `BankInv` is stronger than `RightBank`: a driver that
believes in bank 0 is right, and during the configuration the belief is right
whatever it is, which a failed write ends together with the configuration.
`ConfigInv` adds that of the registers already written each has the value of its
last entry in the list, or is still to be written again, so that at the end all
have the values intended.

`PacingInv` relates the clock to the iteration that has just ended: what has
passed since `t_last` belongs to it, and a sleep makes up what is left of a
period. That is why two iterations together take a period when a single one
does not.

`TelemetryInv` has four parts: what is left to read or publish is the end of the
order (`LeftInv`); no reading is older in the hand than in the dictionary
(`AgeInv`); what has been read is fresh and what has been published is what was
read (`IterationInv`); two fields of one source are out of step in one direction
only, outside the places named `Between` (`OrderInv`). The theorems hold for any
set of frames, as the assumption about the mapping is all that is used of it.

`ShellInv` ties, for each coil not driven by hand, the pulse of the channel to
the duty that was decided for it, the pin to `phase_state` and the pin to the sign
(`CoilInv`), at every place where the loop and a command of the shell may stand.
A coil is set by hand as soon as `mtpwm` is at work on it (`HandInv`). `RestInv`
is what `RampEndsAtRest` needs: the shell only ever takes a coil to rest, so one
whose active duty says it is at rest is; it gives `OneOutputPerCoil` its last
part, that a coil with an active duty of 0 is not driven. A pulse fits its period because what
is left of a product that overflows is smaller than the product (`PulseFits`).

`CalibrationInv` follows each sensor that is calibrated without a reset
(`Plain`). An axis whose first calibration is still to come (`Ahead`) has no offset, so that
its readings are what the sensor reads at rest; an axis that is done has the
offset, and so has what is stored of it, of every axis once the sensor is in
`done` (`StoredInv`). The offsets of a sensor change only by
its own command, for only a reset clears them (`CommandInv`); and a command goes
on only after a whole history (`DepthInv`: the samples counted are in every
history, whichever reads have failed), so that there is a reading to take. The
BMI270 loads all of its keys or none, which leaves no mixture after a restart.
`CalibratedTheorem` is arithmetic: a reading of the BMI270 is what the driver
delivers, converted back, and each conversion rounds towards zero; a reading loses
less than one thousandth, the difference of two less than two, and `FitsWord`
keeps the difference within the 16 bits of the getter.

`UpdateInv` says what a trial rests on: a board asked to try an image is on its
way to the reset with that image whole, and between the end of the download and
the start only a whole image passes for cleared; the script that has seen the
board boot knows that no trial is pending.

The invariants `CalibrationInv`, `ShellInv`, `PacingInv`, `TelemetryInv`, `ConfigInv` and
`UpdateInv` were checked by TLC on the runs of their modules before they were proved.

Only model-checked: `ZeroCommandStopsCoil`, `AcquisitionEnds`, `RecoveryEnds`,
`GivesUp`, `CommandEnds`, `PowersUp`, `KeepsReading`, `LastSamplePublished` and
`BackOnTheBus` (liveness under fairness is out of TLAPS's reach)
and `ImplementsRecentMean` (it needs an induction over the fold that defines the
mean; the bounds of what is returned, `ReturnTheorem`, are proved without it).

## 7. Disagreements

Each of these properties is stated in its module, from what a comment or a
message says, and refuted by TLC when it is added to the configuration of the
run named, with the constants given. They belong to no run of the project; a
property becomes one with the correction it calls for.

| property | configuration | what the code does |
|---|---|---|
| `MissedDutyIsReported` | `MagnetorquersLimits` | `magnetorquers.c:639` ignores the result of `set_pwm` and makes the goal the active duty; the warning at 822 is only ever given for a phase pin |
| `IterationTakesAPeriod` | `LoopPacing` | `magnetorquers.c:840` keeps the uptime read before the sleep, so iterations alternate between long ones and sleeps of 1 ms |
| `AxesReadTheirOwnSensor` | `AdcThreeChannels`, `DevChannels <- MCFourChannels` | `adc.c:158` fills `log_to_phys` only for three channels: on board 1.1.0 every axis reads physical channel 0 |
| `CurrentErrorsReported` | `AdcThreeChannels` | `magnetorquers.c:544` returns 0 when the acquisition fails, otherwise the result of the last axis |
| `RebootsAfterCounting` | `ImuBmiRecovery` | `imu_bmi.c:257` asserts `ret < 0` where it is true, and goes on |
| `GivesUp` without its `~BusNotSupported` | `ImuIcmBus` | `imu_icm.c:264` makes a missing bus recovery a success: `init_icm` looks for the device again without end and without a sleep |
| `RightBank` | `ImuIcmBus`, `WarmRestart = TRUE` | `imu_icm.c:89`: `prev_bank` starts at 0 while the IMU may still be in bank 1; `WHO_AM_I` is then another register at every boot |
| `ResetReachesTheImu` | `ImuIcmBus` | `imu_icm.c:275` resets at `imu_addr`, which is 0 until the IMU has been found |
| `EachAxisHasItsNotch` | `ImuIcmBus` | `imu_icm.c:514` writes the selection bits over the notch of the z axis |
| `ReadingIsTheRegister` | `ImuIcmBus`, `Bytes <- MCBytes` | `imu_icm.c:560` computes `(b0 \| b1) << 8` |
| `SetUpFailureReported` | `AdcThreeChannels` | `adc.c:210` returns 0 when a channel cannot be set up, and the bring-up goes on |
| `ConfiguredWhenSampling` | `ImuBmiRecovery` | `imu_bmi.c:391-421` ignores every result of `sensor_attr_set` |
| `ResetCalibrationIsOffset` | `CalibrationCommands` | `imu_bmi.c:699` sets the reset flag after it has drained the semaphore: data of before the reset may be taken for data after it |
| `FirstCalibrationIsOffset` without `fitting.imu = "bmi" =>` | `CalibrationCommands` | `imu_icm.c:216-221` loads each key that is there and only warns: an axis is calibrated, the others are not |
| `IcmReadsMotion` | `CalibrationCommands` | `imu_icm.c:560`, 572, 584 lose the low byte of each axis and mix it into the high one: a gyroscope that has its offset does not publish its motion, where 636 says that "the main thread can work with either IMU" |
| `WholeRangeIsPublished` | `CalibrationCommands` | `imu_bmi.c:577` casts to `int16_t`; the range of 125 degrees a second (`imu_bmi.c:30`) is 125000 thousandths |
| `RawIsTheOriginal` | `CalibrationCommands` | `imu_bmi.c:566`, 584 cast the original value, in millionths, to `int16_t` |
| `DataIsOfItsSensor` | `Telemetry` | `magnetometer.c:311` decodes the first sensor's buffer as the second's |
| `FrameIsOneReading` | `Telemetry` | `can.c:177` sends TPDOs without `CO_LOCK_OD`, and the getters copy without any lock |
| `RampWithinAxis` | `Explore`, `MCMaxUa == (0 :> 2) @@ (1 :> 1)` | `magnetorquers.c:979` adjusts the upper bound only when the ramp is entered, not when `mtmode` moves it to another axis |
| `LeftAxisIsReleased` | `Explore` | `magnetorquers.c:1219`: the loop may store its sum in the setpoint of the old axis after the shell has reset it |
| `PhaseStateIsThePin` | `Explore` | `magnetorquers.c:1077`: `mtpwm` sets the pin and leaves `phase_state`; an output whose sign `phase_state` already has then leaves the pin as it is |
| `ActiveIsDriven` | `Explore` | `magnetorquers.c:642` reads the goal again after the output: one that has changed since is taken as applied, and the coil keeps the pulse of the old one |
| `InitReportsFailure` | `FlashCanopen` | `gpios.c:41` returns 0 to every caller but the first |
| `FailedInitIsRev100` | `FlashCanopen`, `Pins = 7` | `gpios.c:61` reads the revision from pins that could not be configured |
| `BackOnTheBus` | `FlashCanopen`, `MCNewImages == {{"co"}}` | `can.c:98` confirms an image before the CAN controller is set up: one that fails there is never reverted |
| `SuccessIsTheNewImage` | `FlashCanopen` | `flash_canopen.py:187` logs the id after the reboot and does not look at it: a reverted image is a success |
| `ConfirmedOnlyIfAsked` | `FlashCanopen` | the board confirms a new image by itself (`can.c:98-104`), whatever `--confirm` says |

Other things met while modelling, which no property is about: `mtmode` compares
as many characters as a mode's own name has (`magnetorquers.c:1201`), so `TM_LOOP_RAMP` by
name selects `TM_LOOP`; an acquisition that fails in `TM_ADC` ends the
magnetorquer thread (945); the temperature of the BMI270 is the constant 20 (`imu_bmi.c:515`), in
degrees, where line 503 of `magnetorquers.c` expects tenths; `ua2pwm` and the loop share an axis's integral.

## 8. Not modelled

What is left of section 2, point 5: `ImuIcm` takes the sample after the timeout
of the data-ready bit as the code does, and does not tell old data from new.

For good: the LED thread and log output (no state another part reads), the
generated object dictionary beyond its records 0x4000 to 0x4007 and TPDOs, the
vendored `drivers/sensor/tdk` (not compiled), the clock and pin set-up of
`boards/*` (straight-line code; the ADC wiring of the device trees is a
constant of `Adc`), `calc_coswz.py` and the build. CANopenNode, Zephyr
and MCUboot are external: only what the firmware sees of them is modelled.
Of the drivers that means: `device_init` and `i2c_recover_bus` return any result
at each call, a settings write takes effect or not, `k_sem_take` answers or times
out. Of the program download it means what section 3 says of `FlashCanopen`.
Builds: with `CONFIG_REBOOT` and MCUboot as in `prj.conf`, and the shell
for `Calibration` and `StoreNodeId`; `CONFIG_MAGNETORQUER_EXPLORE` for `Explore`
only.
