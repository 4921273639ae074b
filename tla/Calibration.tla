---------------------------- MODULE Calibration ----------------------------
(***************************************************************************)
(* Calibration of the IMU in the shell build, the BMI270 (src/imu_bmi.c)   *)
(* or the ICM42688, which has a gyroscope only (src/imu_icm.c): the shell  *)
(* thread runs accelcal and gyrocal while the IMU thread samples.  They    *)
(* share the offsets, the readings, a reset flag per sensor and one        *)
(* semaphore; the offsets of the axes of a sensor are stored in flash one  *)
(* key after the other.  The board may be restarted between any two steps. *)
(*                                                                         *)
(* The unit is stationary, as README.md asks for, so every sample of an    *)
(* axis has the same value and so has their average: of the histories only *)
(* the number of samples matters.  Offsets and readings are in milli-g and *)
(* milli-degrees a second, those of the ICM in the words that              *)
(* read_gyro_data makes of its data registers (ImuReadings).               *)
(***************************************************************************)
EXTENDS ImuReadings

CONSTANTS
  Axes,             (* of each sensor, in the frame of the satellite        *)
  Level,            (* [Sensors -> [Axes -> Int]]: at rest, 1 g on one axis *)
  Bias,             (* [Sensors -> [Axes -> Int]]: what a sensor senses beyond its motion *)
  Motions,          (* [Sensors -> SUBSET [Axes -> Int]]: motions it may be put to later  *)
  HistLen,          (* HIST_LEN                                             *)
  Fittings,         (* the IMU of the board and the options its commands are entered with *)
  MaxCommands,      (* bound: [Sensors -> Nat]: commands entered for each   *)
  Faults            (* reads and stores may fail, waits time out, the board restart *)

Sensors == {"accel", "gyro"}

ASSUME CalibrationAssumption ==
  /\ {1, 2} \subseteq Axes /\ Axes \subseteq 1 .. 3
  /\ Level \in [Sensors -> [Axes -> {0, 1000}]] /\ \A k \in Axes : Level["gyro"][k] = 0
  /\ Bias \in [Sensors -> [Axes -> Int]]
  /\ \A s \in Sensors : Motions[s] \subseteq [Axes -> Int]
  /\ HistLen \in Nat \ {0}
  /\ Fittings \subseteq [imu : {"bmi", "icm"},
                          options : [Sensors -> SUBSET {"none", "reset"}]]
  /\ MaxCommands \in [Sensors -> Nat]
  /\ Faults \in BOOLEAN
  /\ IntMax >= 32767               \* the words of the ICM fit

(* The ranges set: 2 g, and 125 or 15.625 degrees a second.  Beyond them a *)
(* sensor does not deliver what it senses.                                 *)
FullScale(imu, s) == CASE s = "accel"                 -> 2000
                       [] s = "gyro" /\ imu = "icm"  -> IcmFullScale
                       [] s = "gyro" /\ imu = "bmi"  -> 125000

InRange(imu, s, motion) ==
  \A k \in Axes : Abs(motion[k] + Bias[s][k]) <= FullScale(imu, s)

(* The ICM has no accelerometer command.                                   *)
ASSUME FittingAssumption ==
  \A f \in Fittings : f.imu = "icm" => f.options["accel"] = {}

VARIABLES
  fitting,          (* the one of Fittings that this board has              *)
  stored,           (* ax_cal ... gz_cal in the settings: of the axes stored *)
  cal,              (* a_cal, g_cal                                         *)
  reading,          (* a_mgs, g_mdps                                        *)
  depth,            (* samples in the histories of a sensor                 *)
  reset_cal,        (* reset_acal, reset_gcal                               *)
  samples,
  imu_data_ready,   (* the semaphore, of limit 1                            *)
  imu_pc,           (* the IMU thread is about to look at the flags, to process a sample *)
  pc, sensor, option, todo,  (* the shell thread: its step and command, the axes to do *)
  commands,         (* entered so far (bound)                               *)
  done              (* sensors a command has stored every offset of (history) *)

imu_state == <<reading, depth, samples, imu_pc>>
shell     == <<pc, sensor, option, todo, commands, done>>
vars      == <<fitting, stored, cal, reset_cal, imu_data_ready, imu_state, shell>>

Zero == [k \in Axes |-> 0]

(* What is read of a sensor in motion, or at rest.                         *)
Sensed(s, motion) == [k \in Axes |-> motion[k] + Bias[s][k]]

Driver(s, v) == [k \in Axes |-> IF s = "accel" THEN DriverAccel(v[k]) ELSE DriverGyro(v[k])]

Read(s, motion) ==
  LET v == Sensed(s, motion) IN
  CASE fitting.imu = "icm"                -> ReadGyroDataIcm(IcmCounts(v))
    [] fitting.imu = "bmi" /\ s = "accel" -> ReadAccelData(Driver(s, v))
    [] fitting.imu = "bmi" /\ s = "gyro"  -> ReadGyroData(Driver(s, v))

(* The static offset is removed, of the ICM in 16 bits.                    *)
Less(s, read) ==
  LET r == [k \in Axes |-> read[k] - cal[s][k]] IN
  IF fitting.imu = "icm" THEN Int16(r) ELSE r

(* The sensors that the IMU has a calibration command for.                 *)
Fitted == {s \in Sensors : fitting.options[s] # {}}

(* The offsets found in flash: the ICM's driver takes each key that is     *)
(* there, the BMI270's all of them or none.                                *)
LoadEachKey(keys) == [k \in Axes |-> IF k \in DOMAIN keys THEN keys[k] ELSE 0]

LoadAllOrNone(keys) == IF DOMAIN keys = Axes THEN keys ELSE Zero

Load(keys) == IF fitting.imu = "icm" THEN LoadEachKey(keys) ELSE LoadAllOrNone(keys)

Init ==
  /\ fitting \in Fittings
  /\ stored = [s \in Sensors |-> <<>>]
  /\ cal = [s \in Sensors |-> Zero]
  /\ reading = [s \in Sensors |-> Zero] /\ depth = [s \in Sensors |-> 0]
  /\ reset_cal = [s \in Sensors |-> FALSE]
  /\ samples = 0 /\ imu_data_ready = FALSE
  /\ imu_pc = "flags"
  /\ pc = "idle" /\ sensor = "accel" /\ option = "none" /\ todo = {}
  /\ commands = [s \in Sensors |-> 0] /\ done = {}

Restart ==
  /\ Faults
  /\ cal' = [s \in Sensors |-> Load(stored[s])]
  /\ reading' = [s \in Sensors |-> Zero] /\ depth' = [s \in Sensors |-> 0]
  /\ reset_cal' = [s \in Sensors |-> FALSE]
  /\ samples' = 0 /\ imu_data_ready' = FALSE
  /\ imu_pc' = "flags"
  /\ pc' = "idle" /\ todo' = {}
  /\ UNCHANGED <<fitting, stored, sensor, option, commands, done>>

-----------------------------------------------------------------------------
(* The IMU thread *)

(* The flags are looked at before the sample is fetched, which waits for   *)
(* the I2C bus and lets the shell run.                                     *)
SamplesKept ==                                \* mutant: samples counts on over a reset
  /\ imu_pc = "flags"
  /\ imu_pc' = "process"
  /\ cal' = [s \in Sensors |-> IF reset_cal[s] THEN Zero ELSE cal[s]]
  /\ depth' = [s \in Sensors |-> IF reset_cal[s] THEN 0 ELSE depth[s]]
  /\ reset_cal' = [s \in Sensors |-> FALSE]
  /\ UNCHANGED <<fitting, stored, imu_data_ready, reading, samples, shell>>

HandleResets ==
  /\ imu_pc = "flags"
  /\ imu_pc' = "process"
  /\ cal' = [s \in Sensors |-> IF reset_cal[s] THEN Zero ELSE cal[s]]
  /\ depth' = [s \in Sensors |-> IF reset_cal[s] THEN 0 ELSE depth[s]]
  /\ samples' = IF \E s \in Sensors : reset_cal[s] THEN 0 ELSE samples
  /\ reset_cal' = [s \in Sensors |-> FALSE]
  /\ UNCHANGED <<fitting, stored, imu_data_ready, reading, shell>>

(* process_data for the sensors that could be read.                        *)
Sample(read) ==
  /\ reading' = [s \in Sensors |-> IF s \in read THEN Less(s, Read(s, Level[s])) ELSE reading[s]]
  /\ depth' = [s \in Sensors |-> IF s \in read /\ depth[s] < HistLen THEN depth[s] + 1 ELSE depth[s]]

ProcessData ==
  /\ imu_pc = "process"
  /\ imu_pc' = "flags"
  /\ Sample(Fitted)
  /\ IF samples + 1 > HistLen
     THEN samples' = 0 /\ imu_data_ready' = TRUE
     ELSE samples' = samples + 1 /\ UNCHANGED imu_data_ready
  /\ UNCHANGED <<fitting, stored, cal, reset_cal, shell>>

(* process_data fails: of the BMI270 the accelerometer is read first, of   *)
(* the ICM the gyroscope, and then its temperature.                        *)
ReadFails(first) ==
  /\ Faults
  /\ imu_pc = "process"
  /\ imu_pc' = "flags"
  /\ \E read \in {{}, {first}} : Sample(read)
  /\ UNCHANGED <<fitting, stored, cal, reset_cal, samples, imu_data_ready, shell>>

ReadFailsBmi == fitting.imu = "bmi" /\ ReadFails("accel")

ReadFailsIcm == fitting.imu = "icm" /\ ReadFails("gyro")

-----------------------------------------------------------------------------
(* The shell thread: cmd_accelcal, cmd_gyrocal *)

Enter ==
  /\ pc = "idle"
  /\ \E s \in {s \in Fitted : commands[s] < MaxCommands[s]} : \E o \in fitting.options[s] :
       /\ sensor' = s /\ option' = o
       /\ commands' = [commands EXCEPT ![s] = @ + 1]
       /\ pc' = IF o = "reset" THEN "drain" ELSE "wait"
  /\ UNCHANGED <<fitting, stored, cal, reset_cal, imu_data_ready, imu_state, todo, done>>

(* The first wait of a reset, whose result is ignored.                     *)
Drain ==
  /\ pc = "drain" /\ imu_data_ready
  /\ pc' = "reset"
  /\ imu_data_ready' = FALSE
  /\ UNCHANGED <<fitting, stored, cal, reset_cal, imu_state, sensor, option, todo, commands, done>>

DrainsForEver ==                              \* mutant: waits for data only
  /\ pc = "drain" /\ imu_data_ready
  /\ pc' = "reset"
  /\ UNCHANGED <<fitting, stored, cal, reset_cal, imu_data_ready, imu_state, sensor, option, todo, commands, done>>

DrainTimesOut ==
  /\ Faults
  /\ pc = "drain" /\ ~imu_data_ready
  /\ pc' = "reset"
  /\ UNCHANGED <<fitting, stored, cal, reset_cal, imu_data_ready, imu_state, sensor, option, todo, commands, done>>

RequestReset ==
  /\ pc = "reset"
  /\ pc' = "wait"
  /\ reset_cal' = [reset_cal EXCEPT ![sensor] = TRUE]
  /\ UNCHANGED <<fitting, stored, cal, imu_data_ready, imu_state, sensor, option, todo, commands, done>>

DataTaken ==
  /\ pc = "wait" /\ imu_data_ready
  /\ imu_data_ready' = FALSE
  /\ pc' = "calibrate" /\ todo' = Axes
  /\ UNCHANGED <<fitting, stored, cal, reset_cal, imu_state, sensor, option, commands, done>>

WaitTimesOut ==
  /\ Faults
  /\ pc = "wait" /\ ~imu_data_ready
  /\ pc' = "idle"
  /\ UNCHANGED <<fitting, stored, cal, reset_cal, imu_data_ready, imu_state, sensor, option, todo, commands, done>>

(* The axes one after the other; the IMU thread may run in between.        *)
Calibrate ==
  /\ pc = "calibrate"
  /\ LET k == CHOOSE k \in todo : \A l \in todo : k <= l IN
     /\ cal' = [cal EXCEPT ![sensor][k] = reading[sensor][k] - Level[sensor][k]]
     /\ IF todo = {k} THEN pc' = "store" /\ todo' = Axes
                      ELSE todo' = todo \ {k} /\ UNCHANGED pc
  /\ UNCHANGED <<fitting, stored, reset_cal, imu_data_ready, imu_state, sensor, option, commands, done>>

WithKey(keys, k, v) == [l \in DOMAIN keys \cup {k} |-> IF l = k THEN v ELSE keys[l]]

(* store_accel_calibration, store_gyro_calibration.                        *)
Store ==
  /\ pc = "store"
  /\ LET k == CHOOSE k \in todo : \A l \in todo : k <= l IN
     /\ stored' = [stored EXCEPT ![sensor] = WithKey(@, k, cal[sensor][k])]
     /\ IF todo = {k} THEN pc' = "idle" /\ done' = done \cup {sensor} ELSE UNCHANGED <<pc, done>>
     /\ todo' = todo \ {k}
  /\ UNCHANGED <<fitting, cal, reset_cal, imu_data_ready, imu_state, sensor, option, commands>>

StoreFails ==
  /\ Faults
  /\ pc = "store"
  /\ pc' = "idle" /\ todo' = {}
  /\ UNCHANGED <<fitting, stored, cal, reset_cal, imu_data_ready, imu_state, sensor, option, commands, done>>

ImuThread == HandleResets \/ ProcessData \/ ReadFailsBmi \/ ReadFailsIcm
Command   == Drain \/ DrainTimesOut \/ RequestReset \/ DataTaken \/ WaitTimesOut \/ Calibrate \/ Store \/ StoreFails
Next      == ImuThread \/ Enter \/ Command \/ Restart

Spec == Init /\ [][Next]_vars

(* The timeouts of the semaphore expire and the calls of the shell return. *)
FairSpec == Spec /\ WF_vars(Command)

-----------------------------------------------------------------------------
Offset(s) == [k \in Axes |-> Read(s, Level[s])[k] - Level[s][k]]

(* What the getters answer of readings r.                                  *)
Published(s, r) ==
  CASE s = "accel" -> IF fitting.imu = "icm" THEN NoAccelData(r) ELSE GetAccelData(r)
    [] s = "gyro"  -> IF fitting.imu = "icm" THEN GetGyroDataIcm(r) ELSE GetGyroData(r)

PublishedRaw(s, o) ==
  CASE s = "accel" -> IF fitting.imu = "icm" THEN NoAccelRawData(o) ELSE GetAccelRawData(o)
    [] s = "gyro"  -> IF fitting.imu = "icm" THEN NoGyroRawData(o) ELSE GetGyroRawData(o)

TypeOK ==
  /\ fitting \in Fittings
  /\ \A s \in Sensors : \E keys \in SUBSET Axes : stored[s] \in [keys -> Int]
  /\ cal \in [Sensors -> [Axes -> Int]] /\ reading \in [Sensors -> [Axes -> Int]]
  /\ depth \in [Sensors -> 0 .. HistLen]
  /\ reset_cal \in [Sensors -> BOOLEAN]
  /\ samples \in 0 .. HistLen /\ imu_data_ready \in BOOLEAN
  /\ imu_pc \in {"flags", "process"}
  /\ pc \in {"idle", "drain", "reset", "wait", "calibrate", "store"}
  /\ sensor \in Sensors /\ option \in {"none", "reset"} /\ todo \in SUBSET Axes
  /\ \A s \in Sensors : commands[s] \in 0 .. MaxCommands[s]
  /\ commands \in [Sensors -> Nat] /\ done \subseteq Sensors

(* The semaphore is given only for averages over whole histories taken     *)
(* since the last reset of either sensor, whatever reads have failed.      *)
ReadyMeansWholeHistory ==
  [][~imu_data_ready /\ imu_data_ready' => \A s \in Fitted : depth'[s] = HistLen]_vars

(* A first calibration without reset that stores its offsets leaves them   *)
(* in effect and in flash, and there they stay through every restart,      *)
(* failed read and command for the other sensor.  One that times out, or   *)
(* whose store fails or is cut short, leaves no axis with any offset but   *)
(* the true one or none, and the BMI270 never with some of them (the ICM's *)
(* driver takes the keys that are there: README, section 7).               *)
FirstCalibrationIsOffset ==
  pc = "idle" => \A s \in {s \in Fitted : "reset" \notin fitting.options[s] /\ commands[s] <= 1} :
    /\ s \in done => cal[s] = Offset(s) /\ stored[s] = Offset(s)
    /\ \A k \in Axes : cal[s][k] \in {0, Offset(s)[k]}
    /\ fitting.imu = "bmi" => cal[s] \in {Zero, Offset(s)}
    /\ \A k \in DOMAIN stored[s] : stored[s][k] = Offset(s)[k]

(* A sensor put to a motion publishes it but for two thousandths.          *)
Publishes(s, motion) ==
  \A k \in Axes : Abs(Published(s, Less(s, Read(s, motion)))[k] - motion[k]) <= 2

(* What the 16 bits of the getters hold, those two thousandths included.   *)
FitsWord(motion) == \A k \in Axes : Abs(motion[k]) <= IntMax - 2

(* Once its offset is in effect, a sensor of the BMI270 publishes whatever *)
(* motion it is put to: any that it can sense beside its bias and that 16  *)
(* bits hold.                                                              *)
CalibratedReadsMotion ==
  fitting.imu = "bmi" => \A s \in {s \in Fitted : cal[s] = Offset(s)} :
    \A motion \in {m \in Motions[s] : InRange("bmi", s, m) /\ FitsWord(m)} : Publishes(s, motion)

(* imu_icm.c:636-637: the getter rotates its values in the satellite frame *)
(* and scales them to match what the BMI270 uses, "so the main thread can  *)
(* work with either IMU".                                                  *)
(* Does not hold: README, section 7.                                       *)
IcmReadsMotion ==
  fitting.imu = "icm" /\ cal["gyro"] = Offset("gyro") =>
    \A motion \in {m \in Motions["gyro"] : InRange("icm", "gyro", m)} : Publishes("gyro", motion)

(* imu_bmi.c:30, 457-462: the range of the gyroscope is 125 degrees a      *)
(* second, and values are converted to milli-degrees a second.             *)
(* Does not hold: README, section 7.                                       *)
WholeRangeIsPublished ==
  fitting.imu = "bmi" /\ cal["gyro"] = Offset("gyro") =>
    \A motion \in {m \in Motions["gyro"] : InRange("bmi", "gyro", m)} : Publishes("gyro", motion)

(* imu_bmi.c:67, 71: beside each reading the original value of the sensor  *)
(* is kept, in millionths, and published.                                  *)
(* Does not hold: README, section 7.                                       *)
RawIsTheOriginal ==
  fitting.imu = "bmi" => \A s \in Fitted : \A motion \in {m \in Motions[s] : InRange(fitting.imu, s, m)} :
    LET original == Original(Driver(s, Sensed(s, motion))) IN
    PublishedRaw(s, original) = original

(* Every command ends, also when the IMU thread has no data for it.        *)
CommandEnds == pc # "idle" ~> pc = "idle"

(* README.md:128-129: for a sensor that has been calibrated, "accelcal     *)
(* reset" obtains the values to be subtracted from future measurements.    *)
(* Does not hold: README, section 7.                                       *)
ResetCalibrationIsOffset ==
  pc = "store" /\ option = "reset" => cal[sensor] = Offset(sensor)
=============================================================================
