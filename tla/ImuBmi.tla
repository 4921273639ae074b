------------------------------- MODULE ImuBmi -------------------------------
(***************************************************************************)
(* The start of the IMU thread on board 1.1.0 (src/imu_bmi.c): it starts   *)
(* the BMI270 driver, tries to recover the I2C bus when that fails, and    *)
(* keeps in flash a count of the boots that failed.  The board may lose    *)
(* power or be reset between any two steps; the count survives.            *)
(*                                                                         *)
(* The calibration that follows is in Calibration, the readers of the      *)
(* samples in Telemetry.                                                   *)
(***************************************************************************)
EXTENDS Integers

CONSTANTS
  MaxBoots,         (* MAX_RECOVERY_BOOTS                                   *)
  MaxRetries,       (* MAX_I2C_RECOVERY_RETRIES                             *)
  BusRecovery,      (* what i2c_recover_bus may return                      *)
  SettingsFail      (* settings may fail to load and to save                *)

ASSUME ImuAssumption ==
  /\ MaxBoots \in Nat \ {0}
  /\ MaxRetries \in Nat \ {0}
  /\ BusRecovery \subseteq {"ok", "ENOSYS", "stuck"}
  /\ SettingsFail \in BOOLEAN

VARIABLES
  stored,           (* recovery_count in the settings                       *)
  pc,               (* the step the thread is about to take                 *)
  rec_count,
  attempt,
  ret,              (* the last result is an error                          *)
  ready,            (* device_is_ready(dev)                                 *)
  imu_is_ready,
  attributes,       (* of the sensors, those the device has been given      *)
  counted,          (* this boot has been counted as failed (history)       *)
  impaired          (* in this boot the settings have failed, or the bus    *)
                    (* driver was found without recovery (history)          *)

(* What configure_imu sets of each sensor, the range, the oversampling and *)
(* the rate, which also powers it.                                         *)
Attributes == {"accel", "gyro"} \X {"full_scale", "oversampling", "sampling_freq"}

history == <<counted, impaired>>
vars == <<stored, pc, rec_count, attempt, ret, ready, imu_is_ready, attributes, history>>

Boot ==
  /\ pc' = "load"
  /\ rec_count' = 0 /\ attempt' = 0
  /\ ret' = FALSE
  /\ ready' = FALSE
  /\ imu_is_ready' = FALSE /\ attributes' = {}
  /\ counted' = FALSE /\ impaired' = FALSE

Init ==
  /\ stored = 0
  /\ pc = "load"
  /\ rec_count = 0 /\ attempt = 0
  /\ ret = FALSE
  /\ ready = FALSE
  /\ imu_is_ready = FALSE /\ attributes = {}
  /\ counted = FALSE /\ impaired = FALSE

(* The board is reset, or its power fails.                                 *)
Restart == Boot /\ UNCHANGED stored

-----------------------------------------------------------------------------
(* recover_i2c_bus *)

(* load_recovery_count: 0 when the settings cannot be read.                *)
Load ==
  /\ pc = "load"
  /\ pc' = "start"
  /\ rec_count' \in {stored} \cup {c \in {0} : SettingsFail}
  /\ impaired' = (rec_count' # stored)
  /\ UNCHANGED <<stored, attempt, ret, ready, imu_is_ready, attributes, counted>>

(* device_init for the first time.                                         *)
DeviceStarts ==
  /\ pc = "start"
  /\ pc' = "recovered"
  /\ ready' = TRUE /\ ret' = FALSE
  /\ UNCHANGED <<stored, rec_count, attempt, imu_is_ready, attributes, history>>

DeviceFails ==
  /\ pc = "start"
  /\ pc' = "recover"
  /\ ret' = TRUE
  /\ attempt' = 1
  /\ UNCHANGED <<stored, rec_count, ready, imu_is_ready, attributes, history>>

(* One attempt to recover the bus and start the driver; what it leaves in  *)
(* ret decides after the last one.                                         *)
BusNotSupported ==
  /\ pc = "recover" /\ attempt < MaxRetries
  /\ "ENOSYS" \in BusRecovery
  /\ pc' = "recovered"
  /\ ret' = FALSE
  /\ impaired' = TRUE
  /\ UNCHANGED <<stored, rec_count, attempt, ready, imu_is_ready, attributes, counted>>

BusRecovered ==
  /\ pc = "recover" /\ attempt < MaxRetries
  /\ "ok" \in BusRecovery
  /\ pc' = "recovered"
  /\ ret' = FALSE /\ ready' = TRUE
  /\ UNCHANGED <<stored, rec_count, attempt, imu_is_ready, attributes, history>>

(* The bus is stuck, or recovers and the driver does not start.            *)
AttemptUncounted ==                           \* mutant: attempt is not advanced
  /\ pc = "recover" /\ attempt < MaxRetries
  /\ BusRecovery \cap {"stuck", "ok"} # {}
  /\ ret' = ~ret
  /\ UNCHANGED <<stored, pc, rec_count, attempt, ready, imu_is_ready, attributes, history>>

BusRecoveryIsEnough ==                        \* mutant: the driver's error is lost
  /\ pc = "recover" /\ attempt < MaxRetries
  /\ \/ "stuck" \in BusRecovery /\ ret' = TRUE
     \/ "ok" \in BusRecovery /\ ret' = FALSE
  /\ attempt' = attempt + 1
  /\ UNCHANGED <<stored, pc, rec_count, ready, imu_is_ready, attributes, history>>

AttemptFails ==
  /\ pc = "recover" /\ attempt < MaxRetries
  /\ BusRecovery \cap {"stuck", "ok"} # {}
  /\ ret' = TRUE
  /\ attempt' = attempt + 1
  /\ UNCHANGED <<stored, pc, rec_count, ready, imu_is_ready, attributes, history>>

AttemptsExhausted ==
  /\ pc = "recover" /\ attempt >= MaxRetries
  /\ pc' = IF ret THEN "failed" ELSE "recovered"
  /\ UNCHANGED <<stored, rec_count, attempt, ret, ready, imu_is_ready, attributes, history>>

(* store_recovery_count. *)
Save(count) ==
  /\ stored' \in {count} \cup {c \in {stored} : SettingsFail}
  /\ impaired' = (impaired \/ stored' # count)

(* The failure is counted for the reboot that is to follow: the assertion  *)
(* that should cause it holds, and recover_i2c_bus returns.                *)
CountUnbounded ==                             \* mutant: counts for ever
  /\ pc = "failed"
  /\ pc' = "initialize"
  /\ Save(rec_count + 1) /\ counted' = TRUE
  /\ UNCHANGED <<rec_count, attempt, ret, ready, imu_is_ready, attributes>>

CountForgotten ==                             \* mutant: returns before the store
  /\ pc = "failed"
  /\ pc' = "initialize"
  /\ UNCHANGED <<stored, rec_count, attempt, ret, ready, imu_is_ready, attributes, history>>

CountFailure ==
  /\ pc = "failed"
  /\ pc' = "initialize"
  /\ IF rec_count < MaxBoots
     THEN Save(rec_count + 1) /\ counted' = TRUE
     ELSE UNCHANGED <<stored, history>>
  /\ UNCHANGED <<rec_count, attempt, ret, ready, imu_is_ready, attributes>>

ClearCount ==
  /\ pc = "recovered"
  /\ pc' = "initialize"
  /\ IF rec_count # 0 THEN Save(0) ELSE UNCHANGED <<stored, impaired>>
  /\ UNCHANGED <<rec_count, attempt, ret, ready, imu_is_ready, attributes, counted>>

-----------------------------------------------------------------------------
(* handle_imu after recover_i2c_bus, whose result it only logs: init_imu   *)
(* and configure_imu, then the sampling loop.                              *)
InitImu ==
  /\ pc = "initialize" /\ ready
  /\ pc' = "configure"
  /\ imu_is_ready' = TRUE
  /\ UNCHANGED <<stored, rec_count, attempt, ret, ready, attributes, history>>

(* Without its device the thread ends in a fatal assertion.                *)
FatalError ==
  /\ pc = "initialize" /\ ~ready
  /\ pc' = "halted"
  /\ UNCHANGED <<stored, rec_count, attempt, ret, ready, imu_is_ready, attributes, history>>

(* The results of sensor_attr_set are ignored.                             *)
ConfigureImu ==
  /\ pc = "configure"
  /\ pc' = "loop"
  /\ attributes' \in SUBSET Attributes
  /\ UNCHANGED <<stored, rec_count, attempt, ret, ready, imu_is_ready, history>>

RecoverBus == BusNotSupported \/ BusRecovered \/ AttemptFails \/ AttemptsExhausted

Thread ==
  \/ Load
  \/ DeviceStarts \/ DeviceFails
  \/ RecoverBus
  \/ CountFailure \/ ClearCount
  \/ InitImu \/ FatalError \/ ConfigureImu

Next == Thread \/ Restart

Spec == Init /\ [][Next]_vars

(* The calls of the thread return; nothing is said of resets.              *)
FairSpec == Spec /\ WF_vars(Thread)

-----------------------------------------------------------------------------
TypeOK ==
  /\ stored \in 0 .. MaxBoots
  /\ pc \in {"load", "start", "recover", "failed", "recovered", "initialize", "configure",
              "loop", "halted"}
  /\ rec_count \in 0 .. MaxBoots
  /\ attempt \in 0 .. MaxRetries
  /\ ret \in BOOLEAN /\ ready \in BOOLEAN /\ imu_is_ready \in BOOLEAN
  /\ counted \in BOOLEAN /\ impaired \in BOOLEAN
  /\ attributes \subseteq Attributes

(* Over any number of boots and resets at any point, with settings that    *)
(* may fail, the count in flash stays within its maximum and is raised at  *)
(* most once in a boot.                                                    *)
Promise == INSTANCE BootCount WITH count <- stored, raised <- counted

ImplementsBootCount == Promise!Spec

(* Once the board is no longer reset, the thread samples or has halted the *)
(* board: recovery ends whatever the bus and the device do.                *)
RecoveryEnds == <>[][~Restart]_vars => <>[](pc \in {"loop", "halted"})

(* A boot that halts for want of its IMU has left a trace in flash, unless *)
(* its settings failed or its driver has no bus recovery: the count has    *)
(* been raised, or is at its maximum.                                      *)
FailedBootIsCounted == pc = "halted" /\ ~impaired => stored = MaxBoots \/ stored = rec_count + 1

(* In such a boot only a thread that has its device clears the count       *)
(* (src/imu_bmi.c:262: "Recovery successful").                             *)
ClearedOnlyWhenReady == [][stored # 0 /\ stored' = 0 => ready \/ impaired]_vars

(* src/imu_bmi.c:423: "Configuration complete.": the loop samples sensors   *)
(* of the range, the rate and the power mode it converts by.               *)
(* Does not hold: README, section 7.                                       *)
ConfiguredWhenSampling == pc = "loop" => attributes = Attributes

(* src/imu_bmi.c:257: "Giving up on soft reset of IMU. Rebooting.": once   *)
(* the failure has been counted this boot goes no further.                 *)
(* Does not hold: README, section 7.                                       *)
RebootsAfterCounting == [][counted /\ ~Restart => UNCHANGED pc]_vars
=============================================================================
