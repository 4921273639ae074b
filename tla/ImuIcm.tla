------------------------------- MODULE ImuIcm -------------------------------
(***************************************************************************)
(* The IMU thread on board 1.0.0 (src/imu_icm.c): it finds the ICM42688 on *)
(* the I2C bus, resets it when it cannot be read, configures it and reads  *)
(* it.  The registers lie in banks.  A bank is selected in the device and  *)
(* remembered in prev_bank; any transfer may fail, after which the device  *)
(* may or may not have done what it was asked.                             *)
(*                                                                         *)
(* Calibration and averages are not in this module.                        *)
(***************************************************************************)
EXTENDS Integers, Sequences, IcmBytes

CONSTANTS
  MaxBoots,         (* MAX_RECOVERY_BOOTS                                   *)
  SoftResets,       (* SOFT_RESET_RETRIES                                   *)
  ReadyTries,       (* SOFT_RESET_READY_TRIES                               *)
  DataTries,        (* DATA_READY_TRIES                                     *)
  BusRecovery,      (* what i2c_recover_bus may return                      *)
  Bus,              (* how a transfer may end                               *)
  SettingsFail,     (* settings may fail to load and to save                *)
  WarmRestart,      (* the MCU may be reset without power to the IMU failing *)
  Bytes             (* what a data register may hold                        *)

ASSUME IcmAssumption ==
  /\ MaxBoots \in Nat \ {0} /\ SoftResets \in Nat \ {0}
  /\ ReadyTries \in Nat \ {0} /\ DataTries \in Nat \ {0}
  /\ BusRecovery \subseteq {"ok", "ENOSYS", "stuck"}
  /\ Bus \subseteq {"ok", "fails"}
  /\ SettingsFail \in BOOLEAN /\ WarmRestart \in BOOLEAN
  /\ Bytes \subseteq 0 .. 255

VARIABLES
  stored, counted,        (* the count in flash; this boot has raised it (history) *)
  bank, regs,             (* the device: its bank, and what configure_imu has set  *)
  prev_bank, imu_addr,
  pc, rec_count, attempt, i, ret,
  n,                      (* the next write of configure_imu or byte of a sample   *)
  b0, word                (* the low byte read, and the last word with its bytes   *)

device == <<bank, regs>>
driver == <<prev_bank, imu_addr>>
flash  == <<stored, counted>>
vars   == <<flash, device, driver, pc, rec_count, attempt, i, ret, n, b0, word>>

Unknown == 255
IMU_DEVICE_ADDR == 104

(* The writes of configure_imu in their order: bank, register and value.   *)
Reg(b, name, value) == [bank |-> b, name |-> name, value |-> value]
Config == <<
  Reg(0, "PWR_MGMT0", "low noise"), Reg(0, "GYRO_CONFIG0", "range and rate"),
  Reg(1, "GYRO_CONFIG_STATIC10", "bandwidth"),
  Reg(1, "GYRO_CONFIG_STATIC6", "nf_coswz"),
  Reg(1, "GYRO_CONFIG_STATIC7", "nf_coswz"),
  Reg(1, "GYRO_CONFIG_STATIC8", "nf_coswz"),
  Reg(1, "GYRO_CONFIG_STATIC8", "nf_coswz_sel"),
  Reg(1, "GYRO_CONFIG_STATIC3", "aaf"), Reg(1, "GYRO_CONFIG_STATIC4", "aaf"),
  Reg(1, "GYRO_CONFIG_STATIC5", "aaf")>>

Names == {Config[k].name : k \in DOMAIN Config}
Cleared == [name \in Names |-> "default"]

(* X0, X1, Y0, Y1, Z0, Z1, TEMP0, TEMP1.                                   *)
SampleBytes == 8

Init ==
  /\ stored = 0 /\ counted = FALSE
  /\ bank = 0 /\ regs = Cleared
  /\ prev_bank = 0 /\ imu_addr = 0
  /\ pc = "start"
  /\ rec_count = 0 /\ attempt = 0 /\ i = 0 /\ ret = FALSE
  /\ n = 1 /\ b0 = 0 /\ word = <<0, 0, 0>>

(* Power fails, or the MCU alone is reset.                                 *)
Restart ==
  /\ counted' = FALSE /\ UNCHANGED stored
  /\ \/ bank' = 0 /\ regs' = Cleared
     \/ WarmRestart /\ UNCHANGED device
  /\ prev_bank' = 0 /\ imu_addr' = 0
  /\ pc' = "start"
  /\ rec_count' = 0 /\ attempt' = 0 /\ i' = 0 /\ ret' = FALSE
  /\ n' = 1 /\ b0' = 0 /\ word' = <<0, 0, 0>>

-----------------------------------------------------------------------------
(* imu_write_reg and imu_read_reg, for a register of bank b.               *)
Works == "ok" \in Bus /\ imu_addr = IMU_DEVICE_ADDR
Fails == "fails" \in Bus \/ imu_addr # IMU_DEVICE_ADDR

(* The bank the device is in once the select, if there is one, is done.    *)
Selected(b) == IF b # prev_bank THEN b ELSE bank

(* The bank after a transfer failed, of which the select may be the one.   *)
BankAfterFailure(b) == bank' \in {bank} \cup {x \in {Selected(b)} : imu_addr = IMU_DEVICE_ADDR}

WriteReg(b)      == Works /\ bank' = Selected(b) /\ prev_bank' = b
WriteRegFails(b) == Fails /\ BankAfterFailure(b) /\ UNCHANGED prev_bank

ReadReg(b) == Works /\ bank' = Selected(b) /\ prev_bank' = b

BankAssumed(b) ==                             \* mutant: prev_bank set before the select
  Fails /\ BankAfterFailure(b) /\ prev_bank' = b

ReadRegFails(b) ==
  /\ Fails
  /\ \/ BankAfterFailure(b) /\ UNCHANGED prev_bank
     \/ Works /\ bank' = Selected(b) /\ prev_bank' = b

-----------------------------------------------------------------------------
(* init_imu, init_icm *)

BusIsReady ==
  /\ pc = "start"
  /\ pc' = "presence"
  /\ UNCHANGED <<flash, device, driver, rec_count, attempt, i, ret, n, b0, word>>

BusIsNotReady ==
  /\ pc = "start"
  /\ pc' = "halted"
  /\ UNCHANGED <<flash, device, driver, rec_count, attempt, i, ret, n, b0, word>>

Found ==
  /\ pc = "presence"
  /\ "ok" \in Bus
  /\ pc' = "whoami"
  /\ imu_addr' = IMU_DEVICE_ADDR
  /\ UNCHANGED <<flash, device, prev_bank, rec_count, attempt, i, ret, n, b0, word>>

NotFound ==
  /\ pc = "presence"
  /\ "fails" \in Bus
  /\ pc' = "reset"
  /\ UNCHANGED <<flash, device, driver, rec_count, attempt, i, ret, n, b0, word>>

(* In another bank the register is not WHO_AM_I.                           *)
WhoAmI ==
  /\ pc = "whoami"
  /\ ReadReg(0)
  /\ pc' = IF bank' = 0 THEN "configure" ELSE "halted"
  /\ UNCHANGED <<flash, regs, imu_addr, rec_count, attempt, i, ret, n, b0, word>>

WhoAmIFails ==
  /\ pc = "whoami"
  /\ ReadRegFails(0)
  /\ pc' = "reset"
  /\ UNCHANGED <<flash, regs, imu_addr, rec_count, attempt, i, ret, n, b0, word>>

-----------------------------------------------------------------------------
(* reset_icm *)

ResetIcm ==
  /\ pc = "reset"
  /\ pc' = "attempt"
  /\ rec_count' \in {stored} \cup {c \in {0} : SettingsFail}
  /\ attempt' = 1 /\ ret' = FALSE
  /\ UNCHANGED <<flash, device, driver, i, n, b0, word>>

BusNotSupported ==
  /\ pc = "attempt" /\ attempt < SoftResets
  /\ "ENOSYS" \in BusRecovery
  /\ pc' = "recovered"
  /\ ret' = FALSE
  /\ UNCHANGED <<flash, device, driver, rec_count, attempt, i, n, b0, word>>

(* Recovered or stuck: the soft reset is tried all the same.               *)
BusRecovered ==
  /\ pc = "attempt" /\ attempt < SoftResets
  /\ BusRecovery \cap {"ok", "stuck"} # {}
  /\ pc' = "soft_reset"
  /\ prev_bank' = Unknown
  /\ UNCHANGED <<flash, device, imu_addr, rec_count, attempt, i, ret, n, b0, word>>

AttemptsExhausted ==
  /\ pc = "attempt" /\ attempt >= SoftResets
  /\ pc' = IF ret THEN "failed" ELSE "recovered"
  /\ UNCHANGED <<flash, device, driver, rec_count, attempt, i, ret, n, b0, word>>

SoftReset ==
  /\ pc = "soft_reset"
  /\ Works /\ prev_bank' = 0
  /\ bank' = 0 /\ regs' = Cleared
  /\ pc' = "reset_done" /\ i' = 0
  /\ ret' = FALSE
  /\ UNCHANGED <<flash, imu_addr, rec_count, attempt, n, b0, word>>

(* The log call counts this attempt, and the loop counts it again.         *)
RetriedForEver ==                             \* mutant: attempt reset with the bus
  /\ pc = "soft_reset"
  /\ WriteRegFails(0) /\ UNCHANGED regs
  /\ pc' = "attempt" /\ ret' = TRUE
  /\ UNCHANGED <<flash, imu_addr, rec_count, attempt, i, n, b0, word>>

SoftResetFails ==
  /\ pc = "soft_reset"
  /\ \/ WriteRegFails(0) /\ UNCHANGED regs
     \/ Fails /\ Works /\ bank' = 0 /\ regs' = Cleared /\ UNCHANGED prev_bank
  /\ pc' = "attempt" /\ ret' = TRUE
  /\ attempt' = attempt + 2
  /\ UNCHANGED <<flash, imu_addr, rec_count, i, n, b0, word>>

ResetDone ==
  /\ pc = "reset_done" /\ i < ReadyTries
  /\ ReadReg(0)
  /\ pc' = "recovered" /\ ret' = FALSE
  /\ UNCHANGED <<flash, regs, imu_addr, rec_count, attempt, i, n, b0, word>>

ResetNotDone ==
  /\ pc = "reset_done" /\ i < ReadyTries
  /\ \/ ReadReg(0) /\ ret' = FALSE
     \/ ReadRegFails(0) /\ ret' = TRUE
  /\ i' = i + 1
  /\ UNCHANGED <<flash, regs, imu_addr, pc, rec_count, attempt, n, b0, word>>

NextAttempt ==
  /\ pc = "reset_done" /\ i = ReadyTries
  /\ pc' = "attempt"
  /\ attempt' = attempt + 1
  /\ UNCHANGED <<flash, device, driver, rec_count, i, ret, n, b0, word>>

Save(count) == stored' \in {count} \cup {c \in {stored} : SettingsFail}

CountUnbounded ==                             \* mutant: counts for ever
  /\ pc = "failed"
  /\ Save(rec_count + 1) /\ counted' = TRUE
  /\ pc' = "halted"
  /\ UNCHANGED <<device, driver, rec_count, attempt, i, ret, n, b0, word>>

(* init_imu fails, which is a fatal error.                                 *)
CountFailure ==
  /\ pc = "failed"
  /\ IF rec_count < MaxBoots
     THEN Save(rec_count + 1) /\ counted' = TRUE
     ELSE UNCHANGED flash
  /\ pc' = "halted"
  /\ UNCHANGED <<device, driver, rec_count, attempt, i, ret, n, b0, word>>

ClearCount ==
  /\ pc = "recovered"
  /\ IF rec_count # 0 THEN Save(0) ELSE UNCHANGED stored
  /\ pc' = "presence"
  /\ UNCHANGED <<counted, device, driver, rec_count, attempt, i, ret, n, b0, word>>

-----------------------------------------------------------------------------
(* configure_imu *)

Configure ==
  /\ pc = "configure"
  /\ LET reg == Config[n] IN
     /\ WriteReg(reg.bank)
     /\ regs' = IF bank' = reg.bank THEN [regs EXCEPT ![reg.name] = reg.value] ELSE regs
  /\ IF n = Len(Config) THEN pc' = "data_ready" /\ n' = 1 ELSE n' = n + 1 /\ UNCHANGED pc
  /\ i' = 0
  /\ UNCHANGED <<flash, imu_addr, rec_count, attempt, ret, b0, word>>

ConfigureSkips ==                             \* mutant: a failed write is passed over
  /\ pc = "configure"
  /\ WriteRegFails(Config[n].bank) /\ UNCHANGED regs
  /\ IF n = Len(Config) THEN pc' = "data_ready" /\ n' = 1 ELSE n' = n + 1 /\ UNCHANGED pc
  /\ i' = 0
  /\ UNCHANGED <<flash, imu_addr, rec_count, attempt, ret, b0, word>>

ConfigureFails ==
  /\ pc = "configure"
  /\ WriteRegFails(Config[n].bank) /\ UNCHANGED regs
  /\ pc' = "halted"
  /\ UNCHANGED <<flash, imu_addr, rec_count, attempt, i, ret, n, b0, word>>

-----------------------------------------------------------------------------
(* The loop of handle_imu: wait for the data, or not at all once the tries *)
(* are used up, then process_data.                                         *)
DataReady ==
  /\ pc = "data_ready" /\ i < DataTries
  /\ ReadReg(0)
  /\ pc' = "sample" /\ n' = 1
  /\ UNCHANGED <<flash, regs, imu_addr, rec_count, attempt, i, ret, b0, word>>

DataNotReady ==
  /\ pc = "data_ready" /\ i < DataTries
  /\ ReadReg(0) \/ ReadRegFails(0)
  /\ i' = i + 1
  /\ UNCHANGED <<flash, regs, imu_addr, pc, rec_count, attempt, ret, n, b0, word>>

DataTimeout ==
  /\ pc = "data_ready" /\ i = DataTries
  /\ pc' = "sample" /\ n' = 1
  /\ UNCHANGED <<flash, device, driver, rec_count, attempt, i, ret, b0, word>>

ReadLow ==
  /\ pc = "sample" /\ n % 2 = 1
  /\ ReadReg(0)
  /\ b0' \in Bytes
  /\ n' = n + 1
  /\ UNCHANGED <<flash, regs, imu_addr, pc, rec_count, attempt, i, ret, word>>

ReadHigh ==
  /\ pc = "sample" /\ n % 2 = 0
  /\ ReadReg(0)
  /\ \E b1 \in Bytes : word' = <<b0, b1, ShiftedWord(b0, b1)>>
  /\ IF n = SampleBytes THEN pc' = "data_ready" /\ i' = 0 /\ n' = 1
     ELSE n' = n + 1 /\ UNCHANGED <<pc, i>>
  /\ UNCHANGED <<flash, regs, imu_addr, rec_count, attempt, ret, b0>>

SampleFails ==
  /\ pc = "sample"
  /\ ReadRegFails(0)
  /\ pc' = "data_ready" /\ i' = 0
  /\ UNCHANGED <<flash, regs, imu_addr, rec_count, attempt, ret, n, b0, word>>

InitImu   == BusIsReady \/ BusIsNotReady
InitIcm   == Found \/ NotFound \/ WhoAmI \/ WhoAmIFails
Reset     == \/ ResetIcm \/ BusNotSupported \/ BusRecovered \/ AttemptsExhausted
             \/ SoftReset \/ SoftResetFails \/ ResetDone \/ ResetNotDone \/ NextAttempt
             \/ CountFailure \/ ClearCount
Loop      == \/ DataReady \/ DataNotReady \/ DataTimeout
             \/ ReadLow \/ ReadHigh \/ SampleFails
Thread    == InitImu \/ InitIcm \/ Reset \/ Configure \/ ConfigureFails \/ Loop

Next == Thread \/ Restart

Spec == Init /\ [][Next]_vars

(* The calls of the thread return; nothing is said of resets.              *)
FairSpec == Spec /\ WF_vars(Thread)

-----------------------------------------------------------------------------
TypeOK ==
  /\ stored \in 0 .. MaxBoots /\ counted \in BOOLEAN
  /\ bank \in {0, 1} /\ regs \in [Names -> {"default"} \cup {Config[k].value : k \in DOMAIN Config}]
  /\ prev_bank \in {0, 1, Unknown} /\ imu_addr \in {0, IMU_DEVICE_ADDR}
  /\ pc \in {"start", "presence", "whoami", "reset", "attempt", "soft_reset", "reset_done", "failed",
             "recovered", "configure", "data_ready", "sample", "halted"}
  /\ rec_count \in 0 .. MaxBoots /\ attempt \in 0 .. SoftResets + 1
  /\ i \in 0 .. (IF ReadyTries > DataTries THEN ReadyTries ELSE DataTries)
  /\ ret \in BOOLEAN
  /\ n \in 1 .. Len(Config) /\ b0 \in 0 .. 255
  /\ word \in (0 .. 255) \X (0 .. 255) \X (0 .. 2^16 - 1)

(* Whatever transfers have failed, the next register the thread reads or   *)
(* writes is in the bank it is meant to be in: prev_bank may be out of     *)
(* date, but never in a way that leaves out a select that is needed.       *)
NextBank == IF pc = "configure" THEN Config[n].bank ELSE 0

RightBank == pc # "halted" => Selected(NextBank) = NextBank

(* Samples are taken only of a device that holds the whole configuration,  *)
(* whatever transfers and resets have failed before.                       *)
Intended(name) ==
  LET last == CHOOSE k \in DOMAIN Config :
                /\ Config[k].name = name
                /\ \A l \in DOMAIN Config : Config[l].name = name => l <= k
  IN Config[last].value

ConfiguredBeforeSampling ==
  pc \in {"data_ready", "sample"} => \A name \in Names : regs[name] = Intended(name)

(* The count in flash keeps the promise of the other board's.              *)
Promise == INSTANCE BootCount WITH count <- stored, raised <- counted

ImplementsBootCount == Promise!Spec

(* src/imu_icm.c:262-265 and 359-360: a thread whose soft resets all fail  *)
(* gives up, whatever the other transfers do: once the board is no longer  *)
(* reset it samples or has halted the board.  The bus driver has recovery. *)
GivesUp ==
  <>[][~Restart /\ ~SoftReset /\ ~BusNotSupported]_vars
    => <>[](pc \in {"data_ready", "sample", "halted"})

(* src/imu_icm.c:357-358: a bus that cannot be read is recovered; the soft *)
(* reset is sent to the IMU.                                               *)
(* Does not hold: README, section 7.                                       *)
ResetReachesTheImu == pc = "soft_reset" => imu_addr = IMU_DEVICE_ADDR

(* src/imu_icm.c:486-488: nf_coswz is 39 for each axis, in registers 6, 7, *)
(* 8, while the thread samples.                                            *)
(* Does not hold: README, section 7.                                       *)
EachAxisHasItsNotch ==
  pc \in {"data_ready", "sample"} =>
    \A name \in {"GYRO_CONFIG_STATIC6", "GYRO_CONFIG_STATIC7", "GYRO_CONFIG_STATIC8"} :
      regs[name] = "nf_coswz"

(* src/imu_icm.c:20-21: 476.8 micro-degrees per second a bit: the reading  *)
(* has the resolution of the register.                                     *)
(* Does not hold: README, section 7.                                       *)
ReadingIsTheRegister == word[3] = word[2] * 256 + word[1]
=============================================================================
