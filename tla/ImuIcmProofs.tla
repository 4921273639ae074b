---------------------------- MODULE ImuIcmProofs ----------------------------
(***************************************************************************)
(* Proofs about ImuIcm: the banks of the device and its driver, when the   *)
(* device always restarts with the MCU, and the recovery count.            *)
(***************************************************************************)
EXTENDS ImuIcm, TLAPS

(* The driver may take bank 0 for another and select it again, never the   *)
(* other way round; while it configures the device it is not out of date,  *)
(* for bank 1 follows bank 0 there and no failed write is followed by      *)
(* another.                                                                *)
BankInv ==
  /\ pc # "halted" /\ prev_bank = 0 => bank = 0
  /\ pc = "configure" => prev_bank = bank

LEMMA BankInit == Init => BankInv
  BY DEF Init, BankInv

LEMMA BankStep == ~WarmRestart /\ BankInv /\ [Next]_vars => BankInv'
  <1> SUFFICES ASSUME ~WarmRestart, BankInv, [Next]_vars PROVE BankInv'
    OBVIOUS
  <1> USE DEF BankInv
  <1>1. CASE Restart
    BY <1>1 DEF Restart, device
  <1>2. CASE InitImu
    BY <1>2 DEF InitImu, BusIsReady, BusIsNotReady, device, driver
  <1>3. CASE Found \/ NotFound
    BY <1>3 DEF Found, NotFound, device, driver
  <1>4. CASE WhoAmI \/ WhoAmIFails
    BY <1>4 DEF WhoAmI, WhoAmIFails, ReadReg, ReadRegFails, BankAfterFailure, Selected
  <1>5. CASE ResetIcm \/ BusNotSupported \/ AttemptsExhausted \/ NextAttempt \/ CountFailure \/ ClearCount
    BY <1>5 DEF ResetIcm, BusNotSupported, AttemptsExhausted, NextAttempt, CountFailure, ClearCount,
                device, driver
  <1>6. CASE BusRecovered
    BY <1>6 DEF BusRecovered, device, Unknown
  <1>7. CASE SoftReset \/ SoftResetFails
    BY <1>7 DEF SoftReset, SoftResetFails, WriteRegFails, BankAfterFailure, Selected
  <1>8. CASE ResetDone \/ ResetNotDone
    BY <1>8 DEF ResetDone, ResetNotDone, ReadReg, ReadRegFails, BankAfterFailure, Selected
  <1>9. CASE Configure
    <2>1. prev_bank' = bank'
      BY <1>9 DEF Configure, WriteReg, Selected
    <2> QED
      BY <2>1
  <1>10. CASE ConfigureFails
    BY <1>10 DEF ConfigureFails
  <1>11. CASE DataReady \/ DataNotReady \/ DataTimeout
    BY <1>11 DEF DataReady, DataNotReady, DataTimeout, ReadReg, ReadRegFails, BankAfterFailure, Selected,
                 device, driver
  <1>12. CASE ReadLow \/ ReadHigh \/ SampleFails
    BY <1>12 DEF ReadLow, ReadHigh, SampleFails, ReadReg, ReadRegFails, BankAfterFailure, Selected
  <1>13. CASE UNCHANGED vars
    BY <1>13 DEF vars, device, driver
  <1> QED
    BY <1>1, <1>2, <1>3, <1>4, <1>5, <1>6, <1>7, <1>8, <1>9, <1>10, <1>11, <1>12, <1>13
       DEF Next, Thread, InitIcm, Reset, Loop

(* Where the IMU loses its power whenever the MCU restarts, every register *)
(* access of the thread is in its bank, whatever transfers fail, however   *)
(* many retries are made and whatever the bus recovery returns.            *)
THEOREM RightBankTheorem == ~WarmRestart => (Spec => []RightBank)
  <1> SUFFICES ASSUME ~WarmRestart PROVE Spec => []RightBank
    OBVIOUS
  <1>1. BankInv => RightBank
    BY DEF BankInv, RightBank, NextBank, Selected
  <1>2. BankInv /\ [Next]_vars => BankInv'
    BY BankStep
  <1> QED
    BY <1>1, <1>2, BankInit, PTL DEF Spec

-----------------------------------------------------------------------------
(* Between reset_icm's load and its store, the count is the one in flash,  *)
(* or 0 when it could not be loaded; a counted boot goes no further.       *)
Resetting == {"attempt", "soft_reset", "reset_done", "failed", "recovered"}

CountInv ==
  /\ stored \in 0 .. MaxBoots
  /\ pc # "halted" => counted = FALSE
  /\ pc \in Resetting => rec_count \in {0, stored}

LEMMA ZeroInRange == MaxBoots \in Nat /\ 0 \in 0 .. MaxBoots
  <1>1. MaxBoots \in Nat
    BY IcmAssumption
  <1> QED
    BY <1>1

LEMMA CountInit == Init => CountInv
  BY ZeroInRange, Zenon DEF Init, CountInv, Resetting

(* The steps that leave the count alone. *)
Uncounted ==
  \/ InitImu \/ InitIcm \/ BusNotSupported \/ BusRecovered \/ AttemptsExhausted
  \/ SoftReset \/ SoftResetFails \/ ResetDone \/ ResetNotDone \/ NextAttempt
  \/ Configure \/ ConfigureFails \/ Loop

LEMMA UncountedStep ==
  ASSUME Uncounted
  PROVE  /\ UNCHANGED <<stored, counted, rec_count>>
         /\ pc # "halted"
         /\ pc' \in Resetting => pc \in Resetting
  <1> USE DEF flash, Resetting
  <1>1. CASE InitImu
    BY <1>1 DEF InitImu, BusIsReady, BusIsNotReady
  <1>2. CASE InitIcm
    BY <1>2 DEF InitIcm, Found, NotFound, WhoAmI, WhoAmIFails
  <1>3. CASE BusNotSupported \/ BusRecovered \/ AttemptsExhausted \/ NextAttempt
    BY <1>3 DEF BusNotSupported, BusRecovered, AttemptsExhausted, NextAttempt
  <1>4. CASE SoftReset \/ SoftResetFails \/ ResetDone \/ ResetNotDone
    BY <1>4 DEF SoftReset, SoftResetFails, ResetDone, ResetNotDone
  <1>5. CASE Configure \/ ConfigureFails
    BY <1>5 DEF Configure, ConfigureFails
  <1>6. CASE Loop
    BY <1>6 DEF Loop, DataReady, DataNotReady, DataTimeout, ReadLow, ReadHigh, SampleFails
  <1> QED
    BY <1>1, <1>2, <1>3, <1>4, <1>5, <1>6 DEF Uncounted

LEMMA NextSplit == Next => Uncounted \/ Restart \/ ResetIcm \/ CountFailure \/ ClearCount
  BY DEF Next, Thread, Reset, Uncounted

LEMMA CountStep == CountInv /\ [Next]_vars => CountInv'
  <1> SUFFICES ASSUME CountInv, [Next]_vars PROVE CountInv'
    OBVIOUS
  <1> USE DEF CountInv
  <1>1. CASE Restart
    BY <1>1, Zenon DEF Restart, Resetting
  <1>2. CASE ResetIcm
    BY <1>2 DEF ResetIcm, flash, Resetting
  <1>3. CASE CountFailure
    <2>1. stored' \in 0 .. MaxBoots
      BY <1>3, ZeroInRange DEF CountFailure, Save, flash, Resetting
    <2>2. pc' = "halted"
      BY <1>3 DEF CountFailure
    <2> QED
      BY <2>1, <2>2 DEF Resetting
  <1>4. CASE ClearCount
    BY <1>4, ZeroInRange DEF ClearCount, Save, Resetting
  <1>5. CASE Uncounted
    BY <1>5, UncountedStep
  <1>6. CASE UNCHANGED vars
    BY <1>6 DEF vars, flash
  <1> QED
    BY <1>1, <1>2, <1>3, <1>4, <1>5, <1>6, NextSplit

(* reset_icm and the restarts implement BootCount, over any number of      *)
(* boots and with settings that fail.                                      *)
THEOREM RecoveryCountTheorem == Spec => ImplementsBootCount
  <1>1. Init => Promise!Init
    BY DEF Init, Promise!Init
  <1>2. ASSUME CountInv, [Next]_vars PROVE [Promise!Next]_(Promise!vars)
    <2> USE DEF Promise!Next, Promise!vars
    <2>1. CASE Restart
      BY <2>1 DEF Restart, Promise!Boot
    <2>2. CASE CountFailure
      <3>1. ~counted /\ rec_count \in {0, stored}
        BY <1>2, <2>2 DEF CountInv, Resetting, CountFailure
      <3>2. CASE rec_count < MaxBoots
        <4>1. counted' = TRUE /\ stored' \in {rec_count + 1, stored}
          BY <2>2, <3>2 DEF CountFailure, Save
        <4>2. CASE stored' = stored
          BY <3>1, <4>1, <4>2 DEF Promise!Fail
        <4>3. CASE stored' = rec_count + 1
          <5>1. rec_count + 1 \in {c \in {1, stored + 1} : c <= MaxBoots}
            BY <1>2, <3>1, <3>2, ZeroInRange DEF CountInv
          <5> QED
            BY <3>1, <4>1, <4>3, <5>1 DEF Promise!Raise
        <4> QED
          BY <4>1, <4>2, <4>3
      <3>3. CASE ~(rec_count < MaxBoots)
        BY <2>2, <3>3 DEF CountFailure, flash
      <3> QED
        BY <3>2, <3>3
    <2>3. CASE ClearCount
      BY <1>2, <2>3 DEF ClearCount, Save, CountInv, Promise!Clear
    <2>4. CASE ResetIcm
      BY <2>4 DEF ResetIcm, flash
    <2>5. CASE Uncounted
      BY <2>5, UncountedStep
    <2>6. CASE UNCHANGED vars
      BY <2>6 DEF vars, flash
    <2> QED
      BY <1>2, <2>1, <2>2, <2>3, <2>4, <2>5, <2>6, NextSplit
  <1> QED
    BY <1>1, <1>2, CountInit, CountStep, PTL DEF Spec, ImplementsBootCount, Promise!Spec

-----------------------------------------------------------------------------
(* configure_imu is entered once, at its first write, in the bank that the *)
(* driver remembers.  Of the writes before the m-th, the last to each      *)
(* register is in force.                                                   *)
Values == {"default"} \cup {Config[k].value : k \in DOMAIN Config}

Unconfigured == {"start", "presence", "whoami", "reset"} \cup Resetting

Overwritten(k, m) == \E l \in k + 1 .. m - 1 : Config[l].name = Config[k].name

WrittenBefore(m) ==
  \A k \in 1 .. m - 1 : Overwritten(k, m) \/ regs[Config[k].name] = Config[k].value

ConfigInv ==
  /\ regs \in [Names -> Values]
  /\ pc \in Unconfigured => n = 1
  /\ pc = "configure" => n \in 1 .. 10 /\ prev_bank = bank /\ WrittenBefore(n)
  /\ pc \in {"data_ready", "sample"} => WrittenBefore(11)

LEMMA ConfigDomain ==
  /\ DOMAIN Config = 1 .. 10 /\ Len(Config) = 10
  /\ \A k \in 1 .. 10 : Config[k].name \in Names /\ Config[k].value \in Values
  <1>1. DOMAIN Config = 1 .. 10 /\ Len(Config) = 10
    BY DEF Config
  <1> QED
    BY <1>1 DEF Names, Values

LEMMA ClearedType == Cleared \in [Names -> Values]
  BY DEF Cleared, Values

LEMMA ConfigInit == Init => ConfigInv
  BY ClearedType DEF Init, ConfigInv, Unconfigured, Resetting

(* A step outside configure_imu leaves the registers alone, or clears them *)
(* on the way to it.                                                       *)
LEMMA ConfigFrame ==
  ASSUME ConfigInv, pc' # "configure",
         regs' = regs \/ (regs' = Cleared /\ pc' \notin {"data_ready", "sample"}),
         pc' \in Unconfigured => n' = 1,
         pc' \in {"data_ready", "sample"} => pc \in {"data_ready", "sample"}
  PROVE  ConfigInv'
  <1>1. regs' \in [Names -> Values]
    BY ClearedType DEF ConfigInv
  <1>2. CASE pc' \in {"data_ready", "sample"}
    BY <1>1, <1>2 DEF ConfigInv, WrittenBefore, Overwritten, Unconfigured, Resetting
  <1>3. CASE pc' \notin {"data_ready", "sample"}
    BY <1>1, <1>3 DEF ConfigInv
  <1> QED
    BY <1>2, <1>3

LEMMA ConfigureStep == ConfigInv /\ Configure => ConfigInv'
  <1> SUFFICES ASSUME ConfigInv, Configure PROVE ConfigInv'
    OBVIOUS
  <1> DEFINE reg == Config[n]
  <1>1. pc = "configure" /\ n \in 1 .. 10 /\ WrittenBefore(n) /\ regs \in [Names -> Values]
    BY DEF Configure, ConfigInv
  <1>2. reg.name \in Names /\ reg.value \in Values
    BY <1>1, ConfigDomain
  <1>3. regs' = [regs EXCEPT ![reg.name] = reg.value]
    BY <1>1 DEF Configure, WriteReg, Selected, ConfigInv
  <1>4. prev_bank' = bank'
    BY <1>1 DEF Configure, WriteReg, Selected, ConfigInv
  <1>5. regs' \in [Names -> Values]
    BY <1>1, <1>2, <1>3
  <1>6. ASSUME NEW k \in 1 .. n PROVE Overwritten(k, n + 1) \/ regs'[Config[k].name] = Config[k].value
    <2>1. CASE k = n
      BY <1>1, <1>2, <1>3, <2>1
    <2>2. CASE k # n /\ Config[k].name = reg.name
      <3>1. n \in k + 1 .. n
        BY <1>1, <2>2
      <3> QED
        BY <1>1, <2>2, <3>1 DEF Overwritten
    <2>3. CASE k # n /\ Config[k].name # reg.name
      <3>1. k \in 1 .. n - 1 /\ Config[k].name \in Names
        BY <1>1, <2>3, ConfigDomain
      <3>2. Overwritten(k, n) \/ regs[Config[k].name] = Config[k].value
        BY <1>1, <3>1 DEF WrittenBefore
      <3>3. Overwritten(k, n) => Overwritten(k, n + 1)
        BY <1>1, <3>1 DEF Overwritten
      <3> QED
        BY <1>1, <1>3, <2>3, <3>1, <3>2, <3>3
    <2> QED
      BY <2>1, <2>2, <2>3
  <1>7. CASE n = 10
    <2>1. pc' = "data_ready"
      BY <1>7, ConfigDomain DEF Configure
    <2>2. WrittenBefore(11)'
      BY <1>6, <1>7 DEF WrittenBefore, Overwritten
    <2> QED
      BY <1>5, <2>1, <2>2 DEF ConfigInv, Unconfigured, Resetting
  <1>8. CASE n # 10
    <2>1. pc' = "configure" /\ n' = n + 1 /\ n' \in 1 .. 10
      BY <1>1, <1>8, ConfigDomain DEF Configure
    <2>2. n' - 1 = n
      BY <1>1, <2>1
    <2>3. WrittenBefore(n)'
      BY <1>1, <1>6, <2>1, <2>2 DEF WrittenBefore, Overwritten
    <2> QED
      BY <1>4, <1>5, <2>1, <2>3 DEF ConfigInv, Unconfigured, Resetting
  <1> QED
    BY <1>7, <1>8

LEMMA ConfigStep == ConfigInv /\ [Next]_vars => ConfigInv'
  <1> SUFFICES ASSUME ConfigInv, [Next]_vars PROVE ConfigInv'
    OBVIOUS
  <1>1. CASE Restart
    BY <1>1, ConfigFrame DEF Restart, device
  <1>2. CASE InitImu
    BY <1>2, ConfigFrame DEF InitImu, BusIsReady, BusIsNotReady, device, ConfigInv, Unconfigured
  <1>3. CASE Found \/ NotFound \/ WhoAmIFails
    BY <1>3, ConfigFrame DEF Found, NotFound, WhoAmIFails, device, ConfigInv, Unconfigured
  <1>4. CASE WhoAmI
    <2>1. n' = 1 /\ regs' = regs
      BY <1>4 DEF WhoAmI, ConfigInv, Unconfigured
    <2>2. CASE pc' = "configure"
      <3>1. prev_bank' = bank'
        BY <1>4, <2>2 DEF WhoAmI, ReadReg
      <3>2. WrittenBefore(n)'
        BY <2>1 DEF WrittenBefore
      <3> QED
        BY <2>1, <2>2, <3>1, <3>2 DEF ConfigInv, Unconfigured, Resetting
    <2>3. CASE pc' = "halted"
      BY <2>1, <2>3, ConfigFrame DEF Unconfigured, Resetting
    <2> QED
      BY <1>4, <2>2, <2>3 DEF WhoAmI
  <1>5. CASE Reset
    <2>1. n' = n /\ (regs' = regs \/ regs' = Cleared)
      BY <1>5 DEF Reset, ResetIcm, BusNotSupported, BusRecovered, AttemptsExhausted, SoftReset,
                  SoftResetFails, ResetDone, ResetNotDone, NextAttempt, CountFailure, ClearCount, device
    <2>2. pc \in {"reset"} \cup Resetting
      BY <1>5 DEF Reset, ResetIcm, BusNotSupported, BusRecovered, AttemptsExhausted, SoftReset,
                  SoftResetFails, ResetDone, ResetNotDone, NextAttempt, CountFailure, ClearCount, Resetting
    <2>3. pc' \notin {"configure", "data_ready", "sample"}
      BY <1>5 DEF Reset, ResetIcm, BusNotSupported, BusRecovered, AttemptsExhausted, SoftReset,
                  SoftResetFails, ResetDone, ResetNotDone, NextAttempt, CountFailure, ClearCount
    <2> QED
      BY <2>1, <2>2, <2>3, ConfigFrame DEF ConfigInv, Unconfigured
  <1>6. CASE Configure
    BY <1>6, ConfigureStep
  <1>7. CASE ConfigureFails
    BY <1>7, ConfigFrame DEF ConfigureFails, Unconfigured, Resetting
  <1>8. CASE Loop
    <2>1. regs' = regs /\ pc \in {"data_ready", "sample"} /\ pc' \in {"data_ready", "sample"}
      BY <1>8 DEF Loop, DataReady, DataNotReady, DataTimeout, ReadLow, ReadHigh, SampleFails, device
    <2> QED
      BY <2>1, ConfigFrame DEF Unconfigured, Resetting
  <1>9. CASE UNCHANGED vars
    BY <1>9 DEF vars, device, driver, ConfigInv, WrittenBefore, Overwritten
  <1> QED
    BY <1>1, <1>2, <1>3, <1>4, <1>5, <1>6, <1>7, <1>8, <1>9 DEF Next, Thread, InitIcm

(* Only GYRO_CONFIG_STATIC8 is written twice.                              *)
LEMMA WrittenTwice ==
  /\ Config[6].name = Config[7].name
  /\ \A k, l \in 1 .. 10 : k < l /\ Config[k].name = Config[l].name => k = 6 /\ l = 7
  <1>1. /\ Config[1].name = "PWR_MGMT0" /\ Config[2].name = "GYRO_CONFIG0"
        /\ Config[3].name = "GYRO_CONFIG_STATIC10" /\ Config[4].name = "GYRO_CONFIG_STATIC6"
        /\ Config[5].name = "GYRO_CONFIG_STATIC7"
        /\ Config[6].name = "GYRO_CONFIG_STATIC8" /\ Config[7].name = "GYRO_CONFIG_STATIC8"
        /\ Config[8].name = "GYRO_CONFIG_STATIC3" /\ Config[9].name = "GYRO_CONFIG_STATIC4"
        /\ Config[10].name = "GYRO_CONFIG_STATIC5"
    BY DEF Config, Reg
  <1> DEFINE Once == {1, 2, 3, 4, 5, 8, 9, 10}
  <1>2. \A k \in Once : \A l \in 1 .. 10 : Config[k].name = Config[l].name => k = l
    BY <1>1
  <1> QED
    BY <1>1, <1>2

(* Each register's intended value is that of a write nothing overwrites.   *)
LEMMA IntendedIsLast ==
  ASSUME NEW name \in Names
  PROVE  \E k \in 1 .. 10 : /\ Config[k].name = name /\ ~Overwritten(k, 11)
                            /\ Intended(name) = Config[k].value
  <1> DEFINE Last(k) == /\ Config[k].name = name
                        /\ \A l \in DOMAIN Config : Config[l].name = name => l <= k
  <1>1. PICK k \in 1 .. 10 : Last(k)
    <2>1. PICK j \in 1 .. 10 : Config[j].name = name
      BY ConfigDomain DEF Names
    <2>2. CASE j = 6
      BY <2>1, <2>2, ConfigDomain, WrittenTwice
    <2>3. CASE j # 6
      BY <2>1, <2>3, ConfigDomain, WrittenTwice
    <2> QED
      BY <2>2, <2>3
  <1>2. \A l \in DOMAIN Config : Last(l) => l = k
    BY <1>1, ConfigDomain
  <1>3. k = CHOOSE l \in DOMAIN Config : Last(l)
    BY <1>1, <1>2, ConfigDomain
  <1>4. Intended(name) = Config[k].value
    BY <1>3 DEF Intended
  <1>5. ~Overwritten(k, 11)
    BY <1>1, ConfigDomain DEF Overwritten
  <1> QED
    BY <1>1, <1>4, <1>5

(* The device is sampled only with the whole configuration in force,       *)
(* whatever has failed before and whether or not it restarts with the MCU. *)
THEOREM ConfiguredTheorem == Spec => []ConfiguredBeforeSampling
  <1>1. ASSUME ConfigInv PROVE ConfiguredBeforeSampling
    <2> SUFFICES ASSUME pc \in {"data_ready", "sample"}, NEW name \in Names
                 PROVE  regs[name] = Intended(name)
      BY DEF ConfiguredBeforeSampling
    <2>1. PICK k \in 1 .. 10 : /\ Config[k].name = name /\ ~Overwritten(k, 11)
                              /\ Intended(name) = Config[k].value
      BY IntendedIsLast
    <2> QED
      BY <1>1, <2>1 DEF ConfigInv, WrittenBefore
  <1> QED
    BY <1>1, ConfigInit, ConfigStep, PTL DEF Spec
=============================================================================
