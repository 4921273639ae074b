---------------------------- MODULE ImuBmiProofs ----------------------------
(***************************************************************************)
(* Proofs about the recovery count of ImuBmi, for any limits and any       *)
(* outcomes of the bus recovery and of the settings.                       *)
(***************************************************************************)
EXTENDS ImuBmi, TLAPS

Recovering == {"start", "recover", "failed", "recovered"}

(* While the thread recovers, it has not counted this boot, and it knows   *)
(* the count in flash or takes it for 0.                                   *)
CountInv ==
  /\ stored \in 0 .. MaxBoots
  /\ rec_count \in 0 .. MaxBoots
  /\ counted \in BOOLEAN
  /\ pc = "load" => counted = FALSE
  /\ pc \in Recovering => counted = FALSE /\ rec_count \in {0, stored}

LEMMA Bounded == MaxBoots \in Nat
  BY ImuAssumption

LEMMA ZeroInRange == 0 \in 0 .. MaxBoots
  BY Bounded

LEMMA CountInit == Init => CountInv
  BY ZeroInRange, Zenon DEF Init, CountInv, Recovering

LEMMA CountStep == CountInv /\ [Next]_vars => CountInv'
  <1> SUFFICES ASSUME CountInv, [Next]_vars PROVE CountInv'
    OBVIOUS
  <1> USE DEF CountInv, Recovering
  <1>1. CASE Restart
    BY <1>1, ZeroInRange, Zenon DEF Restart, Boot
  <1>2. CASE Load
    BY <1>2, ZeroInRange DEF Load
  <1>3. CASE DeviceStarts \/ DeviceFails
    BY <1>3 DEF DeviceStarts, DeviceFails, history
  <1>4. CASE RecoverBus
    BY <1>4 DEF RecoverBus, BusNotSupported, BusRecovered, AttemptFails, AttemptsExhausted, history
  <1>5. CASE CountFailure
    <2>1. stored' \in 0 .. MaxBoots
      BY <1>5, Bounded DEF CountFailure, Save, history
    <2>2. counted' \in BOOLEAN /\ rec_count' = rec_count /\ pc' = "initialize"
      BY <1>5, Zenon DEF CountFailure, Save, history
    <2> QED
      BY <2>1, <2>2
  <1>6. CASE ClearCount
    BY <1>6, ZeroInRange DEF ClearCount, Save, history
  <1>7. CASE InitImu \/ FatalError \/ ConfigureImu
    BY <1>7 DEF InitImu, FatalError, ConfigureImu, history
  <1>8. CASE UNCHANGED vars
    BY <1>8 DEF vars, history
  <1> QED
    BY <1>1, <1>2, <1>3, <1>4, <1>5, <1>6, <1>7, <1>8 DEF Next, Thread

(* What a step does to the count in flash is what BootCount allows, over   *)
(* any number of boots and with settings that fail: recover_i2c_bus and    *)
(* the restarts implement it.                                              *)
THEOREM RecoveryCountTheorem == Spec => ImplementsBootCount
  <1>1. Init => Promise!Init
    BY DEF Init, Promise!Init
  <1>2. ASSUME CountInv, [Next]_vars PROVE [Promise!Next]_(Promise!vars)
    <2> USE DEF Promise!Next, Promise!vars
    <2>1. CASE Restart
      BY <2>1 DEF Restart, Boot, Promise!Boot
    <2>2. CASE CountFailure
      <3>1. ~counted /\ rec_count \in {0, stored}
        BY <1>2, <2>2 DEF CountInv, Recovering, CountFailure
      <3>2. CASE rec_count < MaxBoots
        <4>1. counted' = TRUE /\ stored' \in {rec_count + 1, stored}
          BY <2>2, <3>2 DEF CountFailure, Save, history
        <4>2. CASE stored' = stored
          BY <3>1, <4>1, <4>2 DEF Promise!Fail
        <4>3. CASE stored' = rec_count + 1
          <5>1. rec_count + 1 \in {c \in {1, stored + 1} : c <= MaxBoots}
            BY <1>2, <3>1, <3>2, ImuAssumption DEF CountInv
          <5> QED
            BY <3>1, <4>1, <4>3, <5>1 DEF Promise!Raise
        <4> QED
          BY <4>1, <4>2, <4>3
      <3>3. CASE ~(rec_count < MaxBoots)
        BY <2>2, <3>3 DEF CountFailure, history
      <3> QED
        BY <3>2, <3>3
    <2>3. CASE ClearCount
      BY <1>2, <2>3 DEF ClearCount, Save, CountInv, Recovering, Promise!Clear
    <2>4. CASE Load \/ DeviceStarts \/ DeviceFails \/ RecoverBus \/ InitImu \/ FatalError \/ ConfigureImu
      BY <2>4 DEF Load, DeviceStarts, DeviceFails, RecoverBus, BusNotSupported, BusRecovered,
                  AttemptFails, AttemptsExhausted, InitImu, FatalError, ConfigureImu, history
    <2>5. CASE UNCHANGED vars
      BY <2>5 DEF vars, history
    <2> QED
      BY <1>2, <2>1, <2>2, <2>3, <2>4, <2>5 DEF Next, Thread
  <1> QED
    BY <1>1, <1>2, CountInit, CountStep, PTL DEF Spec, ImplementsBootCount, Promise!Spec

-----------------------------------------------------------------------------
(* A boot without its device has an error to count; unless impaired, it    *)
(* knows the count.                                                        *)
FailureInv ==
  /\ stored \in 0 .. MaxBoots
  /\ ready \in BOOLEAN /\ impaired \in BOOLEAN
  /\ pc = "halted" => ready = FALSE
  /\ impaired = FALSE =>
       /\ pc \in Recovering => rec_count = stored
       /\ pc \in {"recover", "failed"} => ret = TRUE
       /\ pc = "recovered" => ready = TRUE
       /\ pc \in {"initialize", "halted"} /\ ready = FALSE
            => stored = MaxBoots \/ stored = rec_count + 1

LEMMA FailureInit == Init => FailureInv
  BY ZeroInRange, Zenon DEF Init, FailureInv, Recovering

LEMMA FailureStep == CountInv /\ FailureInv /\ [Next]_vars => FailureInv'
  <1> SUFFICES ASSUME CountInv, FailureInv, [Next]_vars PROVE FailureInv'
    OBVIOUS
  <1> USE Bounded DEF FailureInv, Recovering
  <1>1. CASE Restart
    BY <1>1 DEF Restart, Boot
  <1>2. CASE Load
    BY <1>2 DEF Load
  <1>3. CASE DeviceStarts \/ DeviceFails
    BY <1>3 DEF DeviceStarts, DeviceFails, history
  <1>4. CASE RecoverBus
    BY <1>4 DEF RecoverBus, BusNotSupported, BusRecovered, AttemptFails, AttemptsExhausted, history
  <1>5. CASE CountFailure
    <2>1. CASE rec_count < MaxBoots
      <3>1. stored' \in {rec_count + 1, stored} /\ impaired' = (impaired \/ stored' # rec_count + 1)
        BY <1>5, <2>1 DEF CountFailure, Save
      <3>2. rec_count + 1 \in 0 .. MaxBoots
        BY <2>1 DEF CountInv
      <3>3. pc' = "initialize" /\ rec_count' = rec_count /\ ready' = ready
        BY <1>5 DEF CountFailure
      <3> QED
        BY <3>1, <3>2, <3>3
    <2>2. CASE ~(rec_count < MaxBoots)
      BY <1>5, <2>2 DEF CountFailure, CountInv, history
    <2> QED
      BY <2>1, <2>2
  <1>6. CASE ClearCount
    BY <1>6 DEF ClearCount, Save
  <1>7. CASE InitImu \/ FatalError \/ ConfigureImu
    BY <1>7 DEF InitImu, FatalError, ConfigureImu, history
  <1>8. CASE UNCHANGED vars
    BY <1>8 DEF vars, history
  <1> QED
    BY <1>1, <1>2, <1>3, <1>4, <1>5, <1>6, <1>7, <1>8 DEF Next, Thread

(* A boot that halts without its IMU has been counted, whatever the bus    *)
(* and the device did in recover_i2c_bus, unless its settings failed or    *)
(* its bus driver has no recovery.                                         *)
THEOREM FailedBootTheorem == Spec => []FailedBootIsCounted
  <1>1. FailureInv => FailedBootIsCounted
    BY DEF FailureInv, FailedBootIsCounted
  <1>2. CountInv /\ FailureInv /\ [Next]_vars => FailureInv'
    BY FailureStep
  <1> QED
    BY <1>1, <1>2, CountInit, CountStep, FailureInit, PTL DEF Spec

(* Of such boots, only one that has its device clears the count.           *)
THEOREM ClearedOnlyWhenReadyTheorem == Spec => ClearedOnlyWhenReady
  <1>1. ASSUME CountInv, FailureInv, [Next]_vars
        PROVE  [stored # 0 /\ stored' = 0 => ready \/ impaired]_vars
    <2>1. CASE CountFailure
      BY <1>1, <2>1, Bounded DEF CountFailure, Save, CountInv, history
    <2>2. CASE ClearCount
      BY <1>1, <2>2 DEF ClearCount, FailureInv
    <2>3. CASE Restart \/ Load \/ DeviceStarts \/ DeviceFails \/ RecoverBus \/ InitImu \/ FatalError \/ ConfigureImu
      BY <2>3 DEF Restart, Load, DeviceStarts, DeviceFails, RecoverBus, BusNotSupported, BusRecovered,
                  AttemptFails, AttemptsExhausted, InitImu, FatalError, ConfigureImu
    <2> QED
      BY <1>1, <2>1, <2>2, <2>3 DEF Next, Thread
  <1> QED
    BY <1>1, CountInit, CountStep, FailureInit, FailureStep, PTL DEF Spec, ClearedOnlyWhenReady
=============================================================================
