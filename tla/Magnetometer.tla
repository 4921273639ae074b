---------------------------- MODULE Magnetometer ----------------------------
(***************************************************************************)
(* The magnetometer thread (src/magnetometer.c): it powers the end-cap     *)
(* magnetometers, starts their drivers and reads both every second.        *)
(*                                                                         *)
(* Of a sample only the sensor it is of matters.  The readers of mag_data  *)
(* are in Telemetry.                                                       *)
(***************************************************************************)
EXTENDS Integers

CONSTANTS
  Mags,             (* 0 .. NUM_MAGS - 1, at most two; read in this order   *)
  Faults            (* what may fail: a set of "gpio", "power", "init", "read" *)

ASSUME MagAssumption ==
  /\ Mags \in {{0}, {0, 1}}
  /\ Faults \subseteq {"gpio", "power", "init", "read"}

VARIABLES
  pc, m,            (* the step the thread is about to take, and its sensor *)
  n_mag_en,         (* the power switch                                     *)
  n_mag_fault,      (* its fault line, low when there is a fault            *)
  ret,              (* the result of init_mag so far is an error            *)
  good,             (* mag_0_good, mag_1_good                               *)
  buf,              (* buf and buf_b: the sensor of the sample, or None     *)
  mag_data,         (* likewise                                             *)
  failed            (* a read has failed (history)                          *)

vars == <<pc, m, n_mag_en, n_mag_fault, ret, good, buf, mag_data, failed>>

None == -1

Init ==
  /\ pc = "gpios" /\ m = 0
  /\ n_mag_en = FALSE
  /\ n_mag_fault \in {TRUE} \cup {f \in {FALSE} : "power" \in Faults}
  /\ ret = FALSE
  /\ good = [k \in Mags |-> FALSE]
  /\ buf = [k \in Mags |-> None]
  /\ mag_data = [k \in Mags |-> None]
  /\ failed = FALSE

(* The power switch reports a fault, or its end.                           *)
Fault ==
  /\ "power" \in Faults
  /\ n_mag_fault' = ~n_mag_fault
  /\ UNCHANGED <<pc, m, n_mag_en, ret, good, buf, mag_data, failed>>

-----------------------------------------------------------------------------
(* init_mag *)

GpiosInit ==
  /\ pc = "gpios"
  /\ pc' = "power"
  /\ n_mag_en' = FALSE
  /\ UNCHANGED <<m, n_mag_fault, ret, good, buf, mag_data, failed>>

GpiosFail ==
  /\ "gpio" \in Faults
  /\ pc = "gpios"
  /\ pc' = "stopped"
  /\ UNCHANGED <<m, n_mag_en, n_mag_fault, ret, good, buf, mag_data, failed>>

PowerOn ==
  /\ pc = "power"
  /\ pc' = "check"
  /\ n_mag_en' = TRUE
  /\ UNCHANGED <<m, n_mag_fault, ret, good, buf, mag_data, failed>>

(* No fault, or try again.                                                 *)
FaultActiveHigh ==                            \* mutant: the line taken as active high
  /\ pc = "check"
  /\ pc' = IF n_mag_fault THEN "power" ELSE "init"
  /\ m' = 0
  /\ UNCHANGED <<n_mag_en, n_mag_fault, ret, good, buf, mag_data, failed>>

CheckPower ==
  /\ pc = "check"
  /\ pc' = IF n_mag_fault THEN "init" ELSE "power"
  /\ m' = 0
  /\ UNCHANGED <<n_mag_en, n_mag_fault, ret, good, buf, mag_data, failed>>

(* The result of the last sensor counts, unless there are two.             *)
NextInit(error) ==
  IF m + 1 \in Mags THEN m' = m + 1 /\ ret' = error /\ UNCHANGED pc
  ELSE /\ m' = 0
       /\ ret' = (error /\ m = 0)
       /\ pc' = IF ret' THEN "stopped" ELSE "loop"

DeviceStarts ==
  /\ pc = "init"
  /\ good' = [good EXCEPT ![m] = TRUE]
  /\ NextInit(FALSE)
  /\ UNCHANGED <<n_mag_en, n_mag_fault, buf, mag_data, failed>>

LastDeviceDecides ==                          \* mutant: without "ret = 0; // run without it"
  /\ "init" \in Faults
  /\ pc = "init"
  /\ good' = [good EXCEPT ![m] = FALSE]
  /\ IF m + 1 \in Mags THEN m' = m + 1 /\ ret' = TRUE /\ UNCHANGED pc
     ELSE m' = 0 /\ ret' = TRUE /\ pc' = "stopped"
  /\ UNCHANGED <<n_mag_en, n_mag_fault, buf, mag_data, failed>>

DeviceFails ==
  /\ "init" \in Faults
  /\ pc = "init"
  /\ good' = [good EXCEPT ![m] = FALSE]
  /\ NextInit(TRUE)
  /\ UNCHANGED <<n_mag_en, n_mag_fault, buf, mag_data, failed>>

-----------------------------------------------------------------------------
(* The loop of handle_mag, for sensor m *)

NextMagUnwrapped == m' = m + 1                \* mutant: on past the last sensor

NextMag == m' = IF m + 1 \in Mags THEN m + 1 ELSE 0

Skip ==
  /\ pc = "loop" /\ ~good[m]
  /\ NextMag
  /\ UNCHANGED <<pc, n_mag_en, n_mag_fault, ret, good, buf, mag_data, failed>>

Read ==
  /\ pc = "loop" /\ good[m]
  /\ pc' = "decode"
  /\ buf' = [buf EXCEPT ![m] = m]
  /\ UNCHANGED <<m, n_mag_en, n_mag_fault, ret, good, mag_data, failed>>

(* The thread ends, for both sensors.                                      *)
ReadFails ==
  /\ "read" \in Faults
  /\ pc = "loop" /\ good[m]
  /\ pc' = "stopped"
  /\ failed' = TRUE
  /\ UNCHANGED <<m, n_mag_en, n_mag_fault, ret, good, buf, mag_data>>

(* Both sensors are decoded from buf, which is that of the first.          *)
Decode ==
  /\ pc = "decode"
  /\ pc' = "loop"
  /\ mag_data' = [mag_data EXCEPT ![m] = buf[0]]
  /\ NextMag
  /\ UNCHANGED <<n_mag_en, n_mag_fault, ret, good, buf, failed>>

Thread ==
  \/ GpiosInit \/ GpiosFail \/ PowerOn \/ CheckPower
  \/ DeviceStarts \/ DeviceFails
  \/ Skip \/ Read \/ ReadFails \/ Decode

Next == Thread \/ Fault

Spec == Init /\ [][Next]_vars

(* The sleeps of the thread end and the calls of the driver return.        *)
FairSpec == Spec /\ WF_vars(Thread)

-----------------------------------------------------------------------------
TypeOK ==
  /\ pc \in {"gpios", "power", "check", "init", "loop", "decode", "stopped"} /\ m \in Mags
  /\ n_mag_en \in BOOLEAN /\ n_mag_fault \in BOOLEAN /\ ret \in BOOLEAN /\ failed \in BOOLEAN
  /\ good \in [Mags -> BOOLEAN]
  /\ buf \in [Mags -> Mags \cup {None}] /\ mag_data \in [Mags -> Mags \cup {None}]

(* The drivers are tried once the fault has gone: a fault at power-up,     *)
(* however often it returns, is no reason to stop, nor to go on for ever.  *)
PowersUp == <>[]n_mag_fault => <>(pc \in {"init", "stopped"})

(* A sensor whose driver started is read again and again, whether the      *)
(* driver of the other one started or not, until a reading fails.          *)
KeepsReading == \A k \in Mags : good[k] ~> (pc = "decode" /\ m = k) \/ failed

(* src/magnetometer.c:310: the data of each sensor is decoded from its own *)
(* sample ("Decoding mag 1 into plus Z mag 2").                            *)
(* Does not hold: README, section 7.                                       *)
DataIsOfItsSensor ==
  \A k \in Mags : mag_data[k] \in {None, k}
=============================================================================
