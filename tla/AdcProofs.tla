------------------------------ MODULE AdcProofs ------------------------------
(***************************************************************************)
(* What holds of an ADC acquisition for any retry budget, any channels of  *)
(* the two converters and whichever of them fail.                          *)
(***************************************************************************)
EXTENDS Adc, TLAPS

LEMMA Constants ==
  0 \in Axis /\ 0 \in Phys /\ (\A a \in Axis : a \in Phys) /\ MaxTries \in Nat
<1>1. ChannelCount \in Nat /\ ChannelCount >= 2
  BY AdcAssumption DEF ChannelCount, Dev
<1> QED BY <1>1, AdcAssumption DEF Axis, Phys

LEMMA InfoMapType ==
  ASSUME NEW p \in Phys
  PROVE  InfoMap(p) \in Dev \X Nat
  BY AdcAssumption DEF InfoMap, Phys, ChannelCount, Dev

LEMMA TypeInitially == Init => TypeOK
<1> SUFFICES ASSUME Init PROVE TypeOK
  OBVIOUS
<1>1. FlagsOK
  BY DEF Init, FlagsOK
<1> QED BY <1>1, Constants DEF Init, TypeOK, Dev

LEMMA FlagsStep == FlagsOK /\ [Next]_vars => FlagsOK'
<1> SUFFICES ASSUME FlagsOK, [Next]_vars PROVE FlagsOK'
  OBVIOUS
<1> USE DEF FlagsOK
<1>1. CASE InitAdc
  BY <1>1 DEF InitAdc, InitAdcInfo, CheckReady, SetUpChannel, SetUpFails, SetVrefs
<1>2. CASE Call \/ Acquire
  BY <1>2 DEF Call, Acquire, Converted, Retry, GiveUp, NextConverter
<1>3. CASE ReadAdc \/ ReadAdcFails \/ Return \/ UNCHANGED vars
  BY <1>3 DEF ReadAdc, ReadAdcFails, Return, vars
<1> QED BY <1>1, <1>2, <1>3 DEF Next

(* Every sleep is counted.  At the first converter the count has not       *)
(* passed the budget, at the second it has passed it by one at most; it    *)
(* passes it when a converter is given up, whose buffer is then the only   *)
(* one that can be old when the axes are read.                             *)
BudgetInv ==
  /\ slept = count
  /\ pc = "try" => count <= MaxTries + dev
  /\ pc = "try" => \A a \in Axis : source[a] = None
  /\ pc = "try" /\ dev = 1 /\ 0 \notin fresh => count > MaxTries
  /\ pc = "read" => \A d \in Dev : d \notin fresh => count > MaxTries
  /\ StaleOnlyAfterRetries

LEMMA ReadType ==
  ASSUME TypeOK, ReadAdc, FlagsOK'
  PROVE  /\ TypeOK'
         /\ \A a \in Axis : a # axis => source'[a] = source[a]
         /\ source'[axis] \in Dev \X Nat
         /\ source'[axis] = InfoMap(log_to_phys[axis])
<1> USE DEF TypeOK, ReadAdc
<1>1. axis \in Phys
  BY AdcAssumption DEF Axis, Phys, ChannelCount, Dev
<1>2. InfoMap(log_to_phys[axis]) \in Dev \X Nat
  BY <1>1, InfoMapType
<1>3. axis' \in Axis /\ pc' \in {"read", "return"}
  BY AdcAssumption DEF NextAxis, Axis, ChannelCount, Dev
<1> HIDE DEF InfoMap
<1>4. source' = [source EXCEPT ![axis] = InfoMap(log_to_phys[axis])]
  OBVIOUS
<1> QED BY <1>2, <1>3, <1>4

LEMMA BudgetStep ==
  ASSUME TypeOK, BudgetInv, [Next]_vars
  PROVE  TypeOK' /\ BudgetInv'
<1>0. 0 \in Axis /\ MaxTries \in Nat
  BY Constants
<1> FlagsOK'
  BY FlagsStep DEF TypeOK
<1>1. CASE InitAdcInfo
  <2>1. TypeOK'
    <3>1. CASE ChannelCount = 3
      <4>1. \A p \in Phys : 2 - p \in Phys BY <3>1 DEF Phys
      <4> QED BY <1>1, <3>1, <4>1 DEF InitAdcInfo, TypeOK
    <3>2. CASE ChannelCount # 3
      BY <1>1, <3>2 DEF InitAdcInfo, TypeOK
    <3> QED BY <3>1, <3>2
  <2> QED BY <1>1, <2>1 DEF InitAdcInfo, BudgetInv, StaleOnlyAfterRetries
<1>10. CASE CheckReady \/ SetUpChannel \/ SetUpFails \/ SetVrefs
  <2>1. /\ pc' \in {"setup", "vrefs", "fault", "call"} /\ set_up' \in Nat
        /\ UNCHANGED <<log_to_phys, dev, count, slept, fresh, axis, source>>
    <3> set_up \in Nat
      BY DEF TypeOK
    <3>1. CASE CheckReady \/ SetUpFails
      BY <3>1 DEF CheckReady, SetUpFails
    <3>2. CASE SetUpChannel
      BY <3>2 DEF SetUpChannel
    <3>3. CASE SetVrefs
      BY <3>3 DEF SetVrefs
    <3> QED BY <1>10, <3>1, <3>2, <3>3
  <2> QED BY <2>1 DEF TypeOK, BudgetInv, StaleOnlyAfterRetries
<1>2. CASE Call
  BY <1>0, <1>2 DEF Call, TypeOK, BudgetInv, StaleOnlyAfterRetries, Dev
<1>3. CASE Converted
  <2> USE DEF Converted, NextConverter
  <2>1. TypeOK'
    BY <1>0, <1>3 DEF TypeOK, Dev
  <2>2. /\ pc = "try" /\ UNCHANGED <<count, slept, source>> /\ fresh' = fresh \cup {dev}
        /\ (dev = 0 /\ pc' = "try" /\ dev' = 1) \/ (dev = 1 /\ pc' = "read")
    BY <1>3 DEF TypeOK, Dev
  <2>3. count \in Nat
    BY <1>0 DEF TypeOK
  <2> QED BY <1>0, <2>1, <2>2, <2>3 DEF BudgetInv, StaleOnlyAfterRetries, Dev
<1>4. CASE Retry
  <2>1. TypeOK'
    BY <1>0, <1>4 DEF Retry, TypeOK, BudgetInv, Dev
  <2> QED BY <1>0, <1>4, <2>1 DEF Retry, TypeOK, BudgetInv, StaleOnlyAfterRetries, Dev
<1>5. CASE GiveUp
  <2> USE DEF GiveUp, NextConverter
  <2>1. TypeOK'
    BY <1>0, <1>5 DEF TypeOK, BudgetInv, Dev
  <2>2. /\ pc = "try" /\ UNCHANGED <<fresh, source>>
        /\ count >= MaxTries /\ count' = count + 1 /\ slept' = slept + 1
        /\ (dev = 0 /\ pc' = "try" /\ dev' = 1) \/ (dev = 1 /\ pc' = "return")
    BY <1>5 DEF TypeOK, Dev
  <2>3. count \in Nat
    BY <1>0 DEF TypeOK
  <2> QED BY <1>0, <2>1, <2>2, <2>3 DEF BudgetInv, StaleOnlyAfterRetries, Dev
<1>6. CASE ReadAdc
  <2>1. TypeOK' /\ source'[axis] \in Dev \X Nat
        /\ \A a \in Axis : a # axis => source'[a] = source[a]
    BY <1>6, ReadType
  <2>2. pc = "read" /\ pc' \in {"read", "return"} /\ UNCHANGED <<dev, count, slept, fresh>>
    BY <1>6 DEF ReadAdc, NextAxis
  <2>3. source'[axis][1] \in Dev
    BY <2>1
  <2>4. StaleOnlyAfterRetries'
    BY <2>1, <2>2, <2>3 DEF BudgetInv, StaleOnlyAfterRetries
  <2> QED BY <2>1, <2>2, <2>4 DEF BudgetInv
<1>7. CASE ReadAdcFails
  <2>1. TypeOK' /\ pc' # "try"
    BY <1>0, <1>7 DEF ReadAdcFails, NextAxis, TypeOK
  <2> QED BY <1>7, <2>1 DEF ReadAdcFails, NextAxis, BudgetInv, StaleOnlyAfterRetries
<1>8. CASE Return
  BY <1>8 DEF Return, TypeOK, BudgetInv, StaleOnlyAfterRetries
<1>9. CASE UNCHANGED vars
  BY <1>9 DEF vars, TypeOK, BudgetInv, StaleOnlyAfterRetries
<1> QED BY <1>1, <1>2, <1>3, <1>4, <1>5, <1>6, <1>7, <1>8, <1>9, <1>10 DEF Next, InitAdc, Acquire

LEMMA BudgetInvariance == Spec => [](TypeOK /\ BudgetInv)
<1>1. Init => BudgetInv
  BY AdcAssumption DEF Init, BudgetInv, StaleOnlyAfterRetries
<1>2. TypeOK /\ BudgetInv /\ [Next]_vars => TypeOK' /\ BudgetInv'
  BY BudgetStep
<1> QED BY <1>1, <1>2, TypeInitially, PTL DEF Spec

(* However the converters fail, an acquisition holds the loop up for at    *)
(* most MAX_ADC_READ_TRIES + 2 sleeps (acquire_adc_readings).              *)
THEOREM HoldUpTheorem == Spec => []HoldUpIsBounded
<1>1. TypeOK => HoldUpIsBounded
  BY AdcAssumption DEF TypeOK, HoldUpIsBounded
<1> QED BY <1>1, BudgetInvariance, PTL

(* The control loop sees a sample of an earlier acquisition only when the  *)
(* retries of this one are spent (acquire_adc_readings, read_adc).         *)
THEOREM StaleTheorem == Spec => []StaleOnlyAfterRetries
<1>1. BudgetInv => StaleOnlyAfterRetries
  BY DEF BudgetInv
<1> QED BY <1>1, BudgetInvariance, PTL

=============================================================================
