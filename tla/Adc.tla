--------------------------------- MODULE Adc ---------------------------------
(***************************************************************************)
(* src/adc.c and its caller get_current_readings: two converters, each     *)
(* with a few channels, read as one numbered set of current sensors.  A    *)
(* converter that does not answer is tried again, within a budget that the *)
(* two converters share; what it last sampled stays in its buffer.         *)
(*                                                                         *)
(* A sample is abstracted to whether this acquisition took it; what        *)
(* becomes of its value is in Magnetorquers.                               *)
(***************************************************************************)
EXTENDS Integers

CONSTANTS
  DevChannels,      (* adc_channel_counts                                   *)
  MaxTries,         (* MAX_ADC_READ_TRIES                                   *)
  Sensor,           (* what the board wires to <<converter, channel>>       *)
  Unsteady          (* the converters any call to which may fail            *)

Dev == 0 .. 1                                 \* ADC_DEV_COUNT is 2
ChannelCount == DevChannels[0] + DevChannels[1]
Phys == 0 .. ChannelCount - 1

ASSUME AdcAssumption ==
  /\ DevChannels \in [Dev -> Nat \ {0}]
  /\ MaxTries \in Nat
  /\ Unsteady \subseteq Dev

(* The axes that get_current_readings reads, as logical channel numbers:   *)
(* MIN(get_num_adc_channels(), 3) of them.                                 *)
Axis == {a \in 0 .. 2 : a < ChannelCount}

VARIABLES
  pc,               (* "info", "ready", "setup", "vrefs": init_adc; "call", *)
                    (* "try", "read", "return"; "fault": it has crashed     *)
  log_to_phys,
  set_up,           (* how many channels adc_channel_setup has set up       *)
  (* acquire_adc_readings *)
  dev,              (* the converter it is at                               *)
  count,
  slept,            (* how many times it has slept 100 ms                   *)
  fresh,            (* converters whose buffer is of this acquisition       *)
  (* get_current_readings *)
  axis,
  err,
  missed,           (* a converter or a channel could not be read (history) *)
  source            (* axis -> the channel its current was taken from       *)

vars == <<pc, log_to_phys, set_up, dev, count, slept, fresh, axis, err, missed, source>>

None == <<-1, -1>>

(* adc_info_map: the channels of the first converter, then of the second.  *)
InfoMap(phys) ==
  IF phys < DevChannels[0] THEN <<0, phys>> ELSE <<1, phys - DevChannels[0]>>

Init ==
  /\ pc = "info"
  /\ set_up = 0
  /\ log_to_phys = [p \in Phys |-> 0]
  /\ dev = 0 /\ count = 0 /\ slept = 0 /\ fresh = {}
  /\ axis = 0 /\ err = FALSE /\ missed = FALSE
  /\ source = [a \in Axis |-> None]

(* init_adc_info: three channels are renumbered; of any other number all   *)
(* stay at 0, the value of a static variable.                              *)
InitAdcInfo ==
  /\ pc = "info"
  /\ pc' = "ready"
  /\ log_to_phys' = IF ChannelCount = 3 THEN [p \in Phys |-> 2 - p] ELSE log_to_phys
  /\ UNCHANGED <<set_up, dev, count, slept, fresh, axis, err, missed, source>>

(* A converter that is not ready is an error, until the next call.         *)
CheckReady ==
  /\ pc = "ready"
  /\ pc' = "setup"
  /\ err' \in {FALSE} \cup {TRUE : d \in Unsteady}
  /\ UNCHANGED <<log_to_phys, set_up, dev, count, slept, fresh, axis, missed, source>>

(* adc_channel_setup, whose result replaces the error there was ...        *)
SetUpChannel ==
  /\ pc = "setup"
  /\ set_up' = set_up + 1
  /\ pc' = IF set_up + 1 \in {DevChannels[0], ChannelCount} THEN "vrefs" ELSE "setup"
  /\ err' = FALSE
  /\ UNCHANGED <<log_to_phys, dev, count, slept, fresh, axis, missed, source>>

(* ... and a failure of which ends init_adc, with the result 0.            *)
SetUpFails ==
  /\ pc = "setup" /\ InfoMap(set_up)[1] \in Unsteady
  /\ pc' = "call"
  /\ err' = FALSE
  /\ UNCHANGED <<log_to_phys, set_up, dev, count, slept, fresh, axis, missed, source>>

(* The loop over the reference voltages advances padi, not k, and so runs  *)
(* past the last converter: it ends at the first word there that is 0, or  *)
(* the accesses through what it takes for pointers fault.                  *)
SetVrefs ==
  /\ pc = "vrefs"
  /\ pc' \in {"fault", IF set_up = ChannelCount THEN "call" ELSE "setup"}
  /\ UNCHANGED <<log_to_phys, set_up, dev, count, slept, fresh, axis, err, missed, source>>

InitAdc == InitAdcInfo \/ CheckReady \/ SetUpChannel \/ SetUpFails \/ SetVrefs

-----------------------------------------------------------------------------
(* acquire_adc_readings *)

Call ==
  /\ pc = "call"
  /\ pc' = "try"
  /\ dev' = 0 /\ count' = 0 /\ slept' = 0 /\ fresh' = {}
  /\ missed' = FALSE
  /\ source' = [a \in Axis |-> None]
  /\ UNCHANGED <<log_to_phys, set_up, axis, err>>

(* On to the next converter, whatever became of this one; the error of the *)
(* last one is returned, and get_current_readings then returns 0.          *)
NextConverter(failed) ==
  /\ axis' = 0
  /\ IF dev = 0
     THEN dev' = 1 /\ pc' = "try" /\ UNCHANGED err
     ELSE /\ dev' = dev /\ err' = FALSE
          /\ pc' = IF failed THEN "return" ELSE "read"

Converted ==
  /\ pc = "try"
  /\ fresh' = fresh \cup {dev}
  /\ NextConverter(FALSE)
  /\ UNCHANGED <<log_to_phys, set_up, count, slept, missed, source>>

(* adc_read fails: 100 ms later it is tried again, as long as the count,   *)
(* which both converters advance, is within MAX_ADC_READ_TRIES.            *)
RetryUncounted ==                             \* mutant: count is not advanced
  /\ pc = "try" /\ dev \in Unsteady
  /\ count < MaxTries
  /\ slept' = (slept + 1) % (MaxTries + 9)
  /\ UNCHANGED <<pc, log_to_phys, set_up, dev, count, fresh, axis, err, missed, source>>

Retry ==
  /\ pc = "try" /\ dev \in Unsteady
  /\ count < MaxTries
  /\ count' = count + 1
  /\ slept' = slept + 1
  /\ UNCHANGED <<pc, log_to_phys, set_up, dev, fresh, axis, err, missed, source>>

GiveUpEarly ==                                \* mutant: gives up on the last try
  /\ pc = "try" /\ dev \in Unsteady
  /\ count + 1 >= MaxTries
  /\ count' = count + 1
  /\ slept' = slept + 1
  /\ missed' = TRUE
  /\ NextConverter(TRUE)
  /\ UNCHANGED <<log_to_phys, set_up, fresh, source>>

GiveUp ==
  /\ pc = "try" /\ dev \in Unsteady
  /\ count >= MaxTries
  /\ count' = count + 1
  /\ slept' = slept + 1
  /\ missed' = TRUE
  /\ NextConverter(TRUE)
  /\ UNCHANGED <<log_to_phys, set_up, fresh, source>>

-----------------------------------------------------------------------------
(* The loop of get_current_readings over the axes, with read_adc.          *)

NextAxis == IF axis + 1 \in Axis THEN axis' = axis + 1 /\ UNCHANGED pc
                                 ELSE axis' = 0 /\ pc' = "return"

ReadAdc ==
  /\ pc = "read"
  /\ source' = [source EXCEPT ![axis] = InfoMap(log_to_phys[axis])]
  /\ err' = FALSE
  /\ NextAxis
  /\ UNCHANGED <<log_to_phys, set_up, dev, count, slept, fresh, missed>>

(* The raw value cannot be converted: the axis is skipped.                 *)
ReadAdcFails ==
  /\ pc = "read"
  /\ err' = TRUE
  /\ missed' = TRUE
  /\ NextAxis
  /\ UNCHANGED <<log_to_phys, set_up, dev, count, slept, fresh, source>>

(* get_current_readings returns err, and the loop calls it again.          *)
Return ==
  /\ pc = "return"
  /\ pc' = "call"
  /\ UNCHANGED <<log_to_phys, set_up, dev, count, slept, fresh, axis, err, missed, source>>

Acquire == Converted \/ Retry \/ GiveUp

Next == InitAdc \/ Call \/ Acquire \/ ReadAdc \/ ReadAdcFails \/ Return

Spec == Init /\ [][Next]_vars

(* Sleeps end and adc_read returns: the thread always goes on.             *)
FairSpec == Spec /\ WF_vars(Next)

-----------------------------------------------------------------------------
FlagsOK == err \in BOOLEAN /\ missed \in BOOLEAN

TypeOK ==
  /\ pc \in {"info", "ready", "setup", "vrefs", "fault", "call", "try", "read", "return"}
  /\ set_up \in Nat
  /\ log_to_phys \in [Phys -> Phys]
  /\ dev \in Dev
  /\ count \in 0 .. MaxTries + 2
  /\ slept \in 0 .. MaxTries + 2
  /\ fresh \subseteq Dev
  /\ axis \in Axis
  /\ FlagsOK
  /\ source \in [Axis -> (Dev \X Nat) \cup {None}]

(* The loop is held up by a broken ADC for at most MAX_ADC_READ_TRIES + 2  *)
(* sleeps of 100 ms, both converters together: the budget is shared, and   *)
(* only the two attempts that give up come on top of it.                   *)
HoldUpIsBounded == slept <= MaxTries + 2

(* A sample of an earlier acquisition is used in the control loop only     *)
(* when all the retries of this one have been spent.                       *)
StaleOnlyAfterRetries ==
  \A a \in Axis : source[a] # None /\ source[a][1] \notin fresh => count > MaxTries

(* An acquisition ends, whichever converters keep failing.                 *)
AcquisitionEnds == pc = "try" ~> pc \in {"read", "return"}

(* src/adc.c:93-94: the user's numbers "map properly" to the converters    *)
(* and their channels; src/magnetorquers.c:547: the three axes are read    *)
(* even where there is a fourth channel.                                   *)
(* Does not hold: README, section 7.                                       *)
AxesReadTheirOwnSensor ==
  \A a \in Axis : source[a] # None => Sensor[source[a]] = a

(* src/magnetorquers.c:722: "Error initializing ADCs": the bring-up ends    *)
(* when init_adc could not set up every channel.                           *)
(* Does not hold: README, section 7.                                       *)
SetUpFailureReported == pc = "call" => set_up = ChannelCount \/ err

(* src/magnetorquers.c:530: get_current_readings returns a "non-zero value *)
(* on error, 0 if none".                                                   *)
(* Does not hold: README, section 7.                                       *)
CurrentErrorsReported == pc = "return" /\ missed => err
=============================================================================
