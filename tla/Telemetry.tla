------------------------------ MODULE Telemetry ------------------------------
(***************************************************************************)
(* How sensor readings reach the C3: the magnetometer thread (Magnetometer)*)
(* and the IMU thread update the data of their last sample, the            *)
(* magnetorquer thread collects the fields one by one, without a lock, and *)
(* publishes them one by one in the object dictionary under CO_LOCK_OD.    *)
(* Both producers have priority 0 and preempt the magnetorquer thread (7)  *)
(* between any two fields; so does the CAN thread, whose SDO server takes  *)
(* the lock and whose TPDOs do not: a TPDO may show any state of od.       *)
(*                                                                         *)
(* Of a reading only its age matters: how many samples its source has      *)
(* delivered since it was taken.                                           *)
(***************************************************************************)
EXTENDS Magnetometer, ObjectDictionary

CONSTANTS
  Frames,           (* the TPDOs followed; other fields do not disturb them *)
  MaxAge            (* bound: an age counts up to this                      *)

(* A field is a source and a component, named in the spacecraft's frame.   *)
Watched == UNION {FrameFields(k) : k \in Frames}

MagName(k) == IF k = 0 THEN "mag0" ELSE "mag1"

Vector == [x |-> 1, y |-> 2, z |-> 3]
Six    == [x |-> 1, y |-> 2, z |-> 3, x_raw |-> 4, y_raw |-> 5, z_raw |-> 6]

(* What an iteration reads and publishes.                                  *)
Readings ==
  ({"accel", "gyro"} \X DOMAIN Six) \cup {<<"temp", "temp">>}
    \cup ({MagName(k) : k \in Mags} \X DOMAIN Vector)

(* The place of a field in the order of reading: get_accel_readings,       *)
(* get_gyro_readings with the temperature between the rates and the raw    *)
(* rates, and get_mag_readings.                                            *)
GyroOrder == [x |-> 1, y |-> 2, z |-> 3, x_raw |-> 5, y_raw |-> 6, z_raw |-> 7]

(* X is the sensor's Y, and Y its X reversed, so Y is read first.          *)
MagOrderZFirst == [z |-> 1, y |-> 2, x |-> 3]    \* mutant: another order

MagOrder == [y |-> 1, x |-> 2, z |-> 3]

ReadAt(f) ==
  CASE f[1] = "accel" -> Six[f[2]]
    [] f[1] = "gyro"  -> 6 + GyroOrder[f[2]]
    [] f[1] = "temp"  -> 6 + 4
    [] f[1] = "mag0"  -> 13 + MagOrder[f[2]]
    [] f[1] = "mag1"  -> 16 + MagOrder[f[2]]

(* ... and of publishing, in handle_can_open_data.                         *)
PublishAt(f) ==
  CASE f[1] = "gyro"  -> Six[f[2]]
    [] f[1] = "accel" -> 6 + Six[f[2]]
    [] f[1] = "temp"  -> 12 + 1
    [] f[1] = "mag0"  -> 13 + Vector[f[2]]
    [] f[1] = "mag1"  -> 16 + Vector[f[2]]

(* The frames followed hold nothing but what is read and published.        *)
ASSUME TelemetryAssumption ==
  /\ Frames \subseteq TPDOs /\ Frames # {}
  /\ Watched \subseteq Readings
  /\ MaxAge \in Nat \ {0}

WatchedSources == {f[1] : f \in Watched}

VARIABLES
  imu,              (* what process_data is about to read                   *)
  at,               (* the magnetorquer thread: "rest", "collect", "publish"*)
  left,             (* the fields that are left of that part                *)
  taken,            (* g_adcs_data: the age of each field                   *)
  od,               (* CO_OD_RAM: the age of each field                     *)
  delivered         (* samples of each source since the iteration began     *)
                    (* (history)                                            *)

thread    == <<at, left>>
telemetry == <<imu, thread, taken, od, delivered>>

TelemetryInit ==
  /\ Init
  /\ imu = "accel" /\ at = "rest" /\ left = {}
  /\ taken = [f \in Watched |-> 0]
  /\ od = [f \in Watched |-> 0]
  /\ delivered = [s \in WatchedSources |-> 0]

OdLocked == at = "publish"

-----------------------------------------------------------------------------
(* Producers *)

Older(age) == IF age < MaxAge THEN age + 1 ELSE MaxAge

(* A source delivers a sample: every copy of its fields is one older.      *)
Delivers(s) ==
  /\ taken' = [f \in Watched |-> IF f[1] = s THEN Older(taken[f]) ELSE taken[f]]
  /\ od' = [f \in Watched |-> IF f[1] = s THEN Older(od[f]) ELSE od[f]]
  /\ delivered' = [t \in WatchedSources |-> IF t = s THEN Older(delivered[t]) ELSE delivered[t]]

(* The magnetometer thread, which stores a sample when it decodes one.     *)
MagStep ==
  /\ Thread
  /\ IF pc = "decode" THEN Delivers(MagName(m)) ELSE UNCHANGED <<taken, od, delivered>>
  /\ UNCHANGED <<imu, thread>>

MagFault == Fault /\ UNCHANGED telemetry

(* process_data of an IMU: acceleration, rates, temperature; a read that   *)
(* fails leaves what follows it as it was.  (The ICM42688 blocks on its    *)
(* bus between them; the BMI270, whose fetch comes first, does not.)       *)
ImuReads(source, next) ==
  /\ imu = source
  /\ \/ Delivers(source) /\ imu' = next
     \/ UNCHANGED <<taken, od, delivered>> /\ imu' = "accel"
  /\ UNCHANGED <<vars, thread>>

ImuAccel == ImuReads("accel", "gyro")
ImuGyro  == ImuReads("gyro", "temp")
ImuTemp  == ImuReads("temp", "accel")

-----------------------------------------------------------------------------
(* The magnetorquer thread *)

BeginStale ==                                 \* mutant: the readings are skipped
  /\ at = "rest"
  /\ at' = "publish" /\ left' = Watched
  /\ delivered' = [s \in WatchedSources |-> 0]
  /\ UNCHANGED <<vars, imu, taken, od>>

BeginIteration ==
  /\ at = "rest"
  /\ at' = "collect" /\ left' = Watched
  /\ delivered' = [s \in WatchedSources |-> 0]
  /\ UNCHANGED <<vars, imu, taken, od>>

(* Field f is taken off those left, and after the last the next part.      *)
TakeOff(f, part, fields) ==
  IF left = {f} THEN at' = part /\ left' = fields ELSE left' = left \ {f} /\ UNCHANGED at

(* One field of get_accel_data, get_gyro_data, get_mag_reading, ...        *)
CollectFieldOfLastSample ==                   \* mutant: the sample before is read
  /\ at = "collect"
  /\ \E f \in left :
       /\ \A g \in left : ReadAt(f) <= ReadAt(g)
       /\ TakeOff(f, "publish", Watched)
       /\ taken' = [taken EXCEPT ![f] = 1]
  /\ UNCHANGED <<vars, imu, od, delivered>>

CollectField ==
  /\ at = "collect"
  /\ \E f \in left :
       /\ \A g \in left : ReadAt(f) <= ReadAt(g)
       /\ TakeOff(f, "publish", Watched)
       /\ taken' = [taken EXCEPT ![f] = 0]
  /\ UNCHANGED <<vars, imu, od, delivered>>

(* One field of handle_can_open_data.                                      *)
PublishField ==
  /\ at = "publish"
  /\ \E f \in left :
       /\ \A g \in left : PublishAt(f) <= PublishAt(g)
       /\ TakeOff(f, "rest", {})
       /\ od' = [od EXCEPT ![f] = taken[f]]
  /\ UNCHANGED <<vars, imu, taken, delivered>>

Imu == ImuAccel \/ ImuGyro \/ ImuTemp
Iteration == BeginIteration \/ CollectField \/ PublishField

TelemetryNext == MagStep \/ MagFault \/ Imu \/ Iteration

(* The sleeps of the magnetometer thread end and its driver returns; the   *)
(* magnetorquer thread gets the processor while the producers sleep.       *)
TelemetrySpec ==
  /\ TelemetryInit
  /\ [][TelemetryNext]_<<vars, telemetry>>
  /\ WF_<<vars, telemetry>>(MagStep) /\ WF_<<vars, telemetry>>(Iteration)

-----------------------------------------------------------------------------
(* The type invariant: that of the magnetometer thread, and the ages.      *)
TypeTelemetry ==
  /\ TypeOK
  /\ imu \in {"accel", "gyro", "temp"} /\ at \in {"rest", "collect", "publish"}
  /\ left \subseteq Watched /\ (at = "rest" <=> left = {})
  /\ taken \in [Watched -> 0 .. MaxAge] /\ od \in [Watched -> 0 .. MaxAge]
  /\ delivered \in [WatchedSources -> 0 .. MaxAge]

(* What the C3 is given never goes back in time: publishing a field, which *)
(* a TPDO may see half done, never replaces a reading by an older one.     *)
NeverBackwards ==
  [][thread' # thread => \A f \in Watched : od'[f] <= od[f]]_<<vars, telemetry>>

(* Whatever samples arrive while an iteration collects and publishes, each *)
(* value it leaves in the dictionary was its source's latest at some time  *)
(* during the iteration.                                                   *)
LatestDuringIteration ==
  at = "rest" => \A f \in Watched : od[f] <= delivered[f[1]]

(* A magnetometer's vector that a sample arrived in is torn in one         *)
(* direction only: Z is never older than X, nor X than Y.  It is what a    *)
(* reader that takes the lock can rely on.                                 *)
NotOlder(f, g) == {f, g} \subseteq Watched => od[f] <= od[g]

TornOneWay ==
  ~OdLocked =>
    \A k \in Mags : /\ NotOlder(<<MagName(k), "x">>, <<MagName(k), "y">>)
                    /\ NotOlder(<<MagName(k), "z">>, <<MagName(k), "x">>)

(* When the magnetometer thread has ended, the C3 is shown its last        *)
(* samples, whole, for ever after.                                         *)
MagFields == {f \in Watched : f[1] \in {MagName(k) : k \in Mags}}

LastSamplePublished == <>[](pc = "stopped") => <>[](\A f \in MagFields : od[f] = 0)

(* src/can.c:176: "Write outputs": a TPDO carries the components of a      *)
(* vector as one reading, as the SDO server's lock would have them.        *)
(* Does not hold: README, section 7.                                       *)
FrameIsOneReading ==
  \A k \in Frames : \A f, g \in FrameFields(k) : od[f] = od[g]
=============================================================================
