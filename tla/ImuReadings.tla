---------------------------- MODULE ImuReadings ----------------------------
(***************************************************************************)
(* The units and frames of the IMU's readings: what the drivers deliver,   *)
(* how the firmware converts it (src/imu_bmi.c, src/imu_icm.c), and what   *)
(* the getters answer in 16 bits, in milli-g and milli-degrees a second    *)
(* along the axes 1, 2, 3 of the satellite.  IntMax is INT16_MAX.          *)
(*                                                                         *)
(* The BMI270's driver delivers a struct sensor_value, counted here in     *)
(* hundred-thousandths of its unit.  The code computes in float: of its    *)
(* rounding only the truncation at the end is kept.                        *)
(***************************************************************************)
EXTENDS CArithmetic, IcmBytes

SENSOR_G  == 980665     (* m/s2, scaled by 10^5                            *)
SENSOR_PI == 15708      (* scaled by 5000                                  *)

-----------------------------------------------------------------------------
(* What is read of a sensor that senses v, in published units.             *)
DriverAccel(v) == TruncDiv(v * (SENSOR_G \div 5), 200)

DriverGyro(v)  == TruncDiv(v * SENSOR_PI, 9000)

(* The ICM is mounted with its x along the satellite's y, and its y        *)
(* against the satellite's x; its full scale is 15.625 degrees a second.   *)
IcmFullScale == 15625

SensorFrame(v) == [k \in DOMAIN v |-> CASE k = 1 -> v[2]
                                        [] k = 2 -> -v[1]
                                        [] OTHER -> v[k]]

IcmCounts(v) == LET w == SensorFrame(v) IN [k \in DOMAIN v |-> TruncDiv(w[k] * 32767, IcmFullScale)]

(* The two data registers of an axis.                                      *)
LowByte(count)  == count % 256
HighByte(count) == (count \div 256) % 256

-----------------------------------------------------------------------------
(* From the values of the driver *)

ChannelAccelConvert(v) == TruncDiv(v * 1000, SENSOR_G)

WholeDegrees(v) == 1000 * TruncDiv(v * 9, SENSOR_PI)   \* mutant: scaled after the division

ChannelGyroConvert(v) == TruncDiv(v * 9000, SENSOR_PI)

(* The value of the driver in millionths, kept beside the converted one.   *)
Original(v) == [k \in DOMAIN v |-> 10 * v[k]]

ReadAccelData(v) == [k \in DOMAIN v |-> ChannelAccelConvert(v[k])]

ReadGyroData(v) == [k \in DOMAIN v |-> ChannelGyroConvert(v[k])]

ReadGyroDataIcm(counts) ==
  [k \in DOMAIN counts |-> WrapSigned(ShiftedWord(LowByte(counts[k]), HighByte(counts[k])))]

-----------------------------------------------------------------------------
(* The getters of the readings, of the BMI270 and of the ICM *)

Int16(r) == [k \in DOMAIN r |-> WrapSigned(r[k])]

GetAccelData(r) == Int16(r)

GetGyroData(r) == Int16(r)

(* a_sns and g_sns lose all but their low 16 bits.                         *)
GetAccelRawData(o) == Int16(o)

GetGyroRawData(o) == Int16(o)

NoAccelData(r) == [k \in DOMAIN r |-> 0]

NoAccelRawData(o) == [k \in DOMAIN o |-> 0]

NoGyroRawData(o) == [k \in DOMAIN o |-> 0]

(* RAW_GYRO_OUT_SCALE is 32767 / 15.625 counts a degree a second.          *)
MilliDps(raw) == WrapSigned(TruncDiv(raw * IcmFullScale, 32767))

GetGyroDataIcm(r) ==
  [k \in DOMAIN r |-> CASE k = 1 -> -MilliDps(r[2])
                        [] k = 2 -> MilliDps(r[1])
                        [] OTHER -> MilliDps(r[k])]
=============================================================================
