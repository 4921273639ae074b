--------------------------- MODULE MCCalibration ---------------------------
(* Calibration with two axes a sensor, of which the accelerometer's first    *)
(* is the one that reads 1 g.                                                *)
EXTENDS Calibration

MCAxes   == {1, 2}
MCLevel  == [s \in Sensors |-> [k \in MCAxes |-> IF s = "accel" /\ k = 1 THEN 1000 ELSE 0]]
MCBias   == [s \in Sensors |-> [k \in MCAxes |-> IF s = "accel" THEN 11 + k ELSE 200 - 300 * k]]

(* Slow, near the ICM's full scale, at what 16 bits hold, and beyond it, to  *)
(* the end of the range and past it.                                         *)
MCPairs(S)  == [MCAxes -> S]
MCMotions   == [s \in Sensors |->
  IF s = "accel" THEN MCPairs({-1900, -1, 0, 1000, 1900})
  ELSE MCPairs({-32765, -15000, -7, 0, 32765, 124000, 130000})]

(* The accelerometer is calibrated once and the gyroscope twice.             *)
MCMaxCommands == [s \in Sensors |-> IF s = "accel" THEN 1 ELSE 2]

(* Of the BMI270 both sensors are calibrated and the gyroscope is reset as   *)
(* well; the gyroscope of the ICM is calibrated only, or is reset as well.   *)
MCOptions(accel, gyro) == [s \in Sensors |-> IF s = "accel" THEN accel ELSE gyro]
MCFittings ==
  {[imu |-> "bmi", options |-> MCOptions({"none"}, {"none", "reset"})],
   [imu |-> "icm", options |-> MCOptions({}, {"none"})],
   [imu |-> "icm", options |-> MCOptions({}, {"none", "reset"})]}
=============================================================================
