----------------------------- MODULE MCTelemetry -----------------------------
(* Telemetry with both magnetometers; the frames of the temperature and of   *)
(* the first magnetometer's vector are followed.                             *)
EXTENDS Telemetry

MCMags   == {0, 1}
MCAll    == {"gpio", "power", "init", "read"}
MCFrames == {2, 3}
=============================================================================
