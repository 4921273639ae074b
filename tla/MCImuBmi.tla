------------------------------ MODULE MCImuBmi ------------------------------
(* ImuBmi with every outcome of the bus recovery.                            *)
EXTENDS ImuBmi

MCAnyOutcome == {"ok", "ENOSYS", "stuck"}
=============================================================================
