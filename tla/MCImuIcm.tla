------------------------------ MODULE MCImuIcm ------------------------------
(* ImuIcm with sets of outcomes and bytes for TLC.                           *)
EXTENDS ImuIcm

MCAnyOutcome == {"ok", "ENOSYS", "stuck"}
MCAnyBus     == {"ok", "fails"}
MCNoData     == {0}
MCBytes      == {0, 1, 128, 255}
=============================================================================
