-------------------------- MODULE MCMagnetorquers --------------------------
(* Magnetorquers for TLC: one axis with enough data for the controller to   *)
(* wind up, saturate and wrap, or two axes with fewer values for the loops  *)
(* over the axes and the CAN thread's interleaving with them.               *)
EXTENDS Magnetorquers

MCMaxUaOne == [a \in 0 .. 0 |-> 12]
MCMaxUaTwo == [a \in 0 .. 1 |-> 2]

MCAdcMv     == {0, 2}
MCAdcMvTwo  == 0 .. 1
MCSetpoints == {-7, 0, 20}
MCSetpointsTwo == {-3, 0}
MCLoopFaults     == {"acquire", "read", "pwm"}
MCCoilFaults     == {"init", "phase"}
MCNoFaults       == {}
=============================================================================
