---------------------------- MODULE MCLoopPacing ----------------------------
(* LoopPacing with the firmware's period and bodies that last longer.       *)
EXTENDS LoopPacing
=============================================================================
