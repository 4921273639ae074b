------------------------------ MODULE MCExplore ------------------------------
(* Explore for TLC: two coils with the same largest current, duties 0..2,   *)
(* and a frequency at which the product of period and duty overflows.       *)
EXTENDS Explore, TLC

MCMaxUa == (0 :> 1) @@ (1 :> 1)
MCSdoWrites  == {<<1, -1>>}
MCHandDuties == {<<1, -2>>}
MCHandTargets == {<<0, 1>>}
MCHandFrequencies == {<<1, 1>>, <<2, 1>>}
MCCps   == (0 :> 20) @@ (1 :> 20)
=============================================================================
