------------------------------ MODULE CoilDrive ------------------------------
(***************************************************************************)
(* What the magnetorquer thread promises of the hardware it drives.  The   *)
(* driver stage is switched on once, with every coil at rest, and stays    *)
(* on.  From then on a coil's signed drive only ever becomes the goal the  *)
(* controller has set for it, which never exceeds the full duty; the drive *)
(* changes in one step, although the code writes a phase pin and a duty.   *)
(***************************************************************************)
EXTENDS Integers

CONSTANTS Coil, MaxDuty

VARIABLES on,         (* the driver stage drives its outputs    *)
          goal,       (* signed duty wanted for each coil       *)
          drive       (* signed duty applied to each coil       *)

vars == <<on, goal, drive>>

Init ==
  /\ on = FALSE
  /\ goal = [c \in Coil |-> 0]
  /\ drive = [c \in Coil |-> 0]

SwitchOn == ~on /\ on' = TRUE /\ UNCHANGED <<goal, drive>>

SetGoal(c, duty) ==
  on /\ goal' = [goal EXCEPT ![c] = duty] /\ UNCHANGED <<on, drive>>

Apply(c) ==
  on /\ drive' = [drive EXCEPT ![c] = goal[c]] /\ UNCHANGED <<on, goal>>

Next ==
  \/ SwitchOn
  \/ \E c \in Coil : Apply(c) \/ \E duty \in -MaxDuty .. MaxDuty : SetGoal(c, duty)

Spec == Init /\ [][Next]_vars
=============================================================================
