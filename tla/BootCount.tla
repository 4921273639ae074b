----------------------------- MODULE BootCount -----------------------------
(***************************************************************************)
(* What the recovery count that the IMU threads keep in flash promises,    *)
(* over any number of boots: it is the number of attempts to recover by a  *)
(* reboot, at most MaxBoots.  A boot raises it at most once, and by one    *)
(* (from 0 when it could not be loaded), or clears it.                     *)
(***************************************************************************)
EXTENDS Integers

CONSTANT MaxBoots

VARIABLES count,      (* the count in flash                *)
          raised      (* this boot has raised it           *)

vars == <<count, raised>>

Init == count = 0 /\ raised = FALSE

Boot == raised' = FALSE /\ UNCHANGED count

Raise ==
  /\ ~raised /\ raised' = TRUE
  /\ count' \in {c \in {1, count + 1} : c <= MaxBoots}

Clear == ~raised /\ count' = 0 /\ UNCHANGED raised

(* The count could not be written: the boot has had its attempt.           *)
Fail == ~raised /\ raised' = TRUE /\ UNCHANGED count

Next == Boot \/ Raise \/ Clear \/ Fail

Spec == Init /\ [][Next]_vars
=============================================================================
