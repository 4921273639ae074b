---------------------------- MODULE FlashCanopen ----------------------------
(***************************************************************************)
(* A firmware update over the bus: the script of the host                  *)
(* (flash_canopen.py) drives the program download of the board (CanThread) *)
(* step by step, while the C3 may reset the board and the power may fail.  *)
(*                                                                         *)
(* The program download itself is CANopenNode's and external: it answers   *)
(* while the stack is processed, forgets its state at a boot, takes data   *)
(* only for a program that has been cleared, and asks MCUboot for a trial  *)
(* of it when that program is started.  Its requests are acknowledged, so  *)
(* a request takes effect before the script goes on, or the script raises. *)
(***************************************************************************)
EXTENDS CanThread

VARIABLES
  host,             (* the step the script is at, "idle" when it does not run *)
  returned,         (* what it has returned; 1 also for an exception        *)
  confirm_image,    (* --confirm                                            *)
  program,          (* the board's: "running", "stopped", "cleared", "loading" *)
  flash_status,     (* 0 is a success                                       *)
  slot              (* of the new image in the secondary slot: "none", "part", "whole" *)

board    == vars
script   == <<host, returned, confirm_image>>
download == <<program, flash_status, slot>>
updateVars == <<board, script, download>>

NotYet == -1

InitUpdate ==
  /\ Init
  /\ host = "idle" /\ returned = NotYet /\ confirm_image = FALSE
  /\ program = "running" /\ flash_status = 0 /\ slot = "none"

-----------------------------------------------------------------------------
(* The script *)

(* The binary is not found, or is, and the adapter is opened.              *)
Main ==
  /\ host = "idle"
  /\ confirm_image' \in BOOLEAN
  /\ \/ returned' = 1 /\ UNCHANGED host
     \/ host' = "swid" /\ returned' = NotYet
  /\ UNCHANGED <<board, download>>

(* An SDO request that the board answers.                                  *)
Request(step, next) ==
  /\ pc = "process"
  /\ host = step /\ host' = next
  /\ UNCHANGED <<returned, confirm_image>>

ReadSoftwareId ==
  /\ Request("swid", "stop")
  /\ UNCHANGED <<board, download>>

(* PRE-OPERATIONAL, and PROGRAM_CTRL_STOP.                                 *)
Stop ==
  /\ Request("stop", "clear")
  /\ program' = "stopped"
  /\ UNCHANGED <<board, flash_status, slot>>

(* PROGRAM_CTRL_CLEAR: the slot is erased, or that fails on the way.       *)
Clear ==
  /\ Request("clear", "erased")
  /\ program' = "cleared"
  /\ flash_status' \in {0, 1}
  /\ slot' = IF flash_status' = 0 THEN "none" ELSE "part"
  /\ UNCHANGED board

(* wait_flash_status_ok, whose last answer is taken; a poll of a board that *)
(* reports an error is repeated until the time is over.                    *)
StatusIgnored(step, next, code) ==            \* mutant: any answer is taken as a success
  /\ Request(step, next)
  /\ UNCHANGED <<board, download>>

WaitFlashStatusOk(step, next, code) ==
  /\ pc = "process" /\ host = step
  /\ IF flash_status = 0
     THEN host' = next /\ UNCHANGED returned
     ELSE host' = "idle" /\ returned' = code
  /\ UNCHANGED <<board, confirm_image, download>>

WaitErased == WaitFlashStatusOk("erased", "download", 2)

BeginDownload ==
  /\ Request("download", "transfer")
  /\ program = "cleared" /\ program' = "loading"
  /\ slot' = "part"
  /\ UNCHANGED <<board, flash_status>>

EndDownload ==
  /\ Request("transfer", "written")
  /\ program = "loading" /\ program' = "cleared"
  /\ \/ slot' = "whole" /\ UNCHANGED flash_status
     \/ flash_status' = 1 /\ UNCHANGED slot
  /\ UNCHANGED board

WaitWritten == WaitFlashStatusOk("written", "start", 3)

(* PROGRAM_CTRL_START: the board is to reset itself and to try the image;  *)
(* one that has been restarted meanwhile has no program to start.          *)
Start ==
  /\ Request("start", "bootup")
  /\ IF program = "cleared"
     THEN ProcessAnswers("app") /\ pending' = TRUE
     ELSE UNCHANGED <<pc, reset, pending>>
  /\ UNCHANGED <<stored, image, confirmed, broken_for, node_id, gpios, download>>

ReadNewSoftwareId ==
  /\ Request("booted", "end")
  /\ UNCHANGED <<board, download>>

(* PROGRAM_CTRL_ZEPHYR_CONFIRM, of the image that answers.                 *)
Confirm ==
  /\ Request("end", "confirmed")
  /\ confirm_image
  /\ confirmed' = TRUE
  /\ UNCHANGED <<stored, image, pending, broken_for, pc, node_id, reset, gpios, download>>

Return ==
  /\ \/ host = "end" /\ ~confirm_image
     \/ host = "confirmed"
  /\ host' = "idle" /\ returned' = 0
  /\ UNCHANGED <<board, confirm_image, download>>

(* An answer or the bootup message does not come in time, or the board     *)
(* refuses: main() has no handler.                                         *)
Raise ==
  /\ host # "idle"
  /\ host' = "idle" /\ returned' = 1
  /\ UNCHANGED <<board, confirm_image, download>>

Script ==
  \/ Main \/ ReadSoftwareId \/ Stop \/ Clear \/ WaitErased
  \/ BeginDownload \/ EndDownload \/ WaitWritten
  \/ Start \/ ReadNewSoftwareId \/ Confirm \/ Return \/ Raise

-----------------------------------------------------------------------------
(* The board.  CO_init sends the bootup message that wait_for_bootup waits *)
(* for, after a reset of the communication as well; of the state of the    *)
(* download a boot keeps what is in flash.                                 *)
Bootup ==
  /\ CoInit
  /\ host' = IF host = "bootup" THEN "booted" ELSE host
  /\ UNCHANGED <<returned, confirm_image, download>>

LosesDownload ==
  /\ program' = "running" /\ flash_status' = 0
  /\ slot' = IF pending THEN "none" ELSE slot
  /\ UNCHANGED script

OtherStep ==
  \/ InitGpios \/ InitGpiosFails \/ InitCanGpios \/ SettingsInit \/ LoadNodeId
  \/ ConfirmImage \/ OpenDevice \/ FatalError \/ Process
  \/ MagtqrInitGpios \/ StoreNodeId

Board ==
  \/ (Reboot \/ Restart) /\ LosesDownload
  \/ Bootup
  \/ OtherStep /\ UNCHANGED <<script, download>>

NextUpdate == Script \/ Board

(* The fairness of CanThread; the script owes the board nothing.           *)
FairUpdate ==
  /\ InitUpdate /\ [][NextUpdate]_updateVars
  /\ WF_updateVars(Board /\ Thread) /\ WF_updateVars(Board /\ pc = "halted" /\ Restart)

-----------------------------------------------------------------------------
TypeUpdate ==
  /\ host \in {"idle", "swid", "stop", "clear", "erased", "download", "transfer", "written",
               "start", "bootup", "booted", "end", "confirmed"}
  /\ returned \in NotYet .. 3 /\ confirm_image \in BOOLEAN
  /\ program \in {"running", "stopped", "cleared", "loading"}
  /\ flash_status \in {0, 1} /\ slot \in {"none", "part", "whole"}

(* Whatever fails or restarts between two requests, the board is only      *)
(* asked to try an image that has been written whole, and the script only  *)
(* returns 0 when no trial it asked for is still to come.                  *)
SuccessFollowsTrial ==
  /\ pending => slot = "whole"
  /\ returned = 0 => ~pending

(* flash_canopen.py:182, 187: the software id "after reboot" is logged as  *)
(* that of the update, and 0 is returned.                                  *)
(* Does not hold: README, section 7.                                       *)
SuccessIsTheNewImage == returned = 0 => image = "new"

(* flash_canopen.py:22, 55: by default, and with --no-confirm, the script  *)
(* does not confirm the image.                                             *)
(* Does not hold: README, section 7.                                       *)
ConfirmedOnlyIfAsked == image = "new" /\ confirmed => confirm_image
=============================================================================
