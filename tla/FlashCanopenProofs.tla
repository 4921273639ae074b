------------------------- MODULE FlashCanopenProofs -------------------------
(***************************************************************************)
(* What holds of a firmware update whatever fails or restarts between two  *)
(* requests of the script, for any pins, node ids and faults.              *)
(***************************************************************************)
EXTENDS FlashCanopen, TLAPS

(* What a trial that has been asked for rests on: the board is on its way  *)
(* to the reset, and between the end of the download and the start of the  *)
(* program only an image that has been written whole passes as cleared.    *)
TrialInv == pending => pc = "reboot" /\ slot = "whole"

WrittenInv ==
  /\ host = "written" /\ program = "cleared" /\ flash_status = 0 => slot = "whole"
  /\ host = "start" /\ program = "cleared" => slot = "whole"

(* The script has seen the board boot since it asked for the trial.        *)
ReturnInv ==
  /\ host # "idle" => returned = NotYet
  /\ host \in {"booted", "end", "confirmed"} => ~pending
  /\ returned = 0 => ~pending

UpdateInv == TrialInv /\ WrittenInv /\ ReturnInv

LEMMA UpdateInitInv == InitUpdate => UpdateInv
  BY DEF InitUpdate, Init, UpdateInv, TrialInv, WrittenInv, ReturnInv, NotYet

(* Requests are answered by a stack that is processed, so none is while a  *)
(* trial is to come.                                                       *)
LEMMA RequestsStep ==
  ASSUME UpdateInv,
         \/ Stop \/ Clear \/ WaitErased \/ BeginDownload \/ EndDownload \/ WaitWritten
         \/ ReadSoftwareId \/ ReadNewSoftwareId \/ Confirm
  PROVE  UpdateInv'
  <1> USE DEF UpdateInv, TrialInv, WrittenInv, ReturnInv, Request, NotYet, board, vars, flash, download
  <1>1. CASE ReadSoftwareId \/ ReadNewSoftwareId
    BY <1>1 DEF ReadSoftwareId, ReadNewSoftwareId
  <1>2. CASE Stop
    BY <1>2 DEF Stop
  <1>3. CASE Clear
    BY <1>3 DEF Clear
  <1>4. CASE WaitErased \/ WaitWritten
    BY <1>4 DEF WaitErased, WaitWritten, WaitFlashStatusOk
  <1>5. CASE BeginDownload
    BY <1>5 DEF BeginDownload
  <1>6. CASE EndDownload
    BY <1>6 DEF EndDownload
  <1>7. CASE Confirm
    BY <1>7 DEF Confirm
  <1> QED
    BY <1>1, <1>2, <1>3, <1>4, <1>5, <1>6, <1>7

LEMMA StartStep == UpdateInv /\ Start => UpdateInv'
  BY DEF UpdateInv, TrialInv, WrittenInv, ReturnInv, Start, Request, ProcessAnswers, After, NotYet, download

LEMMA HostStep == UpdateInv /\ (Main \/ Return \/ Raise) => UpdateInv'
  BY DEF UpdateInv, TrialInv, WrittenInv, ReturnInv, Main, Return, Raise, NotYet, board, vars, flash, download

(* A boot has the trial behind it and has forgotten the download.          *)
LEMMA BootStep == UpdateInv /\ (Reboot \/ Restart) /\ LosesDownload => UpdateInv'
  BY DEF UpdateInv, TrialInv, WrittenInv, ReturnInv, Reboot, Restart, Boot, LosesDownload, script

LEMMA BootupStep == UpdateInv /\ Bootup => UpdateInv'
  BY DEF UpdateInv, TrialInv, WrittenInv, ReturnInv, Bootup, CoInit, download, flash

LEMMA OtherStepInv == UpdateInv /\ OtherStep /\ UNCHANGED <<script, download>> => UpdateInv'
  <1> SUFFICES ASSUME UpdateInv, OtherStep, UNCHANGED <<script, download>> PROVE UpdateInv'
    OBVIOUS
  <1>1. pending' = pending /\ (pc = "reboot" => pc' = "reboot")
    BY DEF OtherStep, InitGpios, InitGpiosFails, InitCanGpios, SettingsInit, LoadNodeId, ConfirmImage,
           OpenDevice, FatalError, Process, ProcessAnswers, MagtqrInitGpios, StoreNodeId, flash
  <1> QED
    BY <1>1 DEF UpdateInv, TrialInv, WrittenInv, ReturnInv, script, download

LEMMA UpdateStep == UpdateInv /\ [NextUpdate]_updateVars => UpdateInv'
  <1> SUFFICES ASSUME UpdateInv, [NextUpdate]_updateVars PROVE UpdateInv'
    OBVIOUS
  <1>1. CASE Script
    BY <1>1, RequestsStep, StartStep, HostStep DEF Script
  <1>2. CASE Board
    BY <1>2, BootStep, BootupStep, OtherStepInv DEF Board
  <1>3. CASE UNCHANGED updateVars
    BY <1>3 DEF UpdateInv, TrialInv, WrittenInv, ReturnInv, updateVars, board, vars, flash, script, download
  <1> QED
    BY <1>1, <1>2, <1>3 DEF NextUpdate

(* Whatever fails or restarts, the board is asked to try an image only     *)
(* once it has been written whole, and the script does not return success  *)
(* before a trial that it has asked for.                                   *)
THEOREM SuccessTheorem == FairUpdate => []SuccessFollowsTrial
  <1>1. UpdateInv => SuccessFollowsTrial
    BY DEF UpdateInv, TrialInv, ReturnInv, SuccessFollowsTrial
  <1> QED
    BY <1>1, UpdateInitInv, UpdateStep, PTL DEF FairUpdate
=============================================================================
