------------------------------ MODULE CanThread ------------------------------
(***************************************************************************)
(* The CAN thread (src/can.c) with the pins and settings it starts from    *)
(* (src/gpios.c, src/can_util.c), over restarts: the node id and the       *)
(* firmware image are in flash.  MCUboot is external: it starts a new      *)
(* image once on trial, and goes back to the old one at the next restart   *)
(* unless the image has been confirmed by then.                            *)
(*                                                                         *)
(* The CANopenNode stack is reduced to whether it initializes, and to the  *)
(* resets it asks for; how a new image gets into the board is module       *)
(* FlashCanopen.  The fault line of the transceiver, which is only logged, *)
(* is left out.                                                            *)
(***************************************************************************)
EXTENDS Integers

CONSTANTS
  DEFAULT_NODE_ID,
  NodeIds,          (* ids typed at the shell, of which a byte is stored    *)
  MustBeSet,        (* CONFIG_CAN_ID_MUST_BE_SET                            *)
  Pins,             (* what the revision pins of this board read            *)
  Faults,           (* what may fail: "gpio", "write", "settings", "load", "device", "co" *)
  NewImages         (* what always fails under a new image, for each there may be *)

ASSUME CanAssumption ==
  /\ NodeIds \subseteq Nat /\ DEFAULT_NODE_ID \in 1 .. 255
  /\ MustBeSet \in BOOLEAN
  /\ Pins \in 0 .. 7
  /\ Faults \cup UNION NewImages \subseteq {"gpio", "write", "settings", "load", "device", "co"}

VARIABLES
  stored,                       (* node_id in the settings, 0 when there is none    *)
  image, confirmed, pending,    (* MCUboot: the image running, whether it stays, and *)
                                (* whether a new one is to be tried next             *)
  broken_for,                   (* the one of NewImages that there is                *)
  pc, node_id, reset,
  initialized, raw_board_rev,   (* init_gpios                                       *)
  pins_failed,                  (* a revision pin could not be configured (history) *)
  tcan_silent,                  (* the transceiver's silence pin has been released  *)
  magtqr                        (* init_gpios as the magnetorquer thread sees it    *)

flash == <<stored, image, confirmed, pending, broken_for>>
gpios == <<initialized, raw_board_rev, pins_failed, tcan_silent, magtqr>>
vars  == <<flash, pc, node_id, reset, gpios>>

May(fault)   == fault \in Faults \/ (image = "new" /\ fault \in broken_for)
Works(fault) == ~(image = "new" /\ fault \in broken_for)

(* uint8_t node_id = atoi(argv[1])                                         *)
Stored == {id % 256 : id \in NodeIds}

HW_REV_1_0_0 == 0

(* get_board_hw_rev: the pins of a 1.0.0 board are not connected.          *)
BoardHwRev == IF raw_board_rev = 7 THEN HW_REV_1_0_0 ELSE raw_board_rev

Init ==
  /\ stored \in Stored \cup {0}
  /\ image = "old" /\ confirmed = TRUE /\ pending = FALSE /\ broken_for \in NewImages
  /\ pc = "gpios" /\ node_id = DEFAULT_NODE_ID /\ reset = "not"
  /\ initialized = FALSE /\ raw_board_rev = HW_REV_1_0_0 /\ pins_failed = FALSE
  /\ tcan_silent = FALSE /\ magtqr = "waiting"

Boot ==
  /\ CASE pending -> image' = "new" /\ confirmed' = FALSE
       [] ~pending /\ ~confirmed -> image' = "old" /\ confirmed' = TRUE
       [] OTHER -> UNCHANGED <<image, confirmed>>
  /\ pending' = FALSE
  /\ pc' = "gpios" /\ node_id' = DEFAULT_NODE_ID /\ reset' = "not"
  /\ initialized' = FALSE /\ raw_board_rev' = HW_REV_1_0_0 /\ pins_failed' = FALSE
  /\ tcan_silent' = FALSE /\ magtqr' = "waiting"
  /\ UNCHANGED <<stored, broken_for>>

Restart == Boot

-----------------------------------------------------------------------------
(* init_gpios, called first by this thread.                                *)
InitGpios ==
  /\ pc = "gpios" /\ ~initialized
  /\ pc' = "can_gpios"
  /\ initialized' = TRUE
  /\ raw_board_rev' = Pins
  /\ UNCHANGED <<flash, node_id, reset, pins_failed, tcan_silent, magtqr>>

(* The pins are read nevertheless, and the error is only logged.  Only     *)
(* 1.0.0 is told from other revisions: 1 stands for the others.            *)
InitGpiosFails ==
  /\ May("gpio")
  /\ pc = "gpios" /\ ~initialized
  /\ pc' = "can_gpios"
  /\ initialized' = TRUE
  /\ raw_board_rev' \in {HW_REV_1_0_0, 1, Pins}
  /\ pins_failed' = TRUE
  /\ UNCHANGED <<flash, node_id, reset, tcan_silent, magtqr>>

(* The magnetorquer thread, which starts later, calls it as well.          *)
MagtqrInitGpios ==
  /\ magtqr = "waiting" /\ initialized
  /\ magtqr' = "ok"
  /\ UNCHANGED <<flash, pc, node_id, reset, initialized, raw_board_rev, pins_failed, tcan_silent>>

ConfirmFirst ==                               \* mutant: confirmed before the settings
  /\ pc = "can_gpios"
  /\ pc' = "settings"
  /\ confirmed' = TRUE /\ tcan_silent' = TRUE
  /\ UNCHANGED <<stored, image, pending, broken_for, node_id, reset, initialized, raw_board_rev, pins_failed, magtqr>>

InitCanGpios ==
  /\ pc = "can_gpios"
  /\ pc' = "settings"
  /\ tcan_silent' \in {TRUE} \cup {f \in {FALSE} : May("gpio")}
  /\ UNCHANGED <<flash, node_id, reset, initialized, raw_board_rev, pins_failed, magtqr>>

SettingsInit ==
  /\ pc = "settings"
  /\ Works("settings")
  /\ pc' = "node_id"
  /\ UNCHANGED <<flash, node_id, reset, gpios>>

(* load_node_id, and what follows from it.                                 *)
LoadNodeId ==
  /\ pc = "node_id"
  /\ \E loaded \in {stored} \cup {c \in {0} : May("load")} :
       node_id' = IF loaded = 0 THEN DEFAULT_NODE_ID ELSE loaded
  /\ pc' = IF node_id' = DEFAULT_NODE_ID /\ MustBeSet THEN "halted" ELSE "confirm"
  /\ UNCHANGED <<flash, reset, gpios>>

(* The self-tests always pass.                                             *)
ConfirmImage ==
  /\ pc = "confirm"
  /\ pc' = "device"
  /\ confirmed' \in {TRUE} \cup {c \in {confirmed} : May("write")}
  /\ UNCHANGED <<stored, image, pending, broken_for, node_id, reset, gpios>>

SetCanNormal ==
  tcan_silent' \in IF BoardHwRev = HW_REV_1_0_0 THEN {tcan_silent}
                   ELSE {TRUE} \cup {f \in {tcan_silent} : May("gpio")}

OpenDevice ==
  /\ pc = "device"
  /\ Works("device")
  /\ pc' = "co_init"
  /\ SetCanNormal
  /\ UNCHANGED <<flash, node_id, reset, initialized, raw_board_rev, pins_failed, magtqr>>

CoInit ==
  /\ pc = "co_init"
  /\ Works("co")
  /\ pc' = "process"
  /\ UNCHANGED <<flash, node_id, reset, gpios>>

(* goto fatal_error                                                        *)
FatalError ==
  /\ \/ pc = "settings" /\ May("settings")
     \/ pc = "device" /\ May("device")
     \/ pc = "co_init" /\ May("co")
  /\ pc' = "halted"
  /\ UNCHANGED <<flash, node_id, reset, gpios>>

(* Where the loop goes when CO_process has answered r.                     *)
AfterAnyReset(r) == IF r = "not" THEN "process" ELSE "co_init"  \* mutant: the loop never ends

After(r) == CASE r = "not" -> "process"
              [] r = "app" -> "reboot"
              [] OTHER     -> "co_init"

(* CO_process, and the PDOs if it asks for no reset.                       *)
ProcessAnswers(r) ==
  /\ pc = "process"
  /\ reset' = r
  /\ pc' = After(r)

Process ==
  /\ \E r \in {"not", "app", "comm", "quit"} : ProcessAnswers(r)
  /\ UNCHANGED <<flash, node_id, gpios>>

(* CO_delete and sys_reboot.                                               *)
Reboot ==
  /\ pc = "reboot"
  /\ Boot

(* store_node_id, from the shell.                                          *)
StoreNodeId ==
  /\ stored' \in Stored
  /\ UNCHANGED <<image, confirmed, pending, broken_for, pc, node_id, reset, gpios>>

Thread ==
  \/ InitGpios \/ InitGpiosFails \/ InitCanGpios
  \/ SettingsInit \/ LoadNodeId \/ ConfirmImage
  \/ OpenDevice \/ CoInit \/ FatalError \/ Process \/ Reboot

Next == Thread \/ MagtqrInitGpios \/ Restart \/ StoreNodeId

Spec == Init /\ [][Next]_vars

(* The calls and the sleep of the thread return, and a board that has      *)
(* halted is restarted, which the C3 does.                                 *)
FairSpec == Spec /\ WF_vars(Thread) /\ WF_vars(pc = "halted" /\ Restart)

-----------------------------------------------------------------------------
TypeOK ==
  /\ stored \in Stored \cup {0} /\ node_id \in (Stored \ {0}) \cup {DEFAULT_NODE_ID}
  /\ image \in {"old", "new"} /\ confirmed \in BOOLEAN /\ pending \in BOOLEAN
  /\ broken_for \in NewImages
  /\ pc \in {"gpios", "can_gpios", "settings", "node_id", "confirm", "device", "co_init",
             "process", "reboot", "halted"}
  /\ reset \in {"not", "app", "comm", "quit"}
  /\ initialized \in BOOLEAN /\ pins_failed \in BOOLEAN /\ tcan_silent \in BOOLEAN
  /\ raw_board_rev \in 0 .. 7
  /\ magtqr \in {"waiting", "ok"}

(* Whatever resets the C3 asks for, and although new images may fail at    *)
(* their settings, the board is back on the bus again and again: no such   *)
(* image is confirmed, by the board or by the host, and no reset request   *)
(* ends the thread.                                                        *)
BackOnTheBus ==
  <>[][Restart => pc \in {"halted", "reboot"}]_vars => []<>(pc = "process")

(* src/gpios.h:27-28: init_gpios returns a nonzero value "if any GPIO pin  *)
(* could not be successfully configured", to either thread.                *)
(* Does not hold: README, section 7.                                       *)
InitReportsFailure == pins_failed => magtqr # "ok"

(* src/gpios.c:148: "if hardware init failed earlier, we return            *)
(* HW_REV_1_0_0".                                                          *)
(* Does not hold: README, section 7.                                       *)
FailedInitIsRev100 == pins_failed => BoardHwRev = HW_REV_1_0_0
=============================================================================
