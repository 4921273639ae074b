--------------------------- MODULE MCFlashCanopen ---------------------------
(* FlashCanopen with an image that works, or one that fails at its settings. *)
EXTENDS FlashCanopen

MCNodeIds   == {60, 256}
MCTransient == {"gpio", "write", "load"}
MCNewImages == {{}, {"settings"}}
=============================================================================
