---------------------------- MODULE MCSlotUpgrade ----------------------------
(* TLC instance of SlotUpgrade: the configurations give the constants. *)
EXTENDS SlotUpgrade

=============================================================================
