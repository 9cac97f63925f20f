--------------------------- MODULE MCBootSelector ---------------------------
(* TLC instance of BootSelector: the configurations give the constants. *)
EXTENDS BootSelector

=============================================================================
