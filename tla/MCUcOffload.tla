---------------------------- MODULE MCUcOffload ----------------------------
(* TLC instance of UcOffload: the configuration gives the constants. *)
EXTENDS UcOffload

=============================================================================
