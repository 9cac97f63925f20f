----------------------------- MODULE MCFdbSync -----------------------------
(* TLC instance of FdbSync: the configuration gives the constants. *)
EXTENDS FdbSync

=============================================================================
