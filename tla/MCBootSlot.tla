----------------------------- MODULE MCBootSlot -----------------------------
(* TLC instance of BootSlot: every command line of up to three words, with  *)
(* the hand-over before, between and after old arguments.                   *)
EXTENDS BootSlot

MCWord == Word \ {"storage"}
MCBootargs == UNION {[1..n -> MCWord] : n \in 0..3}
MCAppended == {<<>>, <<"ecc">>, <<"stale", "ecc">>}

=============================================================================
