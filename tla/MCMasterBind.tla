---------------------------- MODULE MCMasterBind ----------------------------
(* TLC instance of MasterBind: two hotplug events, which do not wait, and   *)
(* the init script, which waits.                                            *)
EXTENDS MasterBind

CONSTANTS Hotplug1, Hotplug2, S19, Wait

MCProc == {Hotplug1, Hotplug2, S19}
MCLimit == [p \in MCProc |-> IF p = S19 THEN Wait ELSE 0]

=============================================================================
