----------------------------- MODULE PeerDomain -----------------------------
(***************************************************************************)
(* What the RTL8367S unicast offload promises the bridge layer.  The ports *)
(* of at most one bridge form a domain; the switch forwards by itself only *)
(* between members.  A port is cut off when it joins and when it leaves.   *)
(* A fault is final: from then on nobody joins or leaves and forwarding    *)
(* can only shrink.                                                        *)
(***************************************************************************)
EXTENDS Integers

CONSTANTS NPorts, Bridge, NoBridge

VARIABLES
    members,    \* the ports of the domain
    bridge,     \* the bridge they belong to
    fault,      \* 1 once the offload has failed
    flows       \* the pairs of ports the switch forwards between

Ports == 0 .. NPorts - 1

Init == members = {} /\ bridge = NoBridge /\ fault = 0 /\ flows = {}

(* No flow begins or ends at port p. *)
Silent(p) == \A f \in flows : f[1] # p /\ f[2] # p

Join(p, b) ==
    /\ fault = 0
    /\ p \notin members /\ bridge \in {NoBridge, b}
    /\ Silent(p)
    /\ members' = members \cup {p}
    /\ bridge' = b
    /\ UNCHANGED <<fault, flows>>

Leave(p) ==
    /\ fault = 0
    /\ p \in members
    /\ Silent(p)
    /\ members' = members \ {p}
    /\ bridge' = IF members' = {} THEN NoBridge ELSE bridge
    /\ UNCHANGED <<fault, flows>>

(* The switch is reconfigured; the access that does it may be the one that *)
(* is reported to have failed.                                             *)
Forward ==
    /\ fault = 0
    /\ flows' \subseteq members \X members
    /\ fault' \in {0, 1}
    /\ UNCHANGED <<members, bridge>>

(* After the fault ports are only ever blocked. *)
Shrink ==
    /\ fault = 1
    /\ flows' \subseteq flows
    /\ UNCHANGED <<members, bridge, fault>>

Next ==
    \/ \E p \in Ports : Leave(p) \/ \E b \in Bridge : Join(p, b)
    \/ Forward
    \/ Shrink

Spec == Init /\ [][Next]_<<members, bridge, fault, flows>>

=============================================================================
