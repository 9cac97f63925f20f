------------------------------ MODULE UcOffload ------------------------------
(***************************************************************************)
(* The known-unicast bridge offload of the RTL8367S driver: the callbacks  *)
(* that DSA makes when a port joins or leaves a bridge, changes its STP    *)
(* state, is aged out, or has a static address added or removed.  Every    *)
(* callback holds uc_lock from beginning to end and is a sequence of       *)
(* register or table accesses, each one step here: the switch learns and   *)
(* ages addresses by itself between any two of them, and each may fail,    *)
(* with or without having taken effect.  A failed access ends in           *)
(* fail_closed, which blocks every port as far as the bus still answers.   *)
(*                                                                         *)
(* A callback that the driver refuses at once changes nothing and is a     *)
(* stuttering step.  The FDB mirror that these callbacks also trigger is   *)
(* the subject of FdbSync.                                                 *)
(***************************************************************************)
EXTENDS Integers

CONSTANTS
    NPorts,     \* user ports
    LutSize,    \* addresses of the L2 table; an address stands for its MAC
    Bridge,     \* bridges of the system
    NoBridge    \* no bridge

ASSUME NPortsAssumption == NPorts \in Nat \ {0}
ASSUME LutAssumption == LutSize \in Nat \ {0}
ASSUME BridgeAssumption == Bridge # {} /\ NoBridge \notin Bridge

VARIABLES
    iso,      \* isolation register of a port: the user ports it may send to
    learn,    \* ports whose learning limit is not zero
    stp,      \* STP state the switch applies to a port
    efid,     \* filtering database a port learns into
    lut,      \* L2 table: the port an address is on, or None
    static,   \* addresses whose entry is static
    tag,      \* filtering database of an entry
    fault,    \* uc_fault
    bridge,   \* uc_bridge
    members,  \* uc_members
    linked,   \* the bridge DSA has linked a port to
    vlan,     \* whether a bridge filters VLANs
    pc,       \* what the callback that holds uc_lock does next
    req,      \* that callback and its arguments
    i,        \* its loop over the ports
    at,       \* its cursor in the L2 table
    missed,   \* history: ports that fail_closed could not block entirely
    hurt      \* history: 1 once an access has failed

hw == <<iso, learn, stp, efid, lut, static, tag>>
sw == <<fault, bridge, members>>
sys == <<linked, vlan>>
vars == <<iso, learn, stp, efid, lut, static, tag, fault, bridge, members,
          linked, vlan, pc, req, i, at, missed, hurt>>

----------------------------------------------------------------------------
(* Data *)

Ports == 0 .. NPorts - 1
Mac == 0 .. LutSize - 1
None == -1

(* RTL8367S_UC_FID_EFID *)
UcEfid == 1

BrState == {"disabled", "blocking", "listening", "learning", "forwarding"}
StpState == {"disabled", "blocking", "learning", "forwarding"}

Calls == {"none", "join", "leave", "stp", "age", "add", "del", "dump"}
Req == [call : Calls, port : Ports, br : Bridge \cup {NoBridge},
        state : BrState, mac : Mac]
Ask(c, p, b, s, m) == [call |-> c, port |-> p, br |-> b, state |-> s, mac |-> m]
NoReq == Ask("none", 0, NoBridge, "blocking", 0)

(* The writes of the two loops that block ports after a failure. *)
Unwinding == {"unwind", "unlearn"}
Shutting == {"close", "closeLearn", "closeStp"}

Stage == {"idle", "stp", "learn", "flush", "erase", "efid", "matrix", "enable",
          "write", "lookup", "dump"} \cup Unwinding \cup Shutting

(* The switch has no listening state. *)
HwStp(s) == IF s = "listening" THEN "blocking" ELSE s

(* What join and leave are about to make of uc_members. *)
NextMembers ==
    IF req.call = "join" THEN members \cup {req.port} ELSE members \ {req.port}

(* rt3000_uc_peer_mask without the CPU port, which is in every mask.       *)
PeerMask(ms, p) == IF p \in ms THEN ms \ {p} ELSE {}

----------------------------------------------------------------------------
(* Building blocks *)

(* The callback ends and drops uc_lock. *)
Return == pc' = "idle" /\ req' = NoReq /\ i' = 0 /\ at' = 0

Goto(l) == pc' = l /\ UNCHANGED <<req, i, at>>

(* fail_closed begins: the fault is set before any port is blocked, and   *)
(* what the callback was asked for does not matter any more.              *)
FailClosed == pc' = "close" /\ i' = 0 /\ at' = 0 /\ fault' = 1 /\ req' = NoReq

(* An access failed. *)
BusFailure == FailClosed /\ hurt' = 1

(* A callback is accepted and begins at stage l. *)
Call(r, l) == pc = "idle" /\ pc' = l /\ req' = r /\ UNCHANGED <<i, at>>

(* The entry of address m is made invalid. *)
Unlearn(m) ==
    /\ lut' = [lut EXCEPT ![m] = None]
    /\ static' = static \ {m}
    /\ tag' = [tag EXCEPT ![m] = 0]

Enter(m, p, e) ==
    /\ lut' = [lut EXCEPT ![m] = p]
    /\ tag' = [tag EXCEPT ![m] = e]

----------------------------------------------------------------------------
(* rtl8365mb_setup and rtl8365mb_uc_enable have passed: the chip was reset *)
(* and every port can reach only the CPU.                                  *)
Init ==
    /\ iso = [p \in Ports |-> {}]
    /\ learn = {}
    /\ stp = [p \in Ports |-> "disabled"]
    /\ efid = [p \in Ports |-> 0]
    /\ lut = [m \in Mac |-> None]
    /\ static = {}
    /\ tag = [m \in Mac |-> 0]
    /\ fault = 0
    /\ bridge = NoBridge
    /\ members = {}
    /\ linked = [p \in Ports |-> NoBridge]
    /\ vlan \in [Bridge -> BOOLEAN]
    /\ pc = "idle"
    /\ req = NoReq
    /\ i = 0
    /\ at = 0
    /\ missed = {}
    /\ hurt = 0

(* rtl8365mb_uc_bridge_join, called for a port in no bridge. *)
BridgeJoin(p, b) ==
    /\ linked[p] = NoBridge
    /\ fault = 0
    /\ ~vlan[b]
    /\ bridge \in {NoBridge, b} /\ p \notin members
    /\ Call(Ask("join", p, b, "blocking", 0), "stp")
    /\ UNCHANGED <<hw, sw, sys, missed, hurt>>

(* rtl8365mb_uc_bridge_leave, called for a port that is in a bridge. *)
BridgeLeave(p) ==
    /\ linked[p] # NoBridge
    /\ LET b == linked[p] IN
       /\ linked' = [linked EXCEPT ![p] = NoBridge]
       /\ \/ /\ fault = 0 /\ bridge = b /\ p \in members
             /\ Call(Ask("leave", p, b, "blocking", 0), "stp")
             /\ UNCHANGED fault
          \/ /\ fault # 0 \/ bridge # b \/ p \notin members
             /\ Call(NoReq, "close")
             /\ fault' = 1
    /\ UNCHANGED <<hw, bridge, members, vlan, missed, hurt>>

(* rtl8365mb_uc_stp_state_set *)
StpStateSet(p, s) ==
    /\ fault = 0
    /\ Call(Ask("stp", p, NoBridge, s, 0), "stp")
    /\ UNCHANGED <<hw, sw, sys, missed, hurt>>

(* rtl8365mb_uc_fast_age *)
FastAge(p) ==
    /\ fault = 0 /\ p \in members
    /\ Call(Ask("age", p, NoBridge, "blocking", 0), "flush")
    /\ UNCHANGED <<hw, sw, sys, missed, hurt>>

(* rtl8365mb_uc_fdb_add and _del, of a static address *)
FdbAdd(p, m) ==
    /\ fault = 0 /\ p \in members
    /\ Call(Ask("add", p, NoBridge, "blocking", m), "write")
    /\ UNCHANGED <<hw, sw, sys, missed, hurt>>

FdbDel(p, m) ==
    /\ fault = 0 /\ p \in members
    /\ Call(Ask("del", p, NoBridge, "blocking", m), "lookup")
    /\ UNCHANGED <<hw, sw, sys, missed, hurt>>

(* rtl8365mb_uc_fdb_dump, and the scan of the FDB mirror: table reads that *)
(* change nothing unless one fails.                                        *)
FdbDump(p) ==
    /\ fault = 0 /\ p \in members
    /\ Call(Ask("dump", p, NoBridge, "blocking", 0), "dump")
    /\ UNCHANGED <<hw, sw, sys, missed, hurt>>

(* rtl8365mb_uc_vlan_filtering: the bridge asks every port it has before   *)
(* it changes its filtering, and gives up when one refuses.                *)
VlanRefusedOnFault(b, on) == \E p \in Ports : linked[p] = b /\ fault # 0  \* mutated form
VlanRefused(b, on) == \E p \in Ports : linked[p] = b /\ (fault # 0 \/ on)

VlanFiltering(b, on) ==
    /\ pc = "idle"
    /\ ~VlanRefused(b, on)
    /\ vlan' = [vlan EXCEPT ![b] = on]
    /\ UNCHANGED <<hw, sw, linked, pc, req, i, at, missed, hurt>>

----------------------------------------------------------------------------
(* The accesses of a callback *)

(* rtl8365mb_uc_set_stp: join and leave block the port first. *)
StpTargetKept == IF req.call = "stp" THEN HwStp(req.state) ELSE stp[req.port] \* mutated form
StpTarget == IF req.call = "stp" THEN HwStp(req.state) ELSE "blocking"

SetStp ==
    /\ pc = "stp"
    /\ LET new == [stp EXCEPT ![req.port] = StpTarget] IN
       \/ /\ stp' = new
          /\ Goto("learn")
          /\ UNCHANGED <<fault, hurt>>
       \/ /\ stp' \in {stp, new}
          /\ BusFailure
    /\ UNCHANGED <<iso, learn, efid, lut, static, tag, bridge, members, sys, missed>>

(* rtl8365mb_uc_set_learning: off for join and leave, by membership and    *)
(* state for an STP change, which then is done.                            *)
LearnTargetAnyPort == req.call = "stp" /\ req.state \in {"learning", "forwarding"} \* mutated form
LearnTarget ==
    /\ req.call = "stp"
    /\ req.port \in members
    /\ req.state \in {"learning", "forwarding"}

SetLearning ==
    /\ pc = "learn"
    /\ LET new == IF LearnTarget THEN learn \cup {req.port} ELSE learn \ {req.port} IN
       \/ /\ learn' = new
          /\ IF req.call = "stp" THEN Return ELSE Goto("flush")
          /\ UNCHANGED <<fault, hurt>>
       \/ /\ learn' \in {learn, new}
          /\ BusFailure
    /\ UNCHANGED <<iso, stp, efid, lut, static, tag, bridge, members, sys, missed>>

(* rtl8365mb_uc_flush_port has come to the end of the table. *)
FlushDoneRewinds ==                                             \* mutated form
    IF req.call # "age" THEN Goto("efid")
    ELSE IF \A m \in Mac : lut[m] # req.port THEN Return
    ELSE pc' = "flush" /\ at' = 0 /\ UNCHANGED <<req, i>>
FlushDone == IF req.call = "age" THEN Return ELSE Goto("efid")

(* It has dealt with the entry at address m. *)
FlushPast(m) ==
    IF m = LutSize - 1
    THEN FlushDone
    ELSE pc' = "flush" /\ at' = m + 1 /\ UNCHANGED <<req, i>>

(* Joining and leaving remove static entries too, aging does not. *)
FlushesDynamicOnly(m) == m \notin static                       \* mutated form
Flushes(m) == req.call # "age" \/ m \notin static

OnPort(m) == lut[m] = req.port

(* One READ_UC_PORT: the next entry of the port at or after the cursor; a  *)
(* wrapped search and a miss both end the walk.                            *)
FlushRead ==
    /\ pc = "flush"
    /\ \/ /\ \E m \in at .. LutSize - 1 :
                /\ OnPort(m)
                /\ \A k \in at .. m - 1 : ~OnPort(k)
                /\ IF Flushes(m)
                   THEN pc' = "erase" /\ at' = m /\ UNCHANGED <<req, i>>
                   ELSE FlushPast(m)
          /\ UNCHANGED <<fault, hurt>>
       \/ /\ \A m \in at .. LutSize - 1 : ~OnPort(m)
          /\ FlushDone
          /\ UNCHANGED <<fault, hurt>>
       \/ BusFailure
    /\ UNCHANGED <<hw, bridge, members, sys, missed>>

(* The entry just read is written back with age zero, on whatever port the *)
(* switch has learned the address meanwhile.                               *)
FlushErase ==
    /\ pc = "erase"
    /\ \/ /\ Unlearn(at)
          /\ FlushPast(at)
          /\ UNCHANGED <<fault, hurt>>
       \/ /\ Unlearn(at) \/ UNCHANGED <<lut, static, tag>>
          /\ BusFailure
    /\ UNCHANGED <<iso, learn, stp, efid, bridge, members, sys, missed>>

(* rtl8365mb_uc_set_efid *)
SetEfid ==
    /\ pc = "efid"
    /\ LET new == [efid EXCEPT ![req.port] = IF req.call = "join" THEN UcEfid ELSE 0] IN
       \/ /\ efid' = new
          /\ pc' = "matrix" /\ i' = 0 /\ at' = 0 /\ UNCHANGED req
          /\ UNCHANGED <<fault, hurt>>
       \/ /\ efid' \in {efid, new}
          /\ BusFailure
    /\ UNCHANGED <<iso, learn, stp, lut, static, tag, bridge, members, sys, missed>>

(* The end of rtl8365mb_uc_bridge_leave *)
CommitLeaveKeepsBridge ==                                       \* mutated form
    /\ members' = NextMembers
    /\ bridge' = bridge
    /\ Return

CommitLeave ==
    /\ members' = NextMembers
    /\ bridge' = IF NextMembers = {} THEN NoBridge ELSE bridge
    /\ Return

(* rt3000_uc_program_peer_matrix, one port at a time *)
PeerMatrix ==
    /\ pc = "matrix"
    /\ LET new == [iso EXCEPT ![i] = PeerMask(NextMembers, i)] IN
       \/ /\ iso' = new
          /\ \/ /\ i < NPorts - 1
                /\ i' = i + 1
                /\ UNCHANGED <<pc, req, at, bridge, members>>
             \/ /\ i = NPorts - 1 /\ req.call = "join"
                /\ Goto("enable")
                /\ UNCHANGED <<bridge, members>>
             \/ /\ i = NPorts - 1 /\ req.call = "leave"
                /\ CommitLeave
          /\ UNCHANGED hurt
       \/ /\ iso' \in {iso, new}
          /\ pc' = "unwind" /\ i' = 0 /\ hurt' = 1
          /\ UNCHANGED <<req, at, bridge, members>>
    /\ UNCHANGED <<learn, stp, efid, lut, static, tag, fault, sys, missed>>

(* Its fault path, two writes a port: each is attempted, none is checked;  *)
(* the fault is then set and the caller calls fail_closed.                 *)
UnwindIsolation ==
    /\ pc = "unwind"
    /\ iso' \in {iso, [iso EXCEPT ![i] = {}]}
    /\ Goto("unlearn")
    /\ UNCHANGED <<learn, stp, efid, lut, static, tag, sw, sys, missed, hurt>>

UnwindLearning ==
    /\ pc = "unlearn"
    /\ learn' \in {learn, learn \ {i}}
    /\ \/ /\ i < NPorts - 1
          /\ pc' = "unwind" /\ i' = i + 1
          /\ UNCHANGED <<req, at, fault>>
       \/ /\ i = NPorts - 1
          /\ FailClosed
    /\ UNCHANGED <<iso, stp, efid, lut, static, tag, bridge, members, sys, missed, hurt>>

(* The end of rtl8365mb_uc_bridge_join: learning on, then the commit. *)
CommitJoinForgetsBridge ==                                      \* mutated form
    /\ members' = NextMembers
    /\ bridge' = bridge
    /\ linked' = [linked EXCEPT ![req.port] = req.br]
    /\ Return

CommitJoin ==
    /\ members' = NextMembers
    /\ bridge' = IF bridge = NoBridge THEN req.br ELSE bridge
    /\ linked' = [linked EXCEPT ![req.port] = req.br]
    /\ Return

EnableLearning ==
    /\ pc = "enable"
    /\ LET new == learn \cup {req.port} IN
       \/ /\ learn' = new
          /\ CommitJoin
          /\ UNCHANGED <<fault, hurt>>
       \/ /\ learn' \in {learn, new}
          /\ BusFailure
          /\ UNCHANGED <<bridge, members, linked>>
    /\ UNCHANGED <<iso, stp, efid, lut, static, tag, vlan, missed>>

(* The table write of rtl8365mb_uc_fdb_add_inner and _del_inner; a full    *)
(* bucket refuses an addition (-ENOSPC).                                   *)
TableWrite ==
    \/ req.call = "add" /\ Enter(req.mac, req.port, UcEfid) /\ static' = static \cup {req.mac}
    \/ req.call = "del" /\ Unlearn(req.mac)

FdbWrite ==
    /\ pc = "write"
    /\ \/ /\ TableWrite
          /\ Return
          /\ UNCHANGED <<fault, hurt>>
       \/ /\ req.call = "add" /\ lut[req.mac] = None
          /\ Return
          /\ UNCHANGED <<lut, static, tag, fault, hurt>>
       \/ /\ TableWrite \/ UNCHANGED <<lut, static, tag>>
          /\ BusFailure
    /\ UNCHANGED <<iso, learn, stp, efid, bridge, members, sys, missed>>

(* The lookup of rtl8365mb_uc_fdb_del_inner: an absent address, or one on  *)
(* another port, is left alone.                                            *)
FdbLookup ==
    /\ pc = "lookup"
    /\ \/ /\ lut[req.mac] # req.port
          /\ Return
          /\ UNCHANGED <<fault, hurt>>
       \/ /\ lut[req.mac] = req.port
          /\ Goto("write")
          /\ UNCHANGED <<fault, hurt>>
       \/ BusFailure
    /\ UNCHANGED <<hw, bridge, members, sys, missed>>

DumpRead ==
    /\ pc = "dump"
    /\ \/ Return /\ UNCHANGED <<fault, hurt>>
       \/ BusFailure
    /\ UNCHANGED <<hw, bridge, members, sys, missed>>

(* rtl8365mb_uc_fail_closed, three writes a port: the result of each is    *)
(* ignored, and it may be lost.                                            *)
Lost == missed' = missed \cup {i}

CloseIsolationSkipped ==                                        \* mutated form
    /\ pc = "close"
    /\ missed' = missed \ {i}
    /\ Goto("closeLearn")
    /\ UNCHANGED <<hw, sw, sys, hurt>>

CloseIsolation ==
    /\ pc = "close"
    /\ \/ iso' = [iso EXCEPT ![i] = {}] /\ missed' = missed \ {i}
       \/ UNCHANGED iso /\ Lost
    /\ Goto("closeLearn")
    /\ UNCHANGED <<learn, stp, efid, lut, static, tag, sw, sys, hurt>>

CloseLearning ==
    /\ pc = "closeLearn"
    /\ \/ learn' = learn \ {i} /\ UNCHANGED missed
       \/ UNCHANGED learn /\ Lost
    /\ Goto("closeStp")
    /\ UNCHANGED <<iso, stp, efid, lut, static, tag, sw, sys, hurt>>

CloseStp ==
    /\ pc = "closeStp"
    /\ \/ stp' = [stp EXCEPT ![i] = "blocking"] /\ UNCHANGED missed
       \/ UNCHANGED stp /\ Lost
    /\ \/ /\ i < NPorts - 1
          /\ pc' = "close" /\ i' = i + 1
          /\ UNCHANGED <<req, at>>
       \/ /\ i = NPorts - 1
          /\ Return
    /\ UNCHANGED <<iso, learn, efid, lut, static, tag, sw, sys, hurt>>

----------------------------------------------------------------------------
(* The switch by itself: a frame from address m arrives at port p, or an   *)
(* entry ages out.                                                         *)
HwLearn(m, p) ==
    /\ p \in learn
    /\ stp[p] \in {"learning", "forwarding"}
    /\ m \notin static
    /\ Enter(m, p, efid[p])
    /\ UNCHANGED <<iso, learn, stp, efid, static, sw, sys, pc, req, i, at, missed, hurt>>

HwAge(m) ==
    /\ lut[m] # None /\ m \notin static
    /\ Unlearn(m)
    /\ UNCHANGED <<iso, learn, stp, efid, sw, sys, pc, req, i, at, missed, hurt>>

(* The callback that holds uc_lock makes one access. *)
Access ==
    \/ SetStp \/ SetLearning \/ FlushRead \/ FlushErase \/ SetEfid \/ PeerMatrix
    \/ UnwindIsolation \/ UnwindLearning \/ EnableLearning \/ FdbWrite \/ FdbLookup
    \/ DumpRead \/ CloseIsolation \/ CloseLearning \/ CloseStp

Callback ==
    \/ \E p \in Ports :
          \/ \E b \in Bridge : BridgeJoin(p, b)
          \/ BridgeLeave(p)
          \/ \E s \in BrState : StpStateSet(p, s)
          \/ FastAge(p)
          \/ \E m \in Mac : FdbAdd(p, m) \/ FdbDel(p, m)
          \/ FdbDump(p)
    \/ \E b \in Bridge, on \in BOOLEAN : VlanFiltering(b, on)

Switch == \E m \in Mac : HwAge(m) \/ \E p \in Ports : HwLearn(m, p)

Next == Callback \/ Access \/ Switch

Spec == Init /\ [][Next]_vars

(* A callback that holds uc_lock keeps executing. *)
FairSpec == Spec /\ WF_vars(Access)

----------------------------------------------------------------------------
(* Properties *)

(* Every variable stays in the set of values the driver or the switch can  *)
(* give it.                                                                *)
TypeOK ==
    /\ iso \in [Ports -> SUBSET Ports]
    /\ learn \subseteq Ports
    /\ stp \in [Ports -> StpState]
    /\ efid \in [Ports -> {0, UcEfid}]
    /\ lut \in [Mac -> Ports \cup {None}]
    /\ static \subseteq Mac
    /\ tag \in [Mac -> {0, UcEfid}]
    /\ fault \in {0, 1}
    /\ bridge \in Bridge \cup {NoBridge}
    /\ members \subseteq Ports
    /\ linked \in [Ports -> Bridge \cup {NoBridge}]
    /\ vlan \in [Bridge -> BOOLEAN]
    /\ pc \in Stage
    /\ req \in Req
    /\ i \in Ports
    /\ at \in Mac
    /\ missed \subseteq Ports
    /\ hurt \in {0, 1}

(* The pairs of ports between which the switch forwards known unicast. *)
Flows ==
    {f \in Ports \X Ports : /\ f[2] \in iso[f[1]]
                            /\ stp[f[1]] = "forwarding" /\ stp[f[2]] = "forwarding"}

(* At every moment, in the middle of a join or leave and after any bus     *)
(* failure too, the switch forwards only between ports that are committed  *)
(* members of the offloaded bridge: a port that joins or leaves is blocked *)
(* before the isolation of any port changes.                               *)
OnlyMembersForward == Flows \subseteq members \X members

(* Between callbacks and without a fault the switch is configured for      *)
(* exactly the committed members: full mesh, own filtering database, and   *)
(* learning nowhere else.                                                  *)
ConfiguredForMembers ==
    pc = "idle" /\ fault = 0 =>
        /\ \A p, q \in Ports : q \in iso[p] <=> p # q /\ p \in members /\ q \in members
        /\ \A p \in Ports : efid[p] = UcEfid <=> p \in members
        /\ learn \subseteq members

(* Between callbacks and without a fault no address, static or learned,    *)
(* points to a port outside the bridge or sits in another filtering        *)
(* database, although the switch goes on learning while                    *)
(* rtl8365mb_uc_flush_port walks the table.                                *)
NoStaleAddress ==
    pc = "idle" /\ fault = 0 =>
        \A m \in Mac : lut[m] # None => lut[m] \in members /\ tag[m] = UcEfid

(* Once fail_closed is through, every port whose writes took effect is cut *)
(* off, does not learn and is blocked, and no later callback reopens it.   *)
FaultMeansClosed ==
    fault = 1 /\ pc \notin Shutting =>
        \A p \in Ports \ missed : iso[p] = {} /\ p \notin learn /\ stp[p] = "blocking"

(* The callbacks DSA makes never run into the driver's own -EINVAL guards: *)
(* only a failed access causes the terminal fault.                         *)
FaultNeedsFailure == fault = 1 => hurt = 1

(* Without a fault the driver and DSA agree between callbacks about which  *)
(* ports are in the bridge, and that bridge does not filter VLANs.         *)
AgreesWithBridge ==
    pc = "idle" /\ fault = 0 =>
        /\ \A p \in Ports : linked[p] = IF p \in members THEN bridge ELSE NoBridge
        /\ bridge = NoBridge <=> members = {}
        /\ bridge # NoBridge => ~vlan[bridge]

(* Every callback ends and gives up uc_lock, however much the switch       *)
(* learns while its table is being flushed.                                *)
CallbackEnds == pc # "idle" ~> pc = "idle"

Promise == INSTANCE PeerDomain WITH flows <- Flows

(* Seen from the bridge, joining and leaving are atomic, forwarding stays  *)
(* among the members, and after a fault membership is frozen and           *)
(* forwarding only ever shrinks.                                           *)
ImplementsPeerDomain == Promise!Spec

=============================================================================
