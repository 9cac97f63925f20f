--------------------------- MODULE UcOffloadProofs ---------------------------
(***************************************************************************)
(* Proofs about UcOffload, for any number of ports, any table size and any *)
(* set of bridges.  The inductive invariant says, for every stage of every *)
(* callback, how far the isolation matrix, the filtering databases and the *)
(* flush of the table have got.                                            *)
(***************************************************************************)
EXTENDS UcOffload, TLAPS

USE DEF Unwinding, Shutting

----------------------------------------------------------------------------
(* The inductive invariant *)

Moving == req.call \in {"join", "leave"}

(* A callback is at work and has met no failure. *)
Working == pc \notin {"idle"} \cup Shutting

(* Which callbacks a stage belongs to, and where cursors start. *)
Control ==
    /\ pc \in {"stp", "learn"} => Moving \/ req.call = "stp"
    /\ pc \in {"flush", "erase"} => Moving \/ req.call = "age"
    /\ pc \in {"efid", "matrix"} \cup Unwinding => Moving
    /\ pc = "enable" => req.call = "join"
    /\ pc = "write" => req.call \in {"add", "del"}
    /\ pc = "lookup" => req.call = "del"
    /\ pc = "dump" => req.call = "dump"
    /\ pc = "idle" => i = 0
    /\ pc \in {"idle", "stp", "learn"} => at = 0
    /\ pc = "idle" => req.call = "none"
    /\ Working => fault = 0
    /\ pc \in Shutting => fault = 1

(* What the checks of a callback have established stays true while it runs. *)
Checked ==
    Working =>
        /\ req.call = "join" => /\ req.port \notin members
                                /\ req.br \in Bridge /\ bridge \in {NoBridge, req.br}
                                /\ vlan[req.br] = FALSE
        /\ req.call = "leave" => req.port \in members /\ bridge = req.br
        /\ req.call \in {"age", "add", "del", "dump"} => req.port \in members

(* The driver and DSA agree about the bridge. *)
Links ==
    fault = 0 =>
        /\ \A p \in Ports :
              linked[p] = IF p \in members /\ ~(req.call = "leave" /\ p = req.port)
                          THEN bridge ELSE NoBridge
        /\ bridge = NoBridge <=> members = {}
        /\ bridge # NoBridge => vlan[bridge] = FALSE

(* A port that joins or leaves is blocked and then stops learning. *)
Blocked ==
    Moving =>
        /\ pc \in {"learn", "flush", "erase", "efid", "matrix", "enable"} \cup Unwinding
              => stp[req.port] = "blocking"
        /\ pc \in {"flush", "erase", "efid", "matrix", "enable"} \cup Unwinding
              => req.port \notin learn

LearnInside == fault = 0 => learn \subseteq members

(* How far rt3000_uc_program_peer_matrix has got. *)
Mesh ==
    fault = 0 =>
        /\ pc \notin {"matrix", "enable"} \cup Unwinding
              => \A p \in Ports : iso[p] = PeerMask(members, p)
        /\ pc = "matrix"
              => \A p \in Ports : iso[p] = PeerMask(IF p < i THEN NextMembers ELSE members, p)
        /\ pc = "enable"
              => \A p \in Ports : iso[p] = PeerMask(NextMembers, p)
        /\ pc \in Unwinding
              => \A p, q \in Ports : q \in iso[p] =>
                    p \in members \cup {req.port} /\ q \in members \cup {req.port}

(* Isolation never joins a port that is neither a member nor blocked. *)
Fenced ==
    \A p, q \in Ports : q \in iso[p] =>
        /\ p \in members \/ stp[p] = "blocking"
        /\ q \in members \/ stp[q] = "blocking"

Databases ==
    fault = 0 => \A p \in Ports :
        efid[p] = UcEfid <=>
            p \in IF pc \in {"matrix", "enable"} \cup Unwinding THEN NextMembers ELSE members

(* How far the flush of a port that joins or leaves has got. *)
Table ==
    fault = 0 =>
        /\ \A m \in Mac : lut[m] # None => lut[m] \in members /\ tag[m] = UcEfid
        /\ Moving /\ pc \in {"flush", "erase"} => \A m \in Mac : m < at => lut[m] # req.port
        /\ Moving /\ pc \in {"efid", "matrix", "enable"} => \A m \in Mac : lut[m] # req.port

Shut(p) == iso[p] = {} /\ p \notin learn /\ stp[p] = "blocking"

(* How far fail_closed has got. *)
Closing ==
    fault = 1 => \A p \in Ports \ missed :
        /\ pc \notin Shutting \/ p < i => Shut(p)
        /\ pc \in {"closeLearn", "closeStp"} /\ p = i => iso[p] = {}
        /\ pc = "closeStp" /\ p = i => p \notin learn

Blame == fault = 1 \/ pc \in Unwinding => hurt = 1

Safe ==
    /\ Control /\ Checked /\ Links /\ Blocked /\ LearnInside /\ Mesh /\ Fenced
    /\ Databases /\ Table /\ Closing /\ Blame

Inv == TypeOK /\ Safe

----------------------------------------------------------------------------
(* Types *)

(* The request of a callback, field by field. *)
LEMMA Request ==
    ASSUME NEW c \in Calls, NEW p \in Ports, NEW b \in Bridge \cup {NoBridge},
           NEW s \in BrState, NEW m \in Mac
    PROVE  LET r == Ask(c, p, b, s, m)
           IN  /\ r \in Req
               /\ r.call = c /\ r.port = p /\ r.br = b /\ r.state = s /\ r.mac = m
BY DEF Ask, Req

LEMMA Zero == 0 \in Ports /\ 0 \in Mac
BY NPortsAssumption, LutAssumption DEF Ports, Mac

LEMMA NoRequest == NoReq \in Req /\ NoReq.call = "none"
BY Request, Zero DEF NoReq, Calls, BrState

LEMMA TypeInit == Init => TypeOK
BY Zero, NoRequest DEF Init, TypeOK, None, UcEfid, StpState, Stage

(* The building blocks keep the types of the variables they set. *)
LEMMA BlockTypes ==
    ASSUME TypeOK, NEW l \in Stage
    PROVE  /\ Return => pc' \in Stage /\ req' \in Req /\ i' \in Ports /\ at' \in Mac
           /\ Goto(l) => pc' \in Stage /\ req' \in Req /\ i' \in Ports /\ at' \in Mac
           /\ FailClosed => /\ pc' \in Stage /\ req' \in Req /\ i' \in Ports /\ at' \in Mac
                           /\ fault' \in {0, 1}
           /\ BusFailure => /\ pc' \in Stage /\ req' \in Req /\ i' \in Ports /\ at' \in Mac
                           /\ fault' \in {0, 1} /\ hurt' \in {0, 1}
           /\ \A m \in Mac : FlushPast(m) =>
                 pc' \in Stage /\ req' \in Req /\ i' \in Ports /\ at' \in Mac
           /\ FlushDone => pc' \in Stage /\ req' \in Req /\ i' \in Ports /\ at' \in Mac
           /\ i < NPorts - 1 => i + 1 \in Ports
BY Zero, NoRequest, NPortsAssumption, LutAssumption
   DEF TypeOK, Return, Goto, FailClosed, BusFailure, FlushPast, FlushDone, Stage, Mac, Ports

LEMMA TableTypes ==
    ASSUME TypeOK, NEW m \in Mac, NEW p \in Ports, NEW e \in {0, UcEfid}
    PROVE  /\ Unlearn(m) => /\ lut' \in [Mac -> Ports \cup {None}]
                            /\ static' \subseteq Mac /\ tag' \in [Mac -> {0, UcEfid}]
           /\ Enter(m, p, e) => /\ lut' \in [Mac -> Ports \cup {None}]
                               /\ tag' \in [Mac -> {0, UcEfid}]
BY DEF TypeOK, Unlearn, Enter, None, UcEfid

LEMMA CallTypes ==
    ASSUME TypeOK, NEW c \in Calls, NEW p \in Ports, NEW b \in Bridge \cup {NoBridge},
           NEW s \in BrState, NEW m \in Mac, NEW l \in Stage, Call(Ask(c, p, b, s, m), l)
    PROVE  pc' \in Stage /\ req' \in Req /\ i' \in Ports /\ at' \in Mac
BY Request DEF Call, TypeOK

LEMMA CallbackTypes ==
    ASSUME TypeOK, Callback
    PROVE  TypeOK'
<1> USE Zero DEF TypeOK, hw, sw, sys, Stage
<1>1. ASSUME NEW p \in Ports, NEW b \in Bridge, BridgeJoin(p, b) PROVE TypeOK'
    BY <1>1, CallTypes DEF BridgeJoin, Calls, BrState
<1>2. ASSUME NEW p \in Ports, BridgeLeave(p) PROVE TypeOK'
    <2>1. linked[p] \in Bridge \cup {NoBridge} /\ linked' \in [Ports -> Bridge \cup {NoBridge}]
        BY <1>2 DEF BridgeLeave
    <2>2. Ask("leave", p, linked[p], "blocking", 0) \in Req
        <3>1. "leave" \in Calls /\ "blocking" \in BrState /\ 0 \in Mac
            BY DEF Calls, BrState
        <3> QED
            BY <2>1, <3>1, Request
    <2>3. /\ pc' \in {"stp", "close"}
          /\ req' \in {Ask("leave", p, linked[p], "blocking", 0), NoReq}
          /\ UNCHANGED <<i, at>>
        BY <1>2 DEF BridgeLeave, Call
    <2>4. fault' \in {0, 1}
        BY <1>2 DEF BridgeLeave
    <2> QED
        BY <1>2, <2>1, <2>2, <2>3, <2>4, NoRequest DEF BridgeLeave
<1>3. ASSUME NEW p \in Ports, NEW s \in BrState, StpStateSet(p, s) PROVE TypeOK'
    <2>1. Ask("stp", p, NoBridge, s, 0) \in Req
        BY Request DEF Calls
    <2> QED
        BY <1>3, <2>1 DEF StpStateSet, Call
<1>4. ASSUME NEW p \in Ports, FastAge(p) PROVE TypeOK'
    BY <1>4, CallTypes DEF FastAge, Calls, BrState
<1>5. ASSUME NEW p \in Ports, NEW m \in Mac, FdbAdd(p, m) PROVE TypeOK'
    BY <1>5, CallTypes DEF FdbAdd, Calls, BrState
<1>6. ASSUME NEW p \in Ports, NEW m \in Mac, FdbDel(p, m) PROVE TypeOK'
    BY <1>6, CallTypes DEF FdbDel, Calls, BrState
<1>7. ASSUME NEW p \in Ports, FdbDump(p) PROVE TypeOK'
    BY <1>7, CallTypes DEF FdbDump, Calls, BrState
<1>8. ASSUME NEW b \in Bridge, NEW on \in BOOLEAN, VlanFiltering(b, on) PROVE TypeOK'
    BY <1>8, BlockTypes DEF VlanFiltering
<1> QED
    BY <1>1, <1>2, <1>3, <1>4, <1>5, <1>6, <1>7, <1>8 DEF Callback

LEMMA AccessTypes ==
    ASSUME TypeOK, Access
    PROVE  TypeOK'
<1> USE BlockTypes DEF TypeOK, hw, sw, sys
<1>1. CASE SetStp
    <2>1. req.port \in Ports /\ StpTarget \in StpState
        BY DEF StpTarget, HwStp, StpState, BrState, Req
    <2>2. stp' \in [Ports -> StpState]
        BY <1>1, <2>1 DEF SetStp
    <2>3. fault' \in {0, 1} /\ hurt' \in {0, 1}
        BY <1>1 DEF SetStp, Stage
    <2> QED
        BY <1>1, <2>2, <2>3 DEF SetStp, Stage
<1>2. CASE SetLearning
    <2>1. learn' \subseteq Ports
        BY <1>2 DEF SetLearning, Req
    <2>2. fault' \in {0, 1} /\ hurt' \in {0, 1}
        BY <1>2 DEF SetLearning, Stage
    <2> QED
        BY <1>2, <2>1, <2>2 DEF SetLearning, Stage
<1>3. CASE FlushRead
    BY <1>3, Zero, TableTypes DEF FlushRead, Stage, Mac
<1>4. CASE FlushErase
    BY <1>4, Zero, TableTypes DEF FlushErase, Stage
<1>5. CASE SetEfid
    BY <1>5, Zero, TableTypes DEF SetEfid, Stage, UcEfid
<1>6. CASE PeerMatrix
    BY <1>6, Zero, TableTypes DEF PeerMatrix, Stage, PeerMask, NextMembers, CommitLeave, Req
<1>7. CASE UnwindIsolation \/ UnwindLearning
    BY <1>7, Zero, TableTypes DEF UnwindIsolation, UnwindLearning, Stage
<1>8. CASE EnableLearning
    BY <1>8, Zero, TableTypes DEF EnableLearning, Stage, CommitJoin, NextMembers, Req
<1>9. CASE FdbWrite
    BY <1>9, Zero, TableTypes DEF FdbWrite, Stage, TableWrite, Req, UcEfid
<1>10. CASE FdbLookup
    BY <1>10, Zero, TableTypes DEF FdbLookup, Stage
<1>11. CASE DumpRead
    BY <1>11, Zero, TableTypes DEF DumpRead, Stage
<1>12. CASE CloseIsolation \/ CloseLearning
    BY <1>12, Zero, TableTypes DEF CloseIsolation, CloseLearning, Stage, Lost
<1>13. CASE CloseStp
    BY <1>13, Zero, TableTypes DEF CloseStp, Stage, Lost, StpState
<1> QED
    BY <1>1, <1>2, <1>3, <1>4, <1>5, <1>6, <1>7, <1>8, <1>9, <1>10, <1>11, <1>12, <1>13
       DEF Access

LEMMA SwitchTypes ==
    ASSUME TypeOK, Switch
    PROVE  TypeOK'
<1>1. ASSUME NEW m \in Mac, NEW p \in Ports, HwLearn(m, p) PROVE TypeOK'
    BY <1>1, TableTypes DEF HwLearn, TypeOK, sw, sys
<1>2. ASSUME NEW m \in Mac, HwAge(m) PROVE TypeOK'
    BY <1>2, TableTypes, Zero DEF HwAge, TypeOK, sw, sys, UcEfid
<1> QED
    BY <1>1, <1>2 DEF Switch

LEMMA TypeNext == TypeOK /\ [Next]_vars => TypeOK'
<1>1. ASSUME TypeOK, UNCHANGED vars PROVE TypeOK'
    BY <1>1 DEF vars, TypeOK
<1> QED
    BY <1>1, CallbackTypes, AccessTypes, SwitchTypes DEF Next

----------------------------------------------------------------------------
(* The invariant: callbacks *)

LEMMA BridgeJoinSafe == ASSUME Inv, NEW p \in Ports, NEW b \in Bridge, BridgeJoin(p, b) PROVE Safe'
<1> USE DEF Inv, Safe, TypeOK
<1>1. /\ pc = "idle" /\ pc' = "stp"
      /\ req'.call = "join" /\ req'.port = p /\ req'.br = b
      /\ i' = i /\ at' = at
    BY DEF BridgeJoin, Call, Ask
<1>2. UNCHANGED <<iso, learn, stp, efid, lut, tag, fault, bridge, members, linked, vlan, missed, hurt>>
    BY DEF BridgeJoin, hw, sw, sys
<1>3. Control'
    BY <1>1, <1>2 DEF BridgeJoin, Control, Moving, Working
<1>4. Checked'
    BY <1>1, <1>2 DEF BridgeJoin, Checked, Control, Links, Moving, Working
<1>5. Links'
    BY <1>1, <1>2 DEF BridgeJoin, Links, Control, Checked, Working
<1>6. Blocked'
    BY <1>1, <1>2 DEF BridgeJoin, Blocked, Control, Moving
<1>7. LearnInside'
    BY <1>1, <1>2 DEF BridgeJoin, LearnInside, Control, Checked, Blocked, Moving, Working
<1>8. Mesh'
    BY <1>1, <1>2 DEF BridgeJoin, Mesh, Control, Checked, Moving, Working, PeerMask, NextMembers
<1>9. Fenced'
    BY <1>1, <1>2 DEF BridgeJoin, Fenced, Control, Checked, Mesh, Blocked, Moving, Working, PeerMask, NextMembers
<1>10. Databases'
    BY <1>1, <1>2 DEF BridgeJoin, Databases, Control, Checked, Moving, Working, NextMembers
<1>11. Table'
    BY <1>1, <1>2 DEF BridgeJoin, Table, Control, Checked, LearnInside, Databases, Blocked, Moving, Working, NextMembers
<1>12. Closing'
    BY <1>1, <1>2 DEF BridgeJoin, Closing, Control, Shut, Working
<1>13. Blame'
    BY <1>1, <1>2 DEF BridgeJoin, Blame, Control, Working
<1> QED
    BY <1>3, <1>4, <1>5, <1>6, <1>7, <1>8, <1>9, <1>10, <1>11, <1>12, <1>13

LEMMA StpStateSetSafe == ASSUME Inv, NEW p \in Ports, NEW s \in BrState, StpStateSet(p, s) PROVE Safe'
<1> USE DEF Inv, Safe, TypeOK
<1>1. /\ pc = "idle" /\ pc' = "stp"
      /\ req'.call = "stp" /\ req'.port = p /\ req'.br = NoBridge
      /\ i' = i /\ at' = at
    BY DEF StpStateSet, Call, Ask
<1>2. UNCHANGED <<iso, learn, stp, efid, lut, tag, fault, bridge, members, linked, vlan, missed, hurt>>
    BY DEF StpStateSet, hw, sw, sys
<1>3. Control'
    BY <1>1, <1>2 DEF StpStateSet, Control, Moving, Working
<1>4. Checked'
    BY <1>1, <1>2 DEF StpStateSet, Checked, Control, Links, Moving, Working
<1>5. Links'
    BY <1>1, <1>2 DEF StpStateSet, Links, Control, Checked, Working
<1>6. Blocked'
    BY <1>1, <1>2 DEF StpStateSet, Blocked, Control, Moving
<1>7. LearnInside'
    BY <1>1, <1>2 DEF StpStateSet, LearnInside, Control, Checked, Blocked, Moving, Working
<1>8. Mesh'
    BY <1>1, <1>2 DEF StpStateSet, Mesh, Control, Checked, Moving, Working, PeerMask, NextMembers
<1>9. Fenced'
    BY <1>1, <1>2 DEF StpStateSet, Fenced, Control, Checked, Mesh, Blocked, Moving, Working, PeerMask, NextMembers
<1>10. Databases'
    BY <1>1, <1>2 DEF StpStateSet, Databases, Control, Checked, Moving, Working, NextMembers
<1>11. Table'
    BY <1>1, <1>2 DEF StpStateSet, Table, Control, Checked, LearnInside, Databases, Blocked, Moving, Working, NextMembers
<1>12. Closing'
    BY <1>1, <1>2 DEF StpStateSet, Closing, Control, Shut, Working
<1>13. Blame'
    BY <1>1, <1>2 DEF StpStateSet, Blame, Control, Working
<1> QED
    BY <1>3, <1>4, <1>5, <1>6, <1>7, <1>8, <1>9, <1>10, <1>11, <1>12, <1>13

LEMMA FastAgeSafe == ASSUME Inv, NEW p \in Ports, FastAge(p) PROVE Safe'
<1> USE DEF Inv, Safe, TypeOK
<1>1. /\ pc = "idle" /\ pc' = "flush"
      /\ req'.call = "age" /\ req'.port = p /\ req'.br = NoBridge
      /\ i' = i /\ at' = at
    BY DEF FastAge, Call, Ask
<1>2. UNCHANGED <<iso, learn, stp, efid, lut, tag, fault, bridge, members, linked, vlan, missed, hurt>>
    BY DEF FastAge, hw, sw, sys
<1>3. Control'
    BY <1>1, <1>2 DEF FastAge, Control, Moving, Working
<1>4. Checked'
    BY <1>1, <1>2 DEF FastAge, Checked, Control, Links, Moving, Working
<1>5. Links'
    BY <1>1, <1>2 DEF FastAge, Links, Control, Checked, Working
<1>6. Blocked'
    BY <1>1, <1>2 DEF FastAge, Blocked, Control, Moving
<1>7. LearnInside'
    BY <1>1, <1>2 DEF FastAge, LearnInside, Control, Checked, Blocked, Moving, Working
<1>8. Mesh'
    BY <1>1, <1>2 DEF FastAge, Mesh, Control, Checked, Moving, Working, PeerMask, NextMembers
<1>9. Fenced'
    BY <1>1, <1>2 DEF FastAge, Fenced, Control, Checked, Mesh, Blocked, Moving, Working, PeerMask, NextMembers
<1>10. Databases'
    BY <1>1, <1>2 DEF FastAge, Databases, Control, Checked, Moving, Working, NextMembers
<1>11. Table'
    BY <1>1, <1>2 DEF FastAge, Table, Control, Checked, LearnInside, Databases, Blocked, Moving, Working, NextMembers
<1>12. Closing'
    BY <1>1, <1>2 DEF FastAge, Closing, Control, Shut, Working
<1>13. Blame'
    BY <1>1, <1>2 DEF FastAge, Blame, Control, Working
<1> QED
    BY <1>3, <1>4, <1>5, <1>6, <1>7, <1>8, <1>9, <1>10, <1>11, <1>12, <1>13

LEMMA FdbAddSafe == ASSUME Inv, NEW p \in Ports, NEW m \in Mac, FdbAdd(p, m) PROVE Safe'
<1> USE DEF Inv, Safe, TypeOK
<1>1. /\ pc = "idle" /\ pc' = "write"
      /\ req'.call = "add" /\ req'.port = p /\ req'.br = NoBridge
      /\ i' = i /\ at' = at
    BY DEF FdbAdd, Call, Ask
<1>2. UNCHANGED <<iso, learn, stp, efid, lut, tag, fault, bridge, members, linked, vlan, missed, hurt>>
    BY DEF FdbAdd, hw, sw, sys
<1>3. Control'
    BY <1>1, <1>2 DEF FdbAdd, Control, Moving, Working
<1>4. Checked'
    BY <1>1, <1>2 DEF FdbAdd, Checked, Control, Links, Moving, Working
<1>5. Links'
    BY <1>1, <1>2 DEF FdbAdd, Links, Control, Checked, Working
<1>6. Blocked'
    BY <1>1, <1>2 DEF FdbAdd, Blocked, Control, Moving
<1>7. LearnInside'
    BY <1>1, <1>2 DEF FdbAdd, LearnInside, Control, Checked, Blocked, Moving, Working
<1>8. Mesh'
    BY <1>1, <1>2 DEF FdbAdd, Mesh, Control, Checked, Moving, Working, PeerMask, NextMembers
<1>9. Fenced'
    BY <1>1, <1>2 DEF FdbAdd, Fenced, Control, Checked, Mesh, Blocked, Moving, Working, PeerMask, NextMembers
<1>10. Databases'
    BY <1>1, <1>2 DEF FdbAdd, Databases, Control, Checked, Moving, Working, NextMembers
<1>11. Table'
    BY <1>1, <1>2 DEF FdbAdd, Table, Control, Checked, LearnInside, Databases, Blocked, Moving, Working, NextMembers
<1>12. Closing'
    BY <1>1, <1>2 DEF FdbAdd, Closing, Control, Shut, Working
<1>13. Blame'
    BY <1>1, <1>2 DEF FdbAdd, Blame, Control, Working
<1> QED
    BY <1>3, <1>4, <1>5, <1>6, <1>7, <1>8, <1>9, <1>10, <1>11, <1>12, <1>13

LEMMA FdbDelSafe == ASSUME Inv, NEW p \in Ports, NEW m \in Mac, FdbDel(p, m) PROVE Safe'
<1> USE DEF Inv, Safe, TypeOK
<1>1. /\ pc = "idle" /\ pc' = "lookup"
      /\ req'.call = "del" /\ req'.port = p /\ req'.br = NoBridge
      /\ i' = i /\ at' = at
    BY DEF FdbDel, Call, Ask
<1>2. UNCHANGED <<iso, learn, stp, efid, lut, tag, fault, bridge, members, linked, vlan, missed, hurt>>
    BY DEF FdbDel, hw, sw, sys
<1>3. Control'
    BY <1>1, <1>2 DEF FdbDel, Control, Moving, Working
<1>4. Checked'
    BY <1>1, <1>2 DEF FdbDel, Checked, Control, Links, Moving, Working
<1>5. Links'
    BY <1>1, <1>2 DEF FdbDel, Links, Control, Checked, Working
<1>6. Blocked'
    BY <1>1, <1>2 DEF FdbDel, Blocked, Control, Moving
<1>7. LearnInside'
    BY <1>1, <1>2 DEF FdbDel, LearnInside, Control, Checked, Blocked, Moving, Working
<1>8. Mesh'
    BY <1>1, <1>2 DEF FdbDel, Mesh, Control, Checked, Moving, Working, PeerMask, NextMembers
<1>9. Fenced'
    BY <1>1, <1>2 DEF FdbDel, Fenced, Control, Checked, Mesh, Blocked, Moving, Working, PeerMask, NextMembers
<1>10. Databases'
    BY <1>1, <1>2 DEF FdbDel, Databases, Control, Checked, Moving, Working, NextMembers
<1>11. Table'
    BY <1>1, <1>2 DEF FdbDel, Table, Control, Checked, LearnInside, Databases, Blocked, Moving, Working, NextMembers
<1>12. Closing'
    BY <1>1, <1>2 DEF FdbDel, Closing, Control, Shut, Working
<1>13. Blame'
    BY <1>1, <1>2 DEF FdbDel, Blame, Control, Working
<1> QED
    BY <1>3, <1>4, <1>5, <1>6, <1>7, <1>8, <1>9, <1>10, <1>11, <1>12, <1>13

LEMMA FdbDumpSafe == ASSUME Inv, NEW p \in Ports, FdbDump(p) PROVE Safe'
<1> USE DEF Inv, Safe, TypeOK
<1>1. /\ pc = "idle" /\ pc' = "dump"
      /\ req'.call = "dump" /\ req'.port = p /\ req'.br = NoBridge
      /\ i' = i /\ at' = at
    BY DEF FdbDump, Call, Ask
<1>2. UNCHANGED <<iso, learn, stp, efid, lut, tag, fault, bridge, members, linked, vlan, missed, hurt>>
    BY DEF FdbDump, hw, sw, sys
<1>3. Control'
    BY <1>1, <1>2 DEF FdbDump, Control, Moving, Working
<1>4. Checked'
    BY <1>1, <1>2 DEF FdbDump, Checked, Control, Links, Moving, Working
<1>5. Links'
    BY <1>1, <1>2 DEF FdbDump, Links, Control, Checked, Working
<1>6. Blocked'
    BY <1>1, <1>2 DEF FdbDump, Blocked, Control, Moving
<1>7. LearnInside'
    BY <1>1, <1>2 DEF FdbDump, LearnInside, Control, Checked, Blocked, Moving, Working
<1>8. Mesh'
    BY <1>1, <1>2 DEF FdbDump, Mesh, Control, Checked, Moving, Working, PeerMask, NextMembers
<1>9. Fenced'
    BY <1>1, <1>2 DEF FdbDump, Fenced, Control, Checked, Mesh, Blocked, Moving, Working, PeerMask, NextMembers
<1>10. Databases'
    BY <1>1, <1>2 DEF FdbDump, Databases, Control, Checked, Moving, Working, NextMembers
<1>11. Table'
    BY <1>1, <1>2 DEF FdbDump, Table, Control, Checked, LearnInside, Databases, Blocked, Moving, Working, NextMembers
<1>12. Closing'
    BY <1>1, <1>2 DEF FdbDump, Closing, Control, Shut, Working
<1>13. Blame'
    BY <1>1, <1>2 DEF FdbDump, Blame, Control, Working
<1> QED
    BY <1>3, <1>4, <1>5, <1>6, <1>7, <1>8, <1>9, <1>10, <1>11, <1>12, <1>13

LEMMA BridgeLeaveSafe == ASSUME Inv, NEW p \in Ports, BridgeLeave(p) PROVE Safe'
<1> USE DEF Inv, Safe, TypeOK
<1>1. /\ pc = "idle" /\ pc' \in {"stp", "close"}
      /\ pc' = "stp" => req'.call = "leave" /\ req'.port = p /\ req'.br = linked[p]
      /\ pc' = "close" => req'.call = "none"
      /\ i' = i /\ at' = at
    BY NoRequest DEF BridgeLeave, Call, Ask
<1>2. UNCHANGED <<iso, learn, stp, efid, lut, tag, bridge, members, vlan, missed, hurt>>
    BY DEF BridgeLeave, hw, sw, sys
<1>3. \/ /\ fault = 0 /\ fault' = 0 /\ pc' = "stp" /\ bridge = linked[p] /\ p \in members
      \/ /\ fault' = 1 /\ pc' = "close" /\ (fault # 0 \/ bridge # linked[p] \/ p \notin members)
    BY DEF BridgeLeave, Call
<1>4. fault = 0 => bridge = linked[p] /\ p \in members
    BY <1>1 DEF BridgeLeave, Links, Control
<1>5. Control'
    BY <1>1, <1>2, <1>3, <1>4 DEF BridgeLeave, Control, Moving, Working
<1>6. Checked'
    BY <1>1, <1>2, <1>3, <1>4 DEF BridgeLeave, Checked, Control, Links, Moving, Working
<1>7. Links'
    BY <1>1, <1>2, <1>3, <1>4 DEF BridgeLeave, Links, Control, Checked, Working
<1>8. Blocked'
    BY <1>1, <1>2, <1>3, <1>4 DEF BridgeLeave, Blocked, Control, Moving
<1>9. LearnInside'
    BY <1>1, <1>2, <1>3, <1>4 DEF BridgeLeave, LearnInside, Control, Checked, Blocked, Moving, Working
<1>10. Mesh'
    BY <1>1, <1>2, <1>3, <1>4 DEF BridgeLeave, Mesh, Control, Checked, Moving, Working, PeerMask, NextMembers
<1>11. Fenced'
    BY <1>1, <1>2, <1>3, <1>4 DEF BridgeLeave, Fenced, Control, Checked, Mesh, Blocked, Moving, Working, PeerMask, NextMembers
<1>12. Databases'
    BY <1>1, <1>2, <1>3, <1>4 DEF BridgeLeave, Databases, Control, Checked, Moving, Working, NextMembers
<1>13. Table'
    BY <1>1, <1>2, <1>3, <1>4 DEF BridgeLeave, Table, Control, Checked, LearnInside, Databases, Blocked, Moving, Working, NextMembers
<1>14. Closing'
    BY <1>1, <1>2, <1>3, <1>4 DEF BridgeLeave, Closing, Control, Shut, Working
<1>15. Blame'
    BY <1>1, <1>2, <1>3, <1>4 DEF BridgeLeave, Blame, Control, Working
<1> QED
    BY <1>5, <1>6, <1>7, <1>8, <1>9, <1>10, <1>11, <1>12, <1>13, <1>14, <1>15

LEMMA VlanFilteringSafe ==
    ASSUME Inv, NEW b \in Bridge, NEW on \in BOOLEAN, VlanFiltering(b, on)
    PROVE  Safe'
<1> USE DEF Inv, Safe, TypeOK
<1>1. /\ pc = "idle" /\ ~VlanRefused(b, on) /\ vlan' = [vlan EXCEPT ![b] = on]
      /\ UNCHANGED <<iso, learn, stp, efid, lut, tag, fault, bridge, members, linked,
                     pc, req, i, at, missed, hurt>>
    BY DEF VlanFiltering, hw, sw
<1>2. Control'
    BY <1>1 DEF Control, Moving, Working
<1>3. Checked'
    BY <1>1 DEF Checked, Control, Links, Moving, Working
<1>4. Links'
    BY <1>1 DEF Links, Control, Checked, Working, VlanRefused
<1>5. Blocked'
    BY <1>1 DEF Blocked, Control, Moving
<1>6. LearnInside'
    BY <1>1 DEF LearnInside, Control, Checked, Blocked, Moving, Working
<1>7. Mesh'
    BY <1>1 DEF Mesh, Control, Checked, Moving, Working, PeerMask, NextMembers
<1>8. Fenced'
    BY <1>1 DEF Fenced, Control, Checked, Mesh, Blocked, Moving, Working, PeerMask, NextMembers
<1>9. Databases'
    BY <1>1 DEF Databases, Control, Checked, Moving, Working, NextMembers
<1>10. Table'
    BY <1>1 DEF Table, Control, Checked, LearnInside, Databases, Blocked, Moving, Working, NextMembers
<1>11. Closing'
    BY <1>1 DEF Closing, Control, Shut, Working
<1>12. Blame'
    BY <1>1 DEF Blame, Control, Working
<1> QED
    BY <1>2, <1>3, <1>4, <1>5, <1>6, <1>7, <1>8, <1>9, <1>10, <1>11, <1>12

----------------------------------------------------------------------------
(* The invariant: accesses *)

(* The step that sets the fault has yet to close every port. *)
LEMMA FaultBegins ==
    ASSUME Inv, Working, fault' = fault \/ (pc' = "close" /\ i' = 0)
    PROVE  Closing'
BY DEF Inv, Safe, Control, Working, Closing, Ports

LEMMA SetStpSafe == ASSUME Inv, SetStp PROVE Safe'
<1> USE NoRequest DEF Inv, Safe, TypeOK, Goto, Return, FailClosed, BusFailure, hw, sw, sys
<1>1. Control'
    BY DEF SetStp, StpTarget, HwStp, StpState, BrState, Req, Control, Moving, Working
<1>2. Checked'
    BY DEF SetStp, StpTarget, HwStp, StpState, BrState, Req, Checked, Control, Links, Moving, Working
<1>3. Links'
    BY DEF SetStp, StpTarget, HwStp, StpState, BrState, Req, Links, Control, Checked, Working
<1>4. Blocked'
    BY DEF SetStp, StpTarget, HwStp, StpState, BrState, Req, Blocked, Control, Moving
<1>5. LearnInside'
    BY DEF SetStp, StpTarget, HwStp, StpState, BrState, Req, LearnInside, Control, Checked, Blocked, Moving, Working
<1>6. Mesh'
    BY DEF SetStp, StpTarget, HwStp, StpState, BrState, Req, Mesh, Control, Checked, Moving, Working, PeerMask, NextMembers
<1>7. Fenced'
    BY DEF SetStp, StpTarget, HwStp, StpState, BrState, Req, Fenced, Control, Checked, Mesh, Blocked, Moving, Working, PeerMask, NextMembers
<1>8. Databases'
    BY DEF SetStp, StpTarget, HwStp, StpState, BrState, Req, Databases, Control, Checked, Moving, Working, NextMembers
<1>9. Table'
    BY DEF SetStp, StpTarget, HwStp, StpState, BrState, Req, Table, Control, Checked, LearnInside, Databases, Blocked, Moving, Working, NextMembers
<1>10. Closing'
    BY FaultBegins DEF SetStp, Working
<1>11. Blame'
    BY DEF SetStp, StpTarget, HwStp, StpState, BrState, Req, Blame, Control, Working
<1> QED
    BY <1>1, <1>2, <1>3, <1>4, <1>5, <1>6, <1>7, <1>8, <1>9, <1>10, <1>11

LEMMA SetLearningSafe == ASSUME Inv, SetLearning PROVE Safe'
<1> USE NoRequest DEF Inv, Safe, TypeOK, Goto, Return, FailClosed, BusFailure, hw, sw, sys
<1>1. Control'
    BY DEF SetLearning, LearnTarget, Req, Control, Moving, Working
<1>2. Checked'
    BY DEF SetLearning, LearnTarget, Req, Checked, Control, Links, Moving, Working
<1>3. Links'
    BY DEF SetLearning, LearnTarget, Req, Links, Control, Checked, Working
<1>4. Blocked'
    BY DEF SetLearning, LearnTarget, Req, Blocked, Control, Moving
<1>5. LearnInside'
    BY DEF SetLearning, LearnTarget, Req, LearnInside, Control, Checked, Blocked, Moving, Working
<1>6. Mesh'
    BY DEF SetLearning, LearnTarget, Req, Mesh, Control, Checked, Moving, Working, PeerMask, NextMembers
<1>7. Fenced'
    BY DEF SetLearning, LearnTarget, Req, Fenced, Control, Checked, Mesh, Blocked, Moving, Working, PeerMask, NextMembers
<1>8. Databases'
    BY DEF SetLearning, LearnTarget, Req, Databases, Control, Checked, Moving, Working, NextMembers
<1>9. Table'
    <2>1. pc' \in {"idle", "flush", "close"} /\ (pc' = "flush" => Moving /\ at' = 0 /\ req' = req)
        BY DEF SetLearning, Control, Moving
    <2>2. UNCHANGED <<lut, tag, members>> /\ fault = 0
        BY DEF SetLearning, Control, Working
    <2>3. pc' = "flush" => \A m \in Mac : ~(m < at')
        BY <2>1 DEF Mac
    <2> QED
        BY <2>1, <2>2, <2>3 DEF Table
<1>10. Closing'
    BY FaultBegins DEF SetLearning, Working
<1>11. Blame'
    BY DEF SetLearning, LearnTarget, Req, Blame, Control, Working
<1> QED
    BY <1>1, <1>2, <1>3, <1>4, <1>5, <1>6, <1>7, <1>8, <1>9, <1>10, <1>11

LEMMA FlushReadSafe == ASSUME Inv, FlushRead PROVE Safe'
<1> USE NoRequest DEF Inv, Safe, TypeOK, Goto, Return, FailClosed, BusFailure, hw, sw, sys
<1>1. Control'
    BY DEF FlushRead, FlushPast, FlushDone, Flushes, OnPort, Mac, Control, Moving, Working
<1>2. Checked'
    BY DEF FlushRead, FlushPast, FlushDone, Flushes, OnPort, Mac, Checked, Control, Links, Moving, Working
<1>3. Links'
    BY DEF FlushRead, FlushPast, FlushDone, Flushes, OnPort, Mac, Links, Control, Checked, Working
<1>4. Blocked'
    BY DEF FlushRead, FlushPast, FlushDone, Flushes, OnPort, Mac, Blocked, Control, Moving
<1>5. LearnInside'
    BY DEF FlushRead, FlushPast, FlushDone, Flushes, OnPort, Mac, LearnInside, Control, Checked, Blocked, Moving, Working
<1>6. Mesh'
    BY DEF FlushRead, FlushPast, FlushDone, Flushes, OnPort, Mac, Mesh, Control, Checked, Moving, Working, PeerMask, NextMembers
<1>7. Fenced'
    BY DEF FlushRead, FlushPast, FlushDone, Flushes, OnPort, Mac, Fenced, Control, Checked, Mesh, Blocked, Moving, Working, PeerMask, NextMembers
<1>8. Databases'
    BY DEF FlushRead, FlushPast, FlushDone, Flushes, OnPort, Mac, Databases, Control, Checked, Moving, Working, NextMembers
<1>9. Table'
    BY DEF FlushRead, FlushPast, FlushDone, Flushes, OnPort, Mac, Table, Control, Checked, LearnInside, Databases, Blocked, Moving, Working, NextMembers
<1>10. Closing'
    BY FaultBegins DEF FlushRead, FlushPast, FlushDone, Working
<1>11. Blame'
    BY DEF FlushRead, FlushPast, FlushDone, Flushes, OnPort, Mac, Blame, Control, Working
<1> QED
    BY <1>1, <1>2, <1>3, <1>4, <1>5, <1>6, <1>7, <1>8, <1>9, <1>10, <1>11

LEMMA FlushEraseSafe == ASSUME Inv, FlushErase PROVE Safe'
<1> USE NoRequest DEF Inv, Safe, TypeOK, Goto, Return, FailClosed, BusFailure, hw, sw, sys
<1>1. Control'
    BY DEF FlushErase, Unlearn, FlushPast, FlushDone, OnPort, Mac, None, UcEfid, Control, Moving, Working
<1>2. Checked'
    BY DEF FlushErase, Unlearn, FlushPast, FlushDone, OnPort, Mac, None, UcEfid, Checked, Control, Links, Moving, Working
<1>3. Links'
    BY DEF FlushErase, Unlearn, FlushPast, FlushDone, OnPort, Mac, None, UcEfid, Links, Control, Checked, Working
<1>4. Blocked'
    BY DEF FlushErase, Unlearn, FlushPast, FlushDone, OnPort, Mac, None, UcEfid, Blocked, Control, Moving
<1>5. LearnInside'
    BY DEF FlushErase, Unlearn, FlushPast, FlushDone, OnPort, Mac, None, UcEfid, LearnInside, Control, Checked, Blocked, Moving, Working
<1>6. Mesh'
    BY DEF FlushErase, Unlearn, FlushPast, FlushDone, OnPort, Mac, None, UcEfid, Mesh, Control, Checked, Moving, Working, PeerMask, NextMembers
<1>7. Fenced'
    BY DEF FlushErase, Unlearn, FlushPast, FlushDone, OnPort, Mac, None, UcEfid, Fenced, Control, Checked, Mesh, Blocked, Moving, Working, PeerMask, NextMembers
<1>8. Databases'
    BY DEF FlushErase, Unlearn, FlushPast, FlushDone, OnPort, Mac, None, UcEfid, Databases, Control, Checked, Moving, Working, NextMembers
<1>9. Table'
    <2>1. SUFFICES ASSUME fault' = 0 PROVE Table'
        BY DEF Table
    <2>2. /\ pc = "erase" /\ fault = 0 /\ Unlearn(at) /\ FlushPast(at) /\ req.call \in Calls
          /\ UNCHANGED members
        BY <2>1 DEF FlushErase, Req
    <2>3. /\ \A m \in Mac : lut'[m] # None => lut[m] = lut'[m] /\ tag'[m] = tag[m]
          /\ lut'[at] = None
        BY <2>2 DEF Unlearn
    <2>4. \A m \in Mac : lut'[m] # None => lut'[m] \in members' /\ tag'[m] = UcEfid
        BY <2>2, <2>3 DEF Table
    <2>5. ASSUME Moving
          PROVE  /\ req' = req
                 /\ pc' = "flush" => \A m \in Mac : m < at' => lut'[m] # req.port
                 /\ pc' = "efid" => \A m \in Mac : lut'[m] # req.port
                 /\ pc' \in {"flush", "efid"}
        <3>1. \A m \in Mac : m < at + 1 => lut'[m] # req.port
            <4>1. \A m \in Mac : m < at => lut[m] # req.port
                BY <2>2, <2>5 DEF Table
            <4>2. req.port # None
                BY DEF Req, Ports, None
            <4> QED
                BY <4>1, <4>2, <2>3 DEF Mac
        <3>2. \/ at = LutSize - 1 /\ pc' = "efid" /\ req' = req
              \/ pc' = "flush" /\ at' = at + 1 /\ req' = req
            BY <2>2, <2>5 DEF FlushPast, FlushDone, Moving
        <3> QED
            BY <3>1, <3>2, LutAssumption DEF Mac
    <2>6. ASSUME ~Moving PROVE ~Moving'
        BY <2>2, <2>6 DEF FlushPast, FlushDone, Moving, Control
    <2> QED
        BY <2>4, <2>5, <2>6 DEF Table, Moving
<1>10. Closing'
    BY FaultBegins DEF FlushErase, FlushPast, FlushDone, Working
<1>11. Blame'
    BY DEF FlushErase, Unlearn, FlushPast, FlushDone, OnPort, Mac, None, UcEfid, Blame, Control, Working
<1> QED
    BY <1>1, <1>2, <1>3, <1>4, <1>5, <1>6, <1>7, <1>8, <1>9, <1>10, <1>11

LEMMA SetEfidSafe == ASSUME Inv, SetEfid PROVE Safe'
<1> USE NoRequest DEF Inv, Safe, TypeOK, Goto, Return, FailClosed, BusFailure, hw, sw, sys
<1>1. Control'
    BY DEF SetEfid, UcEfid, Ports, Req, Control, Moving, Working
<1>2. Checked'
    BY DEF SetEfid, UcEfid, Ports, Req, Checked, Control, Links, Moving, Working
<1>3. Links'
    BY DEF SetEfid, UcEfid, Ports, Req, Links, Control, Checked, Working
<1>4. Blocked'
    BY DEF SetEfid, UcEfid, Ports, Req, Blocked, Control, Moving
<1>5. LearnInside'
    BY DEF SetEfid, UcEfid, Ports, Req, LearnInside, Control, Checked, Blocked, Moving, Working
<1>6. Mesh'
    BY DEF SetEfid, UcEfid, Ports, Req, Mesh, Control, Checked, Moving, Working, PeerMask, NextMembers
<1>7. Fenced'
    BY DEF SetEfid, UcEfid, Ports, Req, Fenced, Control, Checked, Mesh, Blocked, Moving, Working, PeerMask, NextMembers
<1>8. Databases'
    <2>1. SUFFICES ASSUME fault' = 0 PROVE Databases'
        BY DEF Databases
    <2>2. /\ pc = "efid" /\ pc' = "matrix" /\ req' = req /\ members' = members /\ req.port \in Ports
          /\ efid' = [efid EXCEPT ![req.port] = IF req.call = "join" THEN UcEfid ELSE 0]
        BY <2>1 DEF SetEfid, Req
    <2>3. \A p \in Ports : efid[p] = UcEfid <=> p \in members
        BY <2>2, <2>1 DEF SetEfid, Databases, Control, Working
    <2>4. req.call \in {"join", "leave"}
        BY <2>2 DEF Control, Moving
    <2>5. NextMembers' = NextMembers
        BY <2>2 DEF NextMembers
    <2> QED
        BY <2>2, <2>3, <2>4, <2>5 DEF Databases, NextMembers, UcEfid
<1>9. Table'
    BY DEF SetEfid, UcEfid, Ports, Req, Table, Control, Checked, LearnInside, Databases, Blocked, Moving, Working, NextMembers
<1>10. Closing'
    BY DEF SetEfid, UcEfid, Ports, Req, Closing, Control, Shut, Working
<1>11. Blame'
    BY DEF SetEfid, UcEfid, Ports, Req, Blame, Control, Working
<1> QED
    BY <1>1, <1>2, <1>3, <1>4, <1>5, <1>6, <1>7, <1>8, <1>9, <1>10, <1>11

(* The outcomes of one write of the peer matrix. *)
LEMMA MatrixOutcome ==
    ASSUME Inv, PeerMatrix
    PROVE  LET new == [iso EXCEPT ![i] = PeerMask(NextMembers, i)]
           IN  /\ pc = "matrix" /\ Moving /\ fault = 0 /\ fault' = 0
               /\ UNCHANGED <<learn, stp, linked, vlan>>
               /\ \/ /\ i < NPorts - 1 /\ iso' = new /\ i' = i + 1
                     /\ UNCHANGED <<pc, req, bridge, members>>
                  \/ /\ i = NPorts - 1 /\ iso' = new /\ pc' = "enable"
                     /\ UNCHANGED <<req, bridge, members>>
                  \/ /\ i = NPorts - 1 /\ iso' = new /\ pc' = "idle" /\ req.call = "leave"
                     /\ req' = NoReq /\ members' = NextMembers
                     /\ bridge' = IF NextMembers = {} THEN NoBridge ELSE bridge
                  \/ /\ iso' \in {iso, new} /\ pc' = "unwind"
                     /\ UNCHANGED <<req, bridge, members>>
BY DEF Inv, Safe, Control, Working, Moving, PeerMatrix, CommitLeave, Return, Goto, sys

(* In the middle of the matrix only members and the port that moves see    *)
(* one another, and that port is blocked.                                  *)
LEMMA MatrixPeers ==
    ASSUME Inv, PeerMatrix, NEW p \in Ports, NEW q \in Ports, q \in iso'[p]
    PROVE  /\ p \in members \cup {req.port} /\ q \in members \cup {req.port}
           /\ i = NPorts - 1 /\ pc' # "unwind" => p \in NextMembers /\ q \in NextMembers
<1>1. \A r \in Ports : iso[r] = PeerMask(IF r < i THEN NextMembers ELSE members, r)
    BY MatrixOutcome DEF Inv, Safe, Mesh
<1>2. iso'[p] \in {iso[p], PeerMask(NextMembers, p)}
    BY MatrixOutcome DEF Inv, TypeOK
<1>3. i = NPorts - 1 /\ pc' # "unwind" => iso'[p] = PeerMask(NextMembers, p)
    <2>1. CASE p = i
        BY <2>1, MatrixOutcome, NPortsAssumption DEF Inv, TypeOK, Ports
    <2>2. CASE p # i /\ i = NPorts - 1 /\ pc' # "unwind"
        <3>1. p < i
            BY <2>2, NPortsAssumption DEF Ports
        <3> QED
            BY <1>1, <2>2, <3>1, MatrixOutcome DEF Inv, TypeOK
    <2> QED
        BY <2>1, <2>2
<1> QED
    BY <1>1, <1>2, <1>3 DEF PeerMask, NextMembers

LEMMA PeerMatrixSafe == ASSUME Inv, PeerMatrix PROVE Safe'
<1> USE NoRequest DEF Inv, Safe, TypeOK, Goto, Return, FailClosed, BusFailure, hw, sw, sys
<1>1. Control'
    BY DEF PeerMatrix, CommitLeave, Ports, Req, Control, Moving, Working
<1>2. Checked'
    BY DEF PeerMatrix, CommitLeave, Ports, Req, Checked, Control, Links, Moving, Working
<1>3. Links'
    <2>1. CASE pc' = "idle"
        <3>1. /\ req.call = "leave" /\ req'.call = "none" /\ members' = members \ {req.port}
              /\ bridge' = IF members' = {} THEN NoBridge ELSE bridge
            BY <2>1, MatrixOutcome, NoRequest DEF NextMembers, Moving
        <3> QED
            BY <3>1, MatrixOutcome DEF Links
    <2>2. CASE pc' # "idle"
        <3>1. UNCHANGED <<req, bridge, members, linked, vlan, fault>>
            BY <2>2, MatrixOutcome
        <3> QED
            BY <3>1 DEF Links
    <2> QED
        BY <2>1, <2>2
<1>4. Blocked'
    BY DEF PeerMatrix, CommitLeave, Ports, Req, Blocked, Control, Moving
<1>5. LearnInside'
    <2>1. learn \subseteq members /\ req.port \notin learn
        BY MatrixOutcome DEF LearnInside, Blocked
    <2> QED
        BY <2>1, MatrixOutcome DEF LearnInside, NextMembers
<1>6. Mesh'
    <2>1. \A p \in Ports : iso[p] = PeerMask(IF p < i THEN NextMembers ELSE members, p)
        BY MatrixOutcome DEF Mesh
    <2>2. i < NPorts - 1 /\ pc' = "matrix" => Mesh'
        <3>1. SUFFICES ASSUME i < NPorts - 1, pc' = "matrix", NEW p \in Ports
                       PROVE  iso'[p] = PeerMask(IF p < i' THEN NextMembers' ELSE members', p)
            BY DEF Mesh
        <3>2. iso' = [iso EXCEPT ![i] = PeerMask(NextMembers, i)] /\ i' = i + 1
              /\ UNCHANGED <<req, members>>
            BY <3>1, MatrixOutcome
        <3>3. NextMembers' = NextMembers
            BY <3>2 DEF NextMembers
        <3>4. CASE p = i
            BY <3>2, <3>3, <3>4 DEF Ports
        <3>5. CASE p # i
            <4>1. p < i' <=> p < i
                BY <3>2, <3>5 DEF Ports
            <4> QED
                BY <2>1, <3>2, <3>3, <3>5, <4>1
        <3> QED
            BY <3>4, <3>5
    <2>3. i = NPorts - 1 /\ pc' \in {"enable", "idle"} => Mesh'
        <3>1. SUFFICES ASSUME i = NPorts - 1, pc' \in {"enable", "idle"}, NEW p \in Ports
                       PROVE  iso'[p] = PeerMask(IF pc' = "enable" THEN NextMembers' ELSE members', p)
            BY DEF Mesh
        <3>2. iso' = [iso EXCEPT ![i] = PeerMask(NextMembers, i)]
            BY <3>1, MatrixOutcome
        <3>3. NextMembers = IF pc' = "enable" THEN NextMembers' ELSE members'
            BY <3>1, MatrixOutcome DEF NextMembers
        <3>4. CASE p = i
            BY <3>2, <3>3, <3>4
        <3>5. CASE p # i
            <4>1. p < i
                BY <3>1, <3>5, NPortsAssumption DEF Ports
            <4> QED
                BY <2>1, <3>2, <3>3, <3>5, <4>1
        <3> QED
            BY <3>4, <3>5
    <2>4. pc' = "unwind" => Mesh'
        <3>1. pc' = "unwind" => UNCHANGED <<req, members>>
            BY MatrixOutcome
        <3> QED
            BY <3>1, MatrixPeers DEF Mesh
    <2> QED
        BY <2>2, <2>3, <2>4, MatrixOutcome DEF Moving
<1>7. Fenced'
    <2>1. SUFFICES ASSUME NEW p \in Ports, NEW q \in Ports, q \in iso'[p]
                   PROVE  /\ p \in members' \/ stp'[p] = "blocking"
                          /\ q \in members' \/ stp'[q] = "blocking"
        BY DEF Fenced
    <2>2. stp'[req.port] = "blocking"
        BY MatrixOutcome DEF Blocked
    <2>3. CASE pc' = "idle"
        <3>1. members' = NextMembers /\ i = NPorts - 1
            BY <2>3, MatrixOutcome
        <3> QED
            BY <2>1, <2>3, <3>1, MatrixPeers
    <2>4. CASE pc' # "idle"
        <3>1. members' = members
            BY <2>4, MatrixOutcome
        <3> QED
            BY <2>1, <2>2, <3>1, MatrixPeers
    <2> QED
        BY <2>3, <2>4
<1>8. Databases'
    BY DEF PeerMatrix, CommitLeave, Ports, Req, Databases, Control, Checked, Moving, Working, NextMembers
<1>9. Table'
    BY DEF PeerMatrix, CommitLeave, Ports, Req, Table, Control, Checked, LearnInside, Databases, Blocked, Moving, Working, NextMembers
<1>10. Closing'
    BY DEF PeerMatrix, CommitLeave, Ports, Req, Closing, Control, Shut, Working
<1>11. Blame'
    BY DEF PeerMatrix, CommitLeave, Ports, Req, Blame, Control, Working
<1> QED
    BY <1>1, <1>2, <1>3, <1>4, <1>5, <1>6, <1>7, <1>8, <1>9, <1>10, <1>11

LEMMA UnwindIsolationSafe == ASSUME Inv, UnwindIsolation PROVE Safe'
<1> USE NoRequest DEF Inv, Safe, TypeOK, Goto, Return, FailClosed, BusFailure, hw, sw, sys
<1>1. Control'
    BY DEF UnwindIsolation, Ports, Req, Control, Moving, Working
<1>2. Checked'
    BY DEF UnwindIsolation, Ports, Req, Checked, Control, Links, Moving, Working
<1>3. Links'
    BY DEF UnwindIsolation, Ports, Req, Links, Control, Checked, Working
<1>4. Blocked'
    BY DEF UnwindIsolation, Ports, Req, Blocked, Control, Moving
<1>5. LearnInside'
    BY DEF UnwindIsolation, Ports, Req, LearnInside, Control, Checked, Blocked, Moving, Working
<1>6. Mesh'
    <2>1. SUFFICES ASSUME fault' = 0 PROVE Mesh'
        BY DEF Mesh
    <2>2. /\ {pc, pc'} \subseteq Unwinding /\ fault = 0 /\ UNCHANGED <<req, members>>
          /\ iso' \in {iso, [iso EXCEPT ![i] = {}]}
        BY <2>1 DEF UnwindIsolation, Control, Working
    <2>3. \A p \in Ports : iso'[p] \in {iso[p], {}}
        BY <2>2
    <2> QED
        BY <2>2, <2>3 DEF Mesh
<1>7. Fenced'
    <2>1. \A p \in Ports : iso'[p] \in {iso[p], {}}
        BY DEF UnwindIsolation
    <2>2. UNCHANGED <<stp, members>>
        BY DEF UnwindIsolation
    <2> QED
        BY <2>1, <2>2 DEF Fenced
<1>8. Databases'
    BY DEF UnwindIsolation, Ports, Req, Databases, Control, Checked, Moving, Working, NextMembers
<1>9. Table'
    BY DEF UnwindIsolation, Ports, Req, Table, Control, Checked, LearnInside, Databases, Blocked, Moving, Working, NextMembers
<1>10. Closing'
    BY DEF UnwindIsolation, Ports, Req, Closing, Control, Shut, Working
<1>11. Blame'
    BY DEF UnwindIsolation, Ports, Req, Blame, Control, Working
<1> QED
    BY <1>1, <1>2, <1>3, <1>4, <1>5, <1>6, <1>7, <1>8, <1>9, <1>10, <1>11

LEMMA UnwindLearningSafe == ASSUME Inv, UnwindLearning PROVE Safe'
<1> USE NoRequest DEF Inv, Safe, TypeOK, Goto, Return, FailClosed, BusFailure, hw, sw, sys
<1>1. Control'
    BY DEF UnwindLearning, Ports, Req, Control, Moving, Working
<1>2. Checked'
    BY DEF UnwindLearning, Ports, Req, Checked, Control, Links, Moving, Working
<1>3. Links'
    BY DEF UnwindLearning, Ports, Req, Links, Control, Checked, Working
<1>4. Blocked'
    BY DEF UnwindLearning, Ports, Req, Blocked, Control, Moving
<1>5. LearnInside'
    BY DEF UnwindLearning, Ports, Req, LearnInside, Control, Checked, Blocked, Moving, Working
<1>6. Mesh'
    BY DEF UnwindLearning, Mesh, Control, Working
<1>7. Fenced'
    BY DEF UnwindLearning, Fenced
<1>8. Databases'
    BY DEF UnwindLearning, Ports, Req, Databases, Control, Checked, Moving, Working, NextMembers
<1>9. Table'
    BY DEF UnwindLearning, Ports, Req, Table, Control, Checked, LearnInside, Databases, Blocked, Moving, Working, NextMembers
<1>10. Closing'
    BY DEF UnwindLearning, Ports, Req, Closing, Control, Shut, Working
<1>11. Blame'
    BY DEF UnwindLearning, Ports, Req, Blame, Control, Working
<1> QED
    BY <1>1, <1>2, <1>3, <1>4, <1>5, <1>6, <1>7, <1>8, <1>9, <1>10, <1>11

LEMMA EnableLearningSafe == ASSUME Inv, EnableLearning PROVE Safe'
<1> USE NoRequest DEF Inv, Safe, TypeOK, Goto, Return, FailClosed, BusFailure, hw, sw, sys
<1>1. Control'
    BY DEF EnableLearning, CommitJoin, Req, Control, Moving, Working
<1>2. Checked'
    BY DEF EnableLearning, CommitJoin, Req, Checked, Control, Links, Moving, Working
<1>3. Links'
    <2>1. SUFFICES ASSUME fault' = 0 PROVE Links'
        BY DEF Links
    <2>2. /\ pc = "enable" /\ fault = 0 /\ req.call = "join" /\ req.port \in Ports
          /\ req.port \notin members /\ req.br \in Bridge /\ bridge \in {NoBridge, req.br}
          /\ vlan[req.br] = FALSE
        BY <2>1 DEF EnableLearning, Control, Checked, Working, Req
    <2>3. /\ members' = members \cup {req.port} /\ bridge' = req.br /\ vlan' = vlan
          /\ linked' = [linked EXCEPT ![req.port] = req.br] /\ req'.call = "none"
        BY <2>1, <2>2 DEF EnableLearning, CommitJoin, NextMembers
    <2>4. \A p \in Ports : linked[p] = IF p \in members THEN bridge ELSE NoBridge
        BY <2>2 DEF Links
    <2>5. members # {} => bridge = req.br
        BY <2>2 DEF Links
    <2>6. \A p \in Ports : linked'[p] = IF p \in members' THEN bridge' ELSE NoBridge
        BY <2>2, <2>3, <2>4, <2>5
    <2> QED
        BY <2>2, <2>3, <2>6, BridgeAssumption DEF Links
<1>4. Blocked'
    BY DEF EnableLearning, CommitJoin, Req, Blocked, Control, Moving
<1>5. LearnInside'
    <2>1. SUFFICES ASSUME fault' = 0 PROVE LearnInside'
        BY DEF LearnInside
    <2>2. /\ fault = 0 /\ req.call = "join" /\ learn' = learn \cup {req.port}
          /\ members' = members \cup {req.port}
        BY <2>1 DEF EnableLearning, Control, Working, CommitJoin, NextMembers
    <2> QED
        BY <2>2 DEF LearnInside
<1>6. Mesh'
    BY DEF EnableLearning, CommitJoin, Req, Mesh, Control, Checked, Moving, Working, PeerMask, NextMembers
<1>7. Fenced'
    BY DEF EnableLearning, CommitJoin, Req, Fenced, Control, Checked, Mesh, Blocked, Moving, Working, PeerMask, NextMembers
<1>8. Databases'
    BY DEF EnableLearning, CommitJoin, Req, Databases, Control, Checked, Moving, Working, NextMembers
<1>9. Table'
    BY DEF EnableLearning, CommitJoin, Req, Table, Control, Checked, LearnInside, Databases, Blocked, Moving, Working, NextMembers
<1>10. Closing'
    BY FaultBegins DEF EnableLearning, CommitJoin, Working
<1>11. Blame'
    BY DEF EnableLearning, CommitJoin, Req, Blame, Control, Working
<1> QED
    BY <1>1, <1>2, <1>3, <1>4, <1>5, <1>6, <1>7, <1>8, <1>9, <1>10, <1>11

LEMMA FdbWriteSafe == ASSUME Inv, FdbWrite PROVE Safe'
<1> USE NoRequest DEF Inv, Safe, TypeOK, Goto, Return, FailClosed, BusFailure, hw, sw, sys
<1>1. Control'
    BY DEF FdbWrite, TableWrite, Enter, Unlearn, Req, UcEfid, None, Control, Moving, Working
<1>2. Checked'
    BY DEF FdbWrite, TableWrite, Enter, Unlearn, Req, UcEfid, None, Checked, Control, Links, Moving, Working
<1>3. Links'
    BY DEF FdbWrite, TableWrite, Enter, Unlearn, Req, UcEfid, None, Links, Control, Checked, Working
<1>4. Blocked'
    BY DEF FdbWrite, TableWrite, Enter, Unlearn, Req, UcEfid, None, Blocked, Control, Moving
<1>5. LearnInside'
    BY DEF FdbWrite, TableWrite, Enter, Unlearn, Req, UcEfid, None, LearnInside, Control, Checked, Blocked, Moving, Working
<1>6. Mesh'
    BY DEF FdbWrite, TableWrite, Enter, Unlearn, Req, UcEfid, None, Mesh, Control, Checked, Moving, Working, PeerMask, NextMembers
<1>7. Fenced'
    BY DEF FdbWrite, TableWrite, Enter, Unlearn, Req, UcEfid, None, Fenced, Control, Checked, Mesh, Blocked, Moving, Working, PeerMask, NextMembers
<1>8. Databases'
    BY DEF FdbWrite, TableWrite, Enter, Unlearn, Req, UcEfid, None, Databases, Control, Checked, Moving, Working, NextMembers
<1>9. Table'
    BY DEF FdbWrite, TableWrite, Enter, Unlearn, Req, UcEfid, None, Table, Control, Checked, LearnInside, Databases, Blocked, Moving, Working, NextMembers
<1>10. Closing'
    BY FaultBegins DEF FdbWrite, Working
<1>11. Blame'
    BY DEF FdbWrite, TableWrite, Enter, Unlearn, Req, UcEfid, None, Blame, Control, Working
<1> QED
    BY <1>1, <1>2, <1>3, <1>4, <1>5, <1>6, <1>7, <1>8, <1>9, <1>10, <1>11

LEMMA FdbLookupSafe == ASSUME Inv, FdbLookup PROVE Safe'
<1> USE NoRequest DEF Inv, Safe, TypeOK, Goto, Return, FailClosed, BusFailure, hw, sw, sys
<1>1. Control'
    BY DEF FdbLookup, Control, Moving, Working
<1>2. Checked'
    BY DEF FdbLookup, Checked, Control, Links, Moving, Working
<1>3. Links'
    BY DEF FdbLookup, Links, Control, Checked, Working
<1>4. Blocked'
    BY DEF FdbLookup, Blocked, Control, Moving
<1>5. LearnInside'
    BY DEF FdbLookup, LearnInside, Control, Checked, Blocked, Moving, Working
<1>6. Mesh'
    BY DEF FdbLookup, Mesh, Control, Checked, Moving, Working, PeerMask, NextMembers
<1>7. Fenced'
    BY DEF FdbLookup, Fenced, Control, Checked, Mesh, Blocked, Moving, Working, PeerMask, NextMembers
<1>8. Databases'
    BY DEF FdbLookup, Databases, Control, Checked, Moving, Working, NextMembers
<1>9. Table'
    BY DEF FdbLookup, Table, Control, Checked, LearnInside, Databases, Blocked, Moving, Working, NextMembers
<1>10. Closing'
    BY FaultBegins DEF FdbLookup, Working
<1>11. Blame'
    BY DEF FdbLookup, Blame, Control, Working
<1> QED
    BY <1>1, <1>2, <1>3, <1>4, <1>5, <1>6, <1>7, <1>8, <1>9, <1>10, <1>11

LEMMA DumpReadSafe == ASSUME Inv, DumpRead PROVE Safe'
<1> USE NoRequest DEF Inv, Safe, TypeOK, Goto, Return, FailClosed, BusFailure, hw, sw, sys
<1>1. Control'
    BY DEF DumpRead, Control, Moving, Working
<1>2. Checked'
    BY DEF DumpRead, Checked, Control, Links, Moving, Working
<1>3. Links'
    <2>1. SUFFICES ASSUME fault' = 0 PROVE Links'
        BY DEF Links
    <2>2. /\ fault = 0 /\ req.call = "dump" /\ req'.call = "none"
          /\ UNCHANGED <<linked, bridge, members, vlan>>
        BY <2>1 DEF DumpRead, Control, Working
    <2> QED
        BY <2>2 DEF Links
<1>4. Blocked'
    BY DEF DumpRead, Blocked, Control, Moving
<1>5. LearnInside'
    BY DEF DumpRead, LearnInside, Control, Checked, Blocked, Moving, Working
<1>6. Mesh'
    BY DEF DumpRead, Mesh, Control, Checked, Moving, Working, PeerMask, NextMembers
<1>7. Fenced'
    BY DEF DumpRead, Fenced, Control, Checked, Mesh, Blocked, Moving, Working, PeerMask, NextMembers
<1>8. Databases'
    BY DEF DumpRead, Databases, Control, Checked, Moving, Working, NextMembers
<1>9. Table'
    BY DEF DumpRead, Table, Control, Checked, LearnInside, Databases, Blocked, Moving, Working, NextMembers
<1>10. Closing'
    BY FaultBegins DEF DumpRead, Working
<1>11. Blame'
    BY DEF DumpRead, Blame, Control, Working
<1> QED
    BY <1>1, <1>2, <1>3, <1>4, <1>5, <1>6, <1>7, <1>8, <1>9, <1>10, <1>11

LEMMA CloseIsolationSafe == ASSUME Inv, CloseIsolation PROVE Safe'
<1> USE NoRequest DEF Inv, Safe, TypeOK, Goto, Return, FailClosed, BusFailure, hw, sw, sys
<1>1. Control'
    BY DEF CloseIsolation, Lost, Ports, Control, Moving, Working
<1>2. Checked'
    BY DEF CloseIsolation, Lost, Ports, Checked, Control, Links, Moving, Working
<1>3. Links'
    BY DEF CloseIsolation, Lost, Ports, Links, Control, Checked, Working
<1>4. Blocked'
    BY DEF CloseIsolation, Lost, Ports, Blocked, Control, Moving
<1>5. LearnInside'
    BY DEF CloseIsolation, Lost, Ports, LearnInside, Control, Checked, Blocked, Moving, Working
<1>6. Mesh'
    BY DEF CloseIsolation, Lost, Ports, Mesh, Control, Checked, Moving, Working, PeerMask, NextMembers
<1>7. Fenced'
    BY DEF CloseIsolation, Lost, Ports, Fenced, Control, Checked, Mesh, Blocked, Moving, Working, PeerMask, NextMembers
<1>8. Databases'
    BY DEF CloseIsolation, Lost, Ports, Databases, Control, Checked, Moving, Working, NextMembers
<1>9. Table'
    BY DEF CloseIsolation, Lost, Ports, Table, Control, Checked, LearnInside, Databases, Blocked, Moving, Working, NextMembers
<1>10. Closing'
    <2>1. SUFFICES ASSUME NEW p \in Ports, p \notin missed'
                   PROVE  (p < i => Shut(p)') /\ (p = i => iso'[p] = {})
        BY DEF CloseIsolation, Closing
    <2>2. fault = 1 /\ pc = "close" /\ i \in Int /\ p \in Int
        BY DEF CloseIsolation, Control, Ports
    <2>3. p < i => p # i /\ p \notin missed
        BY <2>1, <2>2 DEF CloseIsolation, Lost
    <2>4. p < i => Shut(p)
        BY <2>2, <2>3 DEF Closing
    <2>5. p < i => Shut(p)'
        BY <2>3, <2>4 DEF CloseIsolation, Shut
    <2>6. p = i => iso'[p] = {}
        BY <2>1 DEF CloseIsolation, Lost
    <2> QED
        BY <2>5, <2>6
<1>11. Blame'
    BY DEF CloseIsolation, Lost, Ports, Blame, Control, Working
<1> QED
    BY <1>1, <1>2, <1>3, <1>4, <1>5, <1>6, <1>7, <1>8, <1>9, <1>10, <1>11

LEMMA CloseLearningSafe == ASSUME Inv, CloseLearning PROVE Safe'
<1> USE NoRequest DEF Inv, Safe, TypeOK, Goto, Return, FailClosed, BusFailure, hw, sw, sys
<1>1. Control'
    BY DEF CloseLearning, Lost, Ports, Control, Moving, Working
<1>2. Checked'
    BY DEF CloseLearning, Lost, Ports, Checked, Control, Links, Moving, Working
<1>3. Links'
    BY DEF CloseLearning, Lost, Ports, Links, Control, Checked, Working
<1>4. Blocked'
    BY DEF CloseLearning, Lost, Ports, Blocked, Control, Moving
<1>5. LearnInside'
    BY DEF CloseLearning, Lost, Ports, LearnInside, Control, Checked, Blocked, Moving, Working
<1>6. Mesh'
    BY DEF CloseLearning, Lost, Ports, Mesh, Control, Checked, Moving, Working, PeerMask, NextMembers
<1>7. Fenced'
    BY DEF CloseLearning, Lost, Ports, Fenced, Control, Checked, Mesh, Blocked, Moving, Working, PeerMask, NextMembers
<1>8. Databases'
    BY DEF CloseLearning, Lost, Ports, Databases, Control, Checked, Moving, Working, NextMembers
<1>9. Table'
    BY DEF CloseLearning, Lost, Ports, Table, Control, Checked, LearnInside, Databases, Blocked, Moving, Working, NextMembers
<1>10. Closing'
    BY DEF CloseLearning, Lost, Ports, Closing, Control, Shut, Working
<1>11. Blame'
    BY DEF CloseLearning, Lost, Ports, Blame, Control, Working
<1> QED
    BY <1>1, <1>2, <1>3, <1>4, <1>5, <1>6, <1>7, <1>8, <1>9, <1>10, <1>11

LEMMA CloseStpSafe == ASSUME Inv, CloseStp PROVE Safe'
<1> USE NoRequest DEF Inv, Safe, TypeOK, Goto, Return, FailClosed, BusFailure, hw, sw, sys
<1>1. Control'
    BY DEF CloseStp, Lost, Ports, Control, Moving, Working
<1>2. Checked'
    BY DEF CloseStp, Lost, Ports, Checked, Control, Links, Moving, Working
<1>3. Links'
    BY DEF CloseStp, Lost, Ports, Links, Control, Checked, Working
<1>4. Blocked'
    BY DEF CloseStp, Lost, Ports, Blocked, Control, Moving
<1>5. LearnInside'
    BY DEF CloseStp, Lost, Ports, LearnInside, Control, Checked, Blocked, Moving, Working
<1>6. Mesh'
    BY DEF CloseStp, Lost, Ports, Mesh, Control, Checked, Moving, Working, PeerMask, NextMembers
<1>7. Fenced'
    BY DEF CloseStp, Lost, Ports, Fenced, Control, Checked, Mesh, Blocked, Moving, Working, PeerMask, NextMembers
<1>8. Databases'
    BY DEF CloseStp, Lost, Ports, Databases, Control, Checked, Moving, Working, NextMembers
<1>9. Table'
    BY DEF CloseStp, Lost, Ports, Table, Control, Checked, LearnInside, Databases, Blocked, Moving, Working, NextMembers
<1>10. Closing'
    <2>1. SUFFICES ASSUME NEW p \in Ports, p \notin missed', p <= i
                   PROVE  Shut(p)'
        BY DEF CloseStp, Closing, Ports
    <2>2. fault = 1 /\ pc = "closeStp" /\ i \in Int /\ p \in Int /\ p \notin missed
        BY <2>1 DEF CloseStp, Control, Ports, Lost
    <2>3. CASE p = i
        <3>1. iso[p] = {} /\ p \notin learn
            BY <2>2, <2>3 DEF Closing
        <3>2. stp'[p] = "blocking"
            BY <2>1, <2>3 DEF CloseStp, Lost
        <3> QED
            BY <3>1, <3>2 DEF CloseStp, Shut
    <2>4. CASE p # i
        <3>1. Shut(p)
            BY <2>1, <2>2, <2>4 DEF Closing
        <3> QED
            BY <2>4, <3>1 DEF CloseStp, Shut
    <2> QED
        BY <2>3, <2>4
<1>11. Blame'
    BY DEF CloseStp, Lost, Ports, Blame, Control, Working
<1> QED
    BY <1>1, <1>2, <1>3, <1>4, <1>5, <1>6, <1>7, <1>8, <1>9, <1>10, <1>11

----------------------------------------------------------------------------
(* The invariant: the switch by itself *)

LEMMA HwLearnSafe == ASSUME Inv, NEW m \in Mac, NEW p \in Ports, HwLearn(m, p) PROVE Safe'
<1> USE DEF Inv, Safe, TypeOK
<1>1. /\ p \in learn /\ Enter(m, p, efid[p])
      /\ UNCHANGED <<iso, learn, stp, efid, fault, bridge, members, linked, vlan, pc, req,
                     i, at, missed, hurt>>
    BY DEF HwLearn, sw, sys
<1>2. Table'
    <2>1. SUFFICES ASSUME fault' = 0 PROVE Table'
        BY DEF Table
    <2>2. p \in members
        BY <1>1, <2>1 DEF LearnInside
    <2>3. Moving /\ pc \in {"flush", "erase", "efid", "matrix", "enable"} \cup Unwinding => p # req.port
        BY <1>1 DEF Blocked
    <2>4. efid[p] = UcEfid
        BY <1>1, <2>1, <2>2, <2>3 DEF Databases, Control, NextMembers, Moving
    <2>5. lut' = [lut EXCEPT ![m] = p] /\ tag' = [tag EXCEPT ![m] = UcEfid]
        BY <1>1, <2>4 DEF Enter
    <2> QED
        BY <1>1, <2>1, <2>2, <2>3, <2>5 DEF Table, Moving
<1>3. Control' /\ Checked' /\ Links' /\ Blocked' /\ LearnInside'
    BY <1>1 DEF Control, Checked, Links, Blocked, LearnInside, Moving, Working
<1>4. Mesh' /\ Fenced' /\ Databases'
    BY <1>1 DEF Mesh, Fenced, Databases, NextMembers
<1>5. Closing' /\ Blame'
    BY <1>1 DEF Closing, Blame, Shut
<1> QED
    BY <1>2, <1>3, <1>4, <1>5

LEMMA HwAgeSafe == ASSUME Inv, NEW m \in Mac, HwAge(m) PROVE Safe'
<1> USE DEF Inv, Safe, TypeOK
<1>1. /\ Unlearn(m)
      /\ UNCHANGED <<iso, learn, stp, efid, fault, bridge, members, linked, vlan, pc, req,
                     i, at, missed, hurt>>
    BY DEF HwAge, sw, sys
<1>2. Table'
    <2>1. \A k \in Mac : lut'[k] # None => lut'[k] = lut[k] /\ tag'[k] = tag[k]
        BY <1>1 DEF Unlearn
    <2>2. req.port # None
        BY DEF Req, Ports, None
    <2> QED
        BY <1>1, <2>1, <2>2 DEF Table, Moving
<1>3. Control' /\ Checked' /\ Links' /\ Blocked' /\ LearnInside'
    BY <1>1 DEF Control, Checked, Links, Blocked, LearnInside, Moving, Working
<1>4. Mesh' /\ Fenced' /\ Databases'
    BY <1>1 DEF Mesh, Fenced, Databases, NextMembers
<1>5. Closing' /\ Blame'
    BY <1>1 DEF Closing, Blame, Shut
<1> QED
    BY <1>2, <1>3, <1>4, <1>5

----------------------------------------------------------------------------
(* The invariant of the specification *)

LEMMA SafeInit == Init => Safe
<1> SUFFICES ASSUME Init PROVE Safe
    OBVIOUS
<1> USE NoRequest DEF Init
<1>1. Control /\ Checked /\ Links /\ Blocked /\ LearnInside
    BY DEF Control, Checked, Links, Blocked, LearnInside, Moving, Working
<1>2. Mesh /\ Fenced /\ Databases
    BY DEF Mesh, Fenced, Databases, PeerMask, UcEfid
<1>3. Table /\ Closing /\ Blame
    BY DEF Table, Closing, Blame, Moving
<1> QED
    BY <1>1, <1>2, <1>3 DEF Safe

LEMMA SafeNext == Inv /\ [Next]_vars => Safe'
<1> SUFFICES ASSUME Inv, [Next]_vars PROVE Safe'
    OBVIOUS
<1>1. CASE UNCHANGED vars
    <2>1. Control' /\ Checked' /\ Links' /\ Blocked' /\ LearnInside'
        BY <1>1 DEF Inv, Safe, vars, Control, Checked, Links, Blocked, LearnInside, Moving, Working
    <2>2. Mesh' /\ Fenced' /\ Databases'
        BY <1>1 DEF Inv, Safe, vars, Mesh, Fenced, Databases, NextMembers
    <2>3. Table' /\ Closing' /\ Blame'
        BY <1>1 DEF Inv, Safe, vars, Table, Closing, Blame, Moving, Shut
    <2> QED
        BY <2>1, <2>2, <2>3 DEF Safe
<1>2. CASE Callback
    BY <1>2, BridgeJoinSafe, BridgeLeaveSafe, StpStateSetSafe, FastAgeSafe, FdbAddSafe,
       FdbDelSafe, FdbDumpSafe, VlanFilteringSafe DEF Callback
<1>3. CASE Access
    BY <1>3, SetStpSafe, SetLearningSafe, FlushReadSafe, FlushEraseSafe, SetEfidSafe,
       PeerMatrixSafe, UnwindIsolationSafe, UnwindLearningSafe, EnableLearningSafe,
       FdbWriteSafe, FdbLookupSafe, DumpReadSafe, CloseIsolationSafe, CloseLearningSafe,
       CloseStpSafe DEF Access
<1>4. CASE Switch
    BY <1>4, HwLearnSafe, HwAgeSafe DEF Switch
<1> QED
    BY <1>1, <1>2, <1>3, <1>4 DEF Next

LEMMA Invariance == Spec => []Inv
<1>1. Init => Inv
    BY TypeInit, SafeInit DEF Inv
<1>2. Inv /\ [Next]_vars => Inv'
    BY TypeNext, SafeNext DEF Inv
<1> QED
    BY <1>1, <1>2, PTL DEF Spec

----------------------------------------------------------------------------
(* Theorems *)

(* The type invariant of the driver state and of the switch, for any       *)
(* number of ports and any table size.                                     *)
THEOREM TypeCorrect == Spec => []TypeOK
BY Invariance, PTL DEF Inv

(* At no moment, whatever accesses fail, does the switch forward by itself *)
(* to or from a port that is not a committed member.                       *)
THEOREM NoLeak == Spec => []OnlyMembersForward
<1>1. Inv => OnlyMembersForward
    <2> SUFFICES ASSUME Inv, NEW f \in Flows PROVE f \in members \X members
        BY DEF OnlyMembersForward
    <2>1. /\ f \in Ports \X Ports /\ f[2] \in iso[f[1]]
          /\ stp[f[1]] = "forwarding" /\ stp[f[2]] = "forwarding"
        BY DEF Flows
    <2>2. f[1] \in members /\ f[2] \in members
        BY <2>1 DEF Inv, Safe, Fenced
    <2> QED
        BY <2>1, <2>2
<1> QED
    BY <1>1, Invariance, PTL

(* Between callbacks a fault-free switch is configured for exactly the     *)
(* members: every join and leave has gone all the way.                     *)
THEOREM Configured == Spec => []ConfiguredForMembers
<1>1. Inv => ConfiguredForMembers
    <2> SUFFICES ASSUME Inv, pc = "idle", fault = 0 PROVE ConfiguredForMembers
        BY DEF ConfiguredForMembers
    <2>1. \A p, q \in Ports : q \in iso[p] <=> p # q /\ p \in members /\ q \in members
        <3>1. \A p \in Ports : iso[p] = PeerMask(members, p)
            BY DEF Inv, Safe, Mesh
        <3> QED
            BY <3>1 DEF PeerMask
    <2>2. \A p \in Ports : efid[p] = UcEfid <=> p \in members
        BY DEF Inv, Safe, Databases
    <2>3. learn \subseteq members
        BY DEF Inv, Safe, LearnInside
    <2> QED
        BY <2>1, <2>2, <2>3 DEF ConfiguredForMembers
<1> QED
    BY <1>1, Invariance, PTL

(* Between callbacks a fault-free switch holds no address of a port that   *)
(* has left: the flush of rtl8365mb_uc_flush_port misses nothing.          *)
THEOREM TableClean == Spec => []NoStaleAddress
<1>1. Inv => NoStaleAddress
    BY DEF Inv, Safe, NoStaleAddress, Table
<1> QED
    BY <1>1, Invariance, PTL

(* After fail_closed every port that the bus let it block is blocked, and  *)
(* stays so.                                                               *)
THEOREM FailsClosed == Spec => []FaultMeansClosed
<1>1. Inv => FaultMeansClosed
    BY DEF Inv, Safe, FaultMeansClosed, Closing, Shut
<1> QED
    BY <1>1, Invariance, PTL

(* The terminal fault is never self-inflicted: some access has failed.     *)
THEOREM FaultIsEarned == Spec => []FaultNeedsFailure
<1>1. Inv => FaultNeedsFailure
    BY DEF Inv, Safe, FaultNeedsFailure, Blame
<1> QED
    BY <1>1, Invariance, PTL

(* Without a fault the driver and DSA agree about bridge and members.      *)
THEOREM BridgeAgreement == Spec => []AgreesWithBridge
<1>1. Inv => AgreesWithBridge
    BY DEF Inv, Safe, TypeOK, AgreesWithBridge, Links, Control
<1> QED
    BY <1>1, Invariance, PTL

----------------------------------------------------------------------------
(* Refinement *)

LEMMA RefinesInit == Init => Promise!Init
BY DEF Init, Promise!Init, Flows

(* An access that leaves membership alone is a reconfiguration. *)
LEMMA RefinesSameMembers ==
    ASSUME Inv, Inv', [Next]_vars, UNCHANGED <<members, bridge>>,
           fault = 1 => fault' = 1 /\ Flows' \subseteq Flows
    PROVE  Promise!Next
<1>1. OnlyMembersForward'
    BY DEF OnlyMembersForward, Flows, Inv, Safe, Fenced
<1>2. fault \in {0, 1} /\ fault' \in {0, 1}
    BY DEF Inv, TypeOK
<1>3. CASE fault = 0
    BY <1>1, <1>2, <1>3 DEF OnlyMembersForward, Promise!Next, Promise!Forward
<1>4. CASE fault = 1
    BY <1>4 DEF Promise!Next, Promise!Shrink
<1> QED
    BY <1>2, <1>3, <1>4

(* A step that changes membership is the commit of a join or of a leave,   *)
(* and no flow touches the port that moves.                                *)
LEMMA RefinesCommit ==
    ASSUME Inv, Inv', Next, ~UNCHANGED <<members, bridge>>
    PROVE  Promise!Next
<1>1. EnableLearning \/ PeerMatrix
    BY DEF Next, Callback, Access, Switch, BridgeJoin, BridgeLeave, StpStateSet, FastAge, FdbAdd,
        FdbDel, FdbDump, VlanFiltering, SetStp, SetLearning, FlushRead, FlushErase, SetEfid,
        UnwindIsolation, UnwindLearning, FdbWrite, FdbLookup, DumpRead, CloseIsolation,
        CloseLearning, CloseStp, HwLearn, HwAge, sw
<1>2. CASE EnableLearning
    <2>1. /\ fault = 0 /\ fault' = 0 /\ CommitJoin /\ req.call = "join" /\ req.port \in Ports
          /\ req.port \notin members /\ req.br \in Bridge /\ bridge \in {NoBridge, req.br}
          /\ stp[req.port] = "blocking"
          /\ UNCHANGED <<iso, stp>>
        BY <1>2 DEF EnableLearning, Inv, Safe, Control, Working, Checked, Blocked, Moving,
            TypeOK, Req
    <2>2. members' = members \cup {req.port} /\ bridge' = req.br
        BY <2>1 DEF CommitJoin, NextMembers
    <2>3. Flows' = Flows
        BY <2>1 DEF Flows
    <2>4. Promise!Silent(req.port)
        BY <2>1 DEF Promise!Silent, Flows
    <2>5. Promise!Join(req.port, req.br)
        BY <2>1, <2>2, <2>3, <2>4 DEF Promise!Join
    <2> QED
        BY <2>1, <2>5 DEF Promise!Next, Promise!Ports, Ports
<1>3. CASE PeerMatrix
    <2>1. /\ fault = 0 /\ fault' = 0 /\ req.call = "leave" /\ i = NPorts - 1
          /\ iso' = [iso EXCEPT ![i] = PeerMask(NextMembers, i)] /\ stp' = stp
          /\ members' = NextMembers
          /\ bridge' = IF NextMembers = {} THEN NoBridge ELSE bridge
          /\ stp[req.port] = "blocking" /\ req.port \in members /\ req.port \in Ports
        BY <1>3, MatrixOutcome DEF Inv, Safe, Control, Working, Checked, Blocked, Moving,
            TypeOK, Req
    <2>2. members' = members \ {req.port}
        BY <2>1 DEF NextMembers
    <2>3. \A p, q \in Ports : p # req.port /\ q # req.port => (q \in iso'[p] <=> q \in iso[p])
        <3>1. SUFFICES ASSUME NEW q \in Ports, q # req.port, i # req.port
                       PROVE  q \in iso'[i] <=> q \in iso[i]
            BY <2>1 DEF Inv, TypeOK
        <3>2. iso[i] = PeerMask(members, i)
            BY <1>3, MatrixOutcome DEF Inv, Safe, Mesh, TypeOK, Ports
        <3>3. iso'[i] = PeerMask(members \ {req.port}, i)
            BY <2>1, <2>2 DEF Inv, TypeOK
        <3> QED
            BY <3>1, <3>2, <3>3 DEF PeerMask
    <2>4. Flows' = Flows
        BY <2>1, <2>3 DEF Flows
    <2>5. Promise!Silent(req.port)
        BY <2>1 DEF Promise!Silent, Flows
    <2>6. Promise!Leave(req.port)
        BY <2>1, <2>2, <2>4, <2>5 DEF Promise!Leave
    <2> QED
        BY <2>1, <2>6 DEF Promise!Next, Promise!Ports, Ports
<1> QED
    BY <1>1, <1>2, <1>3

(* After the fault the only accesses are those of fail_closed. *)
LEMMA FaultShrinks ==
    ASSUME Inv, [Next]_vars, fault = 1
    PROVE  fault' = 1 /\ Flows' \subseteq Flows /\ UNCHANGED <<members, bridge>>
<1>1. pc \in {"idle"} \cup Shutting
    BY DEF Inv, Safe, Control, Working
<1>2. CASE CloseIsolation \/ CloseLearning \/ CloseStp
    <2>1. /\ \A p \in Ports : iso'[p] \subseteq iso[p]
          /\ \A p \in Ports : stp'[p] = "forwarding" => stp[p] = "forwarding"
        BY <1>2 DEF CloseIsolation, CloseLearning, CloseStp, Inv, TypeOK
    <2>2. UNCHANGED <<fault, members, bridge>>
        BY <1>2 DEF CloseIsolation, CloseLearning, CloseStp, sw
    <2> QED
        BY <2>1, <2>2 DEF Flows
<1>3. CASE ~(CloseIsolation \/ CloseLearning \/ CloseStp)
    <2>1. UNCHANGED <<iso, stp, members, bridge>> /\ fault' = 1
        BY <1>1, <1>3 DEF Next, vars, Callback, Access, Switch, BridgeJoin, BridgeLeave,
            StpStateSet, FastAge, FdbAdd, FdbDel, FdbDump, VlanFiltering, SetStp, SetLearning,
            FlushRead, FlushErase, SetEfid, PeerMatrix, UnwindIsolation, UnwindLearning,
            EnableLearning, FdbWrite, FdbLookup, DumpRead, HwLearn, HwAge, sw, hw
    <2> QED
        BY <2>1 DEF Flows
<1> QED
    BY <1>2, <1>3

(* The offload implements the abstract domain: joining and leaving are     *)
(* atomic for the bridge, and a fault is final.                            *)
THEOREM Refinement == Spec => ImplementsPeerDomain
<1>1. Inv /\ Inv' /\ [Next]_vars => [Promise!Next]_<<members, bridge, fault, Flows>>
    <2> SUFFICES ASSUME Inv, Inv', [Next]_vars
                 PROVE  [Promise!Next]_<<members, bridge, fault, Flows>>
        OBVIOUS
    <2>1. CASE UNCHANGED <<members, bridge>>
        BY <2>1, FaultShrinks, RefinesSameMembers
    <2>2. CASE ~UNCHANGED <<members, bridge>>
        <3>1. Next
            BY <2>2 DEF vars
        <3> QED
            BY <2>2, <3>1, RefinesCommit
    <2> QED
        BY <2>1, <2>2
<1> QED
    BY <1>1, RefinesInit, Invariance, PTL DEF Spec, ImplementsPeerDomain, Promise!Spec

----------------------------------------------------------------------------
(* How long uc_lock is held *)

(* Accesses a callback can still need, the flush being at address m. *)
FlushLeft(m) == 6 * NPorts + 2 * (LutSize - m) + 1

(* Accesses the callback that holds uc_lock can still make.  A failure     *)
(* leads to fail_closed at once, or, in the matrix, through its fault path *)
(* first: what is left before those has room for them.                     *)
AccessesLeft ==
    CASE pc = "stp" -> FlushLeft(0) + 2
      [] pc = "learn" -> FlushLeft(0) + 1
      [] pc = "flush" -> FlushLeft(at)
      [] pc = "erase" -> FlushLeft(at) - 1
      [] pc = "efid" -> 6 * NPorts + 1
      [] pc = "matrix" -> 5 * NPorts + (NPorts - i)
      [] pc = "unwind" -> 3 * NPorts + 2 * (NPorts - i)
      [] pc = "unlearn" -> 3 * NPorts + 2 * (NPorts - i) - 1
      [] pc = "lookup" -> 3 * NPorts + 2
      [] pc \in {"write", "dump", "enable"} -> 3 * NPorts + 1
      [] pc = "close" -> 3 * (NPorts - i)
      [] pc = "closeLearn" -> 3 * (NPorts - i) - 1
      [] pc = "closeStp" -> 3 * (NPorts - i) - 2
      [] OTHER -> 0

MaxAccesses == 6 * NPorts + 2 * LutSize + 3

(* No callback makes more than MaxAccesses accesses under uc_lock: each    *)
(* one brings it nearer to its end, and whatever the switch learns, moves  *)
(* or ages meanwhile does not take it back, so no entry is visited twice   *)
(* by rtl8365mb_uc_flush_port.                                             *)
AccessesAdvance ==
    /\ [](AccessesLeft \in 0 .. MaxAccesses /\ (pc = "idle" <=> AccessesLeft = 0))
    /\ [][/\ Access => AccessesLeft' < AccessesLeft
          /\ pc # "idle" => AccessesLeft' <= AccessesLeft]_vars

(* What is left, stage by stage. *)
Staged ==
    /\ pc = "stp" => AccessesLeft = FlushLeft(0) + 2
    /\ pc = "learn" => AccessesLeft = FlushLeft(0) + 1
    /\ pc = "flush" => AccessesLeft = FlushLeft(at)
    /\ pc = "erase" => AccessesLeft = FlushLeft(at) - 1
    /\ pc = "efid" => AccessesLeft = 6 * NPorts + 1
    /\ pc = "matrix" => AccessesLeft = 5 * NPorts + (NPorts - i)
    /\ pc = "unwind" => AccessesLeft = 3 * NPorts + 2 * (NPorts - i)
    /\ pc = "unlearn" => AccessesLeft = 3 * NPorts + 2 * (NPorts - i) - 1
    /\ pc = "lookup" => AccessesLeft = 3 * NPorts + 2
    /\ pc \in {"write", "dump", "enable"} => AccessesLeft = 3 * NPorts + 1
    /\ pc = "close" => AccessesLeft = 3 * (NPorts - i)
    /\ pc = "closeLearn" => AccessesLeft = 3 * (NPorts - i) - 1
    /\ pc = "closeStp" => AccessesLeft = 3 * (NPorts - i) - 2
    /\ pc = "idle" => AccessesLeft = 0

LEMMA LeftAt == Staged
<1>1. ASSUME pc = "stp" PROVE AccessesLeft = FlushLeft(0) + 2
    BY <1>1 DEF AccessesLeft
<1>2. ASSUME pc = "learn" PROVE AccessesLeft = FlushLeft(0) + 1
    BY <1>2 DEF AccessesLeft
<1>3. ASSUME pc = "flush" PROVE AccessesLeft = FlushLeft(at)
    BY <1>3 DEF AccessesLeft
<1>4. ASSUME pc = "erase" PROVE AccessesLeft = FlushLeft(at) - 1
    BY <1>4 DEF AccessesLeft
<1>5. ASSUME pc = "efid" PROVE AccessesLeft = 6 * NPorts + 1
    BY <1>5 DEF AccessesLeft
<1>6. ASSUME pc = "matrix" PROVE AccessesLeft = 5 * NPorts + (NPorts - i)
    BY <1>6 DEF AccessesLeft
<1>7. ASSUME pc = "unwind" PROVE AccessesLeft = 3 * NPorts + 2 * (NPorts - i)
    BY <1>7 DEF AccessesLeft
<1>8. ASSUME pc = "lookup" PROVE AccessesLeft = 3 * NPorts + 2
    BY <1>8 DEF AccessesLeft
<1>9. ASSUME pc \in {"write", "dump", "enable"} PROVE AccessesLeft = 3 * NPorts + 1
    BY <1>9 DEF AccessesLeft
<1>10. ASSUME pc = "close" PROVE AccessesLeft = 3 * (NPorts - i)
    BY <1>10 DEF AccessesLeft
<1>11. ASSUME pc = "idle" PROVE AccessesLeft = 0
    BY <1>11 DEF AccessesLeft
<1>12. ASSUME pc = "unlearn" PROVE AccessesLeft = 3 * NPorts + 2 * (NPorts - i) - 1
    BY <1>12 DEF AccessesLeft
<1>13. ASSUME pc = "closeLearn" PROVE AccessesLeft = 3 * (NPorts - i) - 1
    BY <1>13 DEF AccessesLeft
<1>14. ASSUME pc = "closeStp" PROVE AccessesLeft = 3 * (NPorts - i) - 2
    BY <1>14 DEF AccessesLeft
<1> QED
    BY <1>1, <1>2, <1>3, <1>4, <1>5, <1>6, <1>7, <1>8, <1>9, <1>10, <1>11, <1>12, <1>13, <1>14
       DEF Staged

(* It is a fact about every state, the next one included. *)
LEMMA LeftAtNext == Staged'
BY LeftAt, PTL

LEMMA LeftBounded ==
    ASSUME TypeOK
    PROVE  AccessesLeft \in 0 .. MaxAccesses /\ (pc = "idle" <=> AccessesLeft = 0)
<1>1. /\ NPorts \in Nat /\ NPorts >= 1 /\ LutSize \in Nat /\ LutSize >= 1
      /\ i \in 0 .. NPorts - 1 /\ at \in 0 .. LutSize - 1 /\ pc \in Stage
    BY NPortsAssumption, LutAssumption DEF TypeOK, Ports, Mac
<1> QED
    BY <1>1, LeftAt DEF Staged, Stage, FlushLeft, MaxAccesses

LEMMA LeftBoundedNext == TypeOK' => (AccessesLeft \in 0 .. MaxAccesses)'
BY LeftBounded, PTL

(* A failed access leaves one round of fail_closed. *)
LEMMA LeftAfterFailure == pc' = "close" /\ i' = 0 => AccessesLeft' = 3 * NPorts
BY LeftAtNext, NPortsAssumption DEF Staged

LEMMA LeftAfterReturn == Return => AccessesLeft' = 0
BY LeftAtNext DEF Staged, Return

(* The walk of the table goes forward. *)
LEMMA FlushForward ==
    ASSUME TypeOK, NEW m \in Mac, m >= at, FlushPast(m)
    PROVE  AccessesLeft' < FlushLeft(m) - 1
<1>1. NPorts \in Nat /\ LutSize \in Nat /\ m \in 0 .. LutSize - 1
    BY NPortsAssumption, LutAssumption DEF Mac
<1>2. CASE m = LutSize - 1
    <2>1. Return \/ pc' = "efid"
        BY <1>2 DEF FlushPast, FlushDone, Goto
    <2> QED
        BY <1>1, <1>2, <2>1, LeftAfterReturn, LeftAtNext DEF Staged, FlushLeft
<1>3. CASE m # LutSize - 1
    <2>1. pc' = "flush" /\ at' = m + 1
        BY <1>3 DEF FlushPast
    <2>2. FlushLeft(at)' = 6 * NPorts + 2 * (LutSize - (m + 1)) + 1
        BY <2>1 DEF FlushLeft
    <2> QED
        BY <1>1, <2>1, <2>2, LeftAtNext DEF Staged, FlushLeft
<1> QED
    BY <1>2, <1>3

LEMMA AccessNearer ==
    ASSUME Inv, Access
    PROVE  AccessesLeft' < AccessesLeft
<1>1. /\ NPorts \in Nat /\ NPorts >= 1 /\ LutSize \in Nat /\ LutSize >= 1
      /\ i \in 0 .. NPorts - 1 /\ at \in 0 .. LutSize - 1 /\ pc \in Stage
    BY NPortsAssumption, LutAssumption DEF Inv, TypeOK, Ports, Mac
<1>2. pc \in {"stp", "learn"} => at = 0
    BY DEF Inv, Safe, Control
<1>3. \A m \in Mac : FlushLeft(m) \in Int /\ FlushLeft(m) >= 6 * NPorts + 3
    BY <1>1 DEF FlushLeft, Mac
<1>4. BusFailure \/ FailClosed => AccessesLeft' = 3 * NPorts
    BY LeftAfterFailure DEF BusFailure, FailClosed
<1>5. CASE SetStp
    <2>1. pc' = "learn" \/ BusFailure
        BY <1>5 DEF SetStp, Goto
    <2>2. AccessesLeft = FlushLeft(0) + 2
        BY <1>5, LeftAt DEF Staged, SetStp
    <2> QED
        BY <1>1, <1>3, <1>4, <2>1, <2>2, LeftAtNext, Zero DEF Staged
<1>6. CASE SetLearning
    <2>1. Return \/ (pc' = "flush" /\ at' = 0) \/ BusFailure
        BY <1>2, <1>6 DEF SetLearning, Goto
    <2>2. AccessesLeft = FlushLeft(0) + 1
        BY <1>6, LeftAt DEF Staged, SetLearning
    <2>3. pc' = "flush" /\ at' = 0 => AccessesLeft' = FlushLeft(0)
        BY LeftAtNext DEF Staged, FlushLeft
    <2> QED
        BY <1>1, <1>3, <1>4, <2>1, <2>2, <2>3, LeftAfterReturn, Zero
<1>7. CASE FlushRead
    <2>1. AccessesLeft = FlushLeft(at)
        BY <1>7, LeftAt DEF Staged, FlushRead
    <2>2. ASSUME NEW m \in at .. LutSize - 1, pc' = "erase", at' = m
          PROVE  AccessesLeft' < AccessesLeft
        <3>1. AccessesLeft' = FlushLeft(m) - 1
            BY <2>2, LeftAtNext DEF Staged, FlushLeft
        <3> QED
            BY <1>1, <2>1, <3>1 DEF FlushLeft
    <2>3. ASSUME NEW m \in at .. LutSize - 1, FlushPast(m)
          PROVE  AccessesLeft' < AccessesLeft
        <3>1. m \in Mac /\ m >= at
            BY <1>1 DEF Mac
        <3>2. AccessesLeft' < FlushLeft(m) - 1
            BY <2>3, <3>1, FlushForward DEF Inv
        <3>3. FlushLeft(m) <= FlushLeft(at) /\ FlushLeft(m) \in Int /\ FlushLeft(at) \in Int
            BY <1>1, <3>1 DEF FlushLeft
        <3>4. AccessesLeft' \in Int
            <4>1. TypeOK'
                BY AccessTypes DEF Inv
            <4>2. (AccessesLeft \in 0 .. MaxAccesses)'
                BY <4>1, LeftBoundedNext
            <4> QED
                BY <4>2
        <3> QED
            BY <2>1, <3>2, <3>3, <3>4
    <2>4. ASSUME FlushDone PROVE AccessesLeft' < AccessesLeft
        <3>1. Return \/ pc' = "efid"
            BY <2>4 DEF FlushDone, Goto
        <3> QED
            BY <1>1, <2>1, <3>1, LeftAfterReturn, LeftAtNext DEF Staged, FlushLeft
    <2>5. ASSUME BusFailure PROVE AccessesLeft' < AccessesLeft
        BY <1>1, <1>4, <2>1, <2>5 DEF FlushLeft
    <2> QED
        BY <1>7, <2>2, <2>3, <2>4, <2>5 DEF FlushRead
<1>8. CASE FlushErase
    <2>1. AccessesLeft = FlushLeft(at) - 1
        BY <1>8, LeftAt DEF Staged, FlushErase
    <2>2. ASSUME FlushPast(at) PROVE AccessesLeft' < AccessesLeft
        BY <1>1, <2>1, <2>2, FlushForward DEF Inv, Mac
    <2>3. ASSUME BusFailure PROVE AccessesLeft' < AccessesLeft
        BY <1>1, <1>4, <2>1, <2>3 DEF FlushLeft
    <2> QED
        BY <1>8, <2>2, <2>3 DEF FlushErase
<1>9. CASE SetEfid
    <2>1. (pc' = "matrix" /\ i' = 0) \/ BusFailure
        BY <1>9 DEF SetEfid
    <2>2. AccessesLeft = 6 * NPorts + 1
        BY <1>9, LeftAt DEF Staged, SetEfid
    <2> QED
        BY <1>1, <1>4, <2>1, <2>2, LeftAtNext, NPortsAssumption DEF Staged
<1>10. CASE PeerMatrix
    <2>1. \/ pc' = "matrix" /\ i' = i + 1
          \/ pc' = "enable"
          \/ Return
          \/ pc' = "unwind" /\ i' = 0
        BY <1>10 DEF PeerMatrix, Goto, CommitLeave
    <2>2. AccessesLeft = 5 * NPorts + (NPorts - i)
        BY <1>10, LeftAt DEF Staged, PeerMatrix
    <2> QED
        BY <1>1, <2>1, <2>2, LeftAfterReturn, LeftAtNext DEF Staged
<1>11. CASE UnwindIsolation \/ UnwindLearning
    <2>1. \/ pc = "unwind" /\ pc' = "unlearn" /\ i' = i
          \/ pc = "unlearn" /\ pc' = "unwind" /\ i' = i + 1
          \/ pc = "unlearn" /\ FailClosed
        BY <1>11 DEF UnwindIsolation, UnwindLearning, Goto
    <2> QED
        BY <1>1, <1>4, <2>1, LeftAt, LeftAtNext DEF Staged
<1>12. CASE EnableLearning \/ FdbWrite \/ DumpRead
    <2>1. Return \/ BusFailure
        BY <1>12 DEF EnableLearning, CommitJoin, FdbWrite, DumpRead
    <2>2. AccessesLeft = 3 * NPorts + 1
        BY <1>12, LeftAt DEF Staged, EnableLearning, FdbWrite, DumpRead
    <2> QED
        BY <1>1, <1>4, <2>1, <2>2, LeftAfterReturn
<1>13. CASE FdbLookup
    <2>1. Return \/ pc' = "write" \/ BusFailure
        BY <1>13 DEF FdbLookup, Goto
    <2>2. AccessesLeft = 3 * NPorts + 2
        BY <1>13, LeftAt DEF Staged, FdbLookup
    <2> QED
        BY <1>1, <1>4, <2>1, <2>2, LeftAfterReturn, LeftAtNext DEF Staged
<1>14. CASE CloseIsolation \/ CloseLearning \/ CloseStp
    <2>1. \/ pc = "close" /\ pc' = "closeLearn" /\ i' = i
          \/ pc = "closeLearn" /\ pc' = "closeStp" /\ i' = i
          \/ pc = "closeStp" /\ pc' = "close" /\ i' = i + 1
          \/ pc = "closeStp" /\ Return
        BY <1>14 DEF CloseIsolation, CloseLearning, CloseStp, Goto
    <2> QED
        BY <1>1, <2>1, LeftAfterReturn, LeftAt, LeftAtNext DEF Staged
<1> QED
    BY <1>5, <1>6, <1>7, <1>8, <1>9, <1>10, <1>11, <1>12, <1>13, <1>14 DEF Access

(* Nobody but the callback itself changes where it is. *)
LEMMA OthersKeepLeft ==
    ASSUME TypeOK, [Next]_vars, pc # "idle", ~Access
    PROVE  AccessesLeft' = AccessesLeft
<1>1. UNCHANGED <<pc, i, at>>
    BY DEF Next, vars, Callback, Switch, BridgeJoin, BridgeLeave, StpStateSet, FastAge,
        FdbAdd, FdbDel, FdbDump, VlanFiltering, Call, HwLearn, HwAge
<1> QED
    BY <1>1 DEF AccessesLeft, FlushLeft

(* uc_lock is held for a bounded number of accesses, whatever fails and    *)
(* however much the switch learns while its table is flushed.              *)
THEOREM BoundedCallbacks == Spec => AccessesAdvance
<1>1. Inv => AccessesLeft \in 0 .. MaxAccesses /\ (pc = "idle" <=> AccessesLeft = 0)
    BY LeftBounded DEF Inv
<1>2. Inv /\ [Next]_vars => [/\ Access => AccessesLeft' < AccessesLeft
                             /\ pc # "idle" => AccessesLeft' <= AccessesLeft]_vars
    <2>1. ASSUME Inv, [Next]_vars
          PROVE  /\ Access => AccessesLeft' < AccessesLeft
                 /\ pc # "idle" => AccessesLeft' <= AccessesLeft
        <3>1. Access => AccessesLeft' < AccessesLeft
            BY <2>1, AccessNearer
        <3>2. AccessesLeft \in Int /\ (Access => AccessesLeft' \in Int)
            <4>1. Access => TypeOK'
                BY <2>1, AccessTypes DEF Inv
            <4> QED
                BY <1>1, <2>1, <4>1, LeftBoundedNext
        <3>3. pc # "idle" /\ ~Access => AccessesLeft' = AccessesLeft
            BY <2>1, OthersKeepLeft DEF Inv
        <3> QED
            BY <3>1, <3>2, <3>3
    <2> QED
        BY <2>1
<1> QED
    BY <1>1, <1>2, Invariance, PTL DEF Spec, AccessesAdvance

=============================================================================
