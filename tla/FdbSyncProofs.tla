---------------------------- MODULE FdbSyncProofs ----------------------------
(* What the locks, the epoch and the order of the worker's steps give, for *)
(* any number of ports, addresses and rows.                                *)
EXTENDS FdbSync, TLAPS

LEMMA Values ==
    /\ 0 \in Ports /\ 0 \in Mac /\ None \notin Ports /\ Static \notin Ports
    /\ Wifi \notin Ports /\ Wifi # None
    /\ \A m \in Mac : m < NMacs - 1 => m + 1 \in Mac
    /\ \A p \in Ports : p < NPorts - 1 => p + 1 \in Ports
  BY NPortsAssumption, NMacsAssumption DEF Ports, Mac, None, Static, Wifi

LEMMA Entries ==
    ASSUME NEW p \in Ports \cup {Wifi}
    PROVE  /\ Learned(p) \in Entry /\ Mirrored(p) \in Entry /\ Foreign \in Entry
           /\ \A b \in BOOLEAN : [Learned(p) EXCEPT !.pinned = b] \in Entry
           /\ \A x \in BOOLEAN : [port |-> p, ext |-> x, ours |-> FALSE, pinned |-> TRUE] \in Entry
  BY DEF Learned, Mirrored, Foreign, Entry

LEMMA Fields ==
    ASSUME NEW e \in Entry \cup {NoEntry}
    PROVE  /\ e.port \in Ports \cup {Wifi, None}
           /\ e.ext \in BOOLEAN /\ e.ours \in BOOLEAN /\ e.pinned \in BOOLEAN
  <1>1. CASE e \in Entry
    BY <1>1 DEF Entry
  <1>2. CASE e = NoEntry
    <2>1. e.port = None /\ e.ext = FALSE /\ e.ours = FALSE /\ e.pinned = FALSE
      BY <1>2 DEF NoEntry
    <2>. QED
      BY <2>1
  <1>. QED
    BY <1>1, <1>2

LEMMA SweepTyped ==
    ASSUME TypeOK, NEW ms, NEW h \in [Mac -> Ports \cup {None, Static}], SetTable(h, ms)
    PROVE  hw' \in [Mac -> Ports \cup {None, Static}] /\ absent' \subseteq Mac
  BY DEF TypeOK, SetTable

LEMMA FlushTyped ==
    ASSUME TypeOK, NEW p
    PROVE  Flushed(p) \in [Mac -> Ports \cup {None, Static}]
  BY DEF TypeOK, Flushed

LEMMA CallTyped ==
    ASSUME TypeOK
    PROVE  /\ NoCall \in Call \cup {NoCall}
           /\ call.op # "none" =>
                 /\ call \in Call /\ call.port \in Ports /\ call.mac \in Mac
                 /\ \A s \in {"enter", "post", "cancel"} : [call EXCEPT !.stage = s] \in Call
  <1>1. NoCall.op = "none"
    BY DEF NoCall
  <1>2. ASSUME call.op # "none" PROVE call \in Call
    BY <1>1, <1>2 DEF TypeOK
  <1>. QED
    BY <1>2 DEF Call

LEMMA InitTyped == Init => TypeOK
  BY Values DEF Init, TypeOK, Entry, Stage

LEMMA TypeStep ==
    ASSUME TypeOK, [Next]_vars
    PROVE  TypeOK'
  <1>. USE Values
  <1>1. ASSUME NEW m \in Mac, NEW p \in Ports, HwLearn(m, p) PROVE TypeOK'
    <2>1. [hw EXCEPT ![m] = p] \in [Mac -> Ports \cup {None, Static}]
      BY DEF TypeOK
    <2>2. hw' \in [Mac -> Ports \cup {None, Static}] /\ absent' \subseteq Mac
      BY <1>1, <2>1, SweepTyped DEF HwLearn
    <2>. QED
      BY <1>1, <2>2 DEF TypeOK, HwLearn, switch, worker
  <1>2. ASSUME NEW m \in Mac, HwAge(m) PROVE TypeOK'
    <2>1. [hw EXCEPT ![m] = None] \in [Mac -> Ports \cup {None, Static}]
      BY DEF TypeOK
    <2>2. hw' \in [Mac -> Ports \cup {None, Static}] /\ absent' \subseteq Mac
      BY <1>2, <2>1, SweepTyped DEF HwAge
    <2>. QED
      BY <1>2, <2>2 DEF TypeOK, HwAge, switch, worker
  <1>3. ASSUME NEW m \in Mac, NEW e \in Entry \cup {NoEntry}, SetEntry(m, e) PROVE TypeOK'
    BY <1>3 DEF TypeOK, SetEntry, TakenBy, switch, worker
  <1>4. ASSUME NEW m \in Mac, NEW p \in Ports \cup {Wifi}, SwLearn(m, p) PROVE TypeOK'
    <2>1. fdb[m].pinned \in BOOLEAN
      BY Fields DEF TypeOK
    <2>2. [Learned(p) EXCEPT !.pinned = fdb[m].pinned] \in Entry
      BY <2>1, Entries
    <2>. QED
      BY <1>3, <1>4, <2>2 DEF SwLearn
  <1>5. ASSUME NEW m \in Mac, SwRemove(m) PROVE TypeOK'
    BY <1>3, <1>5 DEF SwRemove
  <1>6. ASSUME NEW m \in Mac, NEW p \in Ports \cup {Wifi}, UserAdd(m, p) PROVE TypeOK'
    BY <1>3, <1>6, Entries DEF UserAdd
  <1>7. ASSUME NEW m \in Mac, OtherDriver(m) PROVE TypeOK'
    BY <1>3, <1>7, Entries DEF OtherDriver
  <1>8. ASSUME NEW c \in Call, Begin(c) PROVE TypeOK'
    BY <1>8 DEF TypeOK, Begin, switch, worker
  <1>9. ASSUME Enter PROVE TypeOK'
    <2>0. call \in Call /\ call.port \in Ports /\ call.mac \in Mac
      BY <1>9, CallTyped DEF Enter
    <2>1. hw' \in [Mac -> Ports \cup {None, Static}] /\ absent' \subseteq Mac
      <3>1. [hw EXCEPT ![call.mac] = Static] \in [Mac -> Ports \cup {None, Static}]
        BY <2>0 DEF TypeOK
      <3>2. [hw EXCEPT ![call.mac] = IF @ \in {call.port, Static} THEN None ELSE @]
               \in [Mac -> Ports \cup {None, Static}]
        BY <2>0 DEF TypeOK
      <3>. QED
        BY <1>9, <2>0, <3>1, <3>2, FlushTyped, SweepTyped DEF Enter, TypeOK
    <2>2. call' \in Call \cup {NoCall} /\ rtnl' \in {"free", rtnl}
      <3>1. CASE EndCall
        BY <3>1 DEF EndCall
      <3>2. CASE \E s \in {"post", "cancel"} : GoOn(s)
        BY <1>9, <3>2, CallTyped DEF Enter, GoOn
      <3>. QED
        BY <1>9, <3>1, <3>2 DEF Enter
    <2>3. rows' \in [Mac -> Ports \cup {None}]
      BY <1>9 DEF Enter, RowsAfterLeave, TypeOK
    <2>4. members' \subseteq Ports /\ bports' \subseteq Ports
      BY <1>9, <2>0 DEF Enter, TypeOK
    <2>5. /\ moved' = TRUE
          /\ UNCHANGED <<fdb, ready, fault, pending, worker, tpc, calm, taken>>
      BY <1>9 DEF Enter
    <2>. QED
      BY <2>1, <2>2, <2>3, <2>4, <2>5 DEF TypeOK, worker
  <1>10. ASSUME EnterFails PROVE TypeOK'
    BY <1>10, CallTyped DEF TypeOK, EnterFails, EndCall, GoOn, worker
  <1>11. ASSUME Post PROVE TypeOK'
    BY <1>11, CallTyped DEF TypeOK, Post, Requeue, Schedule, Active, EndCall, switch, worker
  <1>12. ASSUME Run PROVE TypeOK'
    BY <1>12 DEF TypeOK, Run, WGoto, switch, Stage
  <1>13. ASSUME Start PROVE TypeOK'
    BY <1>13 DEF TypeOK, Start, WGoto, switch, Stage
  <1>14. ASSUME Read PROVE TypeOK'
    <2>1. ScanRow(wmac, wport) \subseteq Row
      BY DEF TypeOK, ScanRow, Row
    <2>2. scan' \subseteq Row /\ wport' \in Ports /\ wmac' \in Mac /\ wpc' \in Stage
      BY <1>14, <2>1 DEF TypeOK, Read, WGoto, ScanDone, Stage
    <2>3. snap' \subseteq Ports /\ fault' \in {0, 1}
      BY <1>14 DEF TypeOK, Read, WGoto
    <2>. QED
      BY <1>14, <2>2, <2>3 DEF TypeOK, Read
  <1>15. ASSUME Acquire PROVE TypeOK'
    BY <1>15 DEF TypeOK, Acquire, TryLock, WGoto, switch, Stage
  <1>16. ASSUME Recheck PROVE TypeOK'
    BY <1>16 DEF TypeOK, Recheck, WGoto, switch, Stage
  <1>17. ASSUME Confirm PROVE TypeOK'
    <2>1. FoundAgain(wmac) \subseteq Row
      BY DEF TypeOK, FoundAgain, Row
    <2>2. scan' \subseteq Row /\ wport' \in Ports /\ wmac' \in Mac /\ wpc' \in Stage
      BY <1>17, <2>1 DEF TypeOK, Confirm, WGoto, Advance, Stage
    <2>3. snap' \subseteq Ports /\ fault' \in {0, 1}
      BY <1>17 DEF TypeOK, Confirm, WGoto, Advance
    <2>. QED
      BY <1>17, <2>2, <2>3 DEF TypeOK, Confirm
  <1>18. ASSUME Add PROVE TypeOK'
    <2>1. fdb' \in [Mac -> Entry \cup {NoEntry}]
      BY <1>18, Entries DEF TypeOK, Add, Additions, Row
    <2>2. scan' = scan /\ wport' = wport /\ wmac' \in Mac /\ wpc' \in Stage /\ snap' = snap
      BY <1>18 DEF TypeOK, Add, WGoto, Advance, GoChange, Stage
    <2>. QED
      BY <1>18, <2>1, <2>2 DEF TypeOK, Add, switch
  <1>24. ASSUME AddChange PROVE TypeOK'
    <2>1. fdb' \in [Mac -> Entry \cup {NoEntry}]
      BY <1>24, Entries DEF TypeOK, AddChange, Additions, Row
    <2>2. scan' = scan /\ wport' = wport /\ wmac' \in Mac /\ wpc' \in Stage /\ snap' = snap
      BY <1>24 DEF TypeOK, AddChange, Advance, Stage
    <2>. QED
      BY <1>24, <2>1, <2>2 DEF TypeOK, AddChange, switch
  <1>19. ASSUME Del \/ DelChange PROVE TypeOK'
    BY <1>19 DEF TypeOK, Del, DelChange, Advance, GoChange, switch, Stage
  <1>20. ASSUME Commit PROVE TypeOK'
    <2>1. ASSUME NEW m \in Mac, Has(m)
          PROVE  (CHOOSE p \in Ports : <<m, p>> \in scan) \in Ports
      BY <2>1 DEF Has
    <2>2. rows' \in [Mac -> Ports \cup {None}]
      BY <1>20, <2>1 DEF TypeOK, Commit
    <2>. QED
      BY <1>20, <2>2 DEF TypeOK, Commit, WGoto, Stage
  <1>21. ASSUME Unlock \/ Retry PROVE TypeOK'
    BY <1>21 DEF TypeOK, Unlock, Retry, WGoto, Schedule, Active, switch, Stage
  <1>22. ASSUME TeardownBegin \/ TeardownGate \/ TeardownFree \/ Rest PROVE TypeOK'
    BY <1>22 DEF TypeOK, TeardownBegin, TeardownGate, TeardownFree, CancelSync, Rest, switch, worker
  <1>23. ASSUME UNCHANGED vars PROVE TypeOK'
    BY <1>23 DEF TypeOK, vars
  <1>. QED
    BY <1>1, <1>2, <1>4, <1>5, <1>6, <1>7, <1>8, <1>9, <1>10, <1>11, <1>12, <1>13, <1>14,
       <1>15, <1>16, <1>17, <1>18, <1>24, <1>19, <1>20, <1>21, <1>22, <1>23
       DEF Next, Environment, BeginCallback, Dsa, Work, Teardown

----------------------------------------------------------------------------
(* What holds at each stage of the worker.                                 *)

Holding == {"recheck", "confirm", "add", "adding", "del", "deleting", "commit", "unlock"}
Trusted == {"confirm", "add", "adding", "del", "deleting", "commit"}
Sweeping == {"read", "trylock"} \cup Holding

(* RTNL is held by the callback under way or by the worker in its locked   *)
(* half, and a callback cancels the work only if there is none to do.      *)
Locks ==
    /\ call # NoCall => rtnl = "dsa"
    /\ wpc \in Holding => rtnl = "worker"
    /\ call.stage = "cancel" => members = {} \/ fault = 1

(* Once the gate is closed nothing is queued again.                        *)
Closed == tpc \in {"cancel", "freed"} => ~ready

(* The entries of the mirror are on ports of the bridge, and those are the *)
(* members, but for the port that is about to leave.                       *)
Bridged ==
    /\ \A m \in Mac : fdb[m].ours => fdb[m].ext /\ ~fdb[m].pinned /\ fdb[m].port \in bports
    /\ fault = 0 =>
          bports = IF call.op = "leave" /\ call.stage = "enter"
                   THEN members \ {call.port} ELSE members

(* While the epoch stands, the copy of the members is exact; the rows are  *)
(* on its ports and no address has two; and an address that is now on no   *)
(* member has been seen to be absent.                                      *)
Snapshot ==
    /\ wpc \in Sweeping \ {"unlock"} /\ ~moved => members = snap
    /\ wpc = "confirm" => ~moved
    /\ wpc \in Trusted /\ ready => ~moved
    /\ wpc \in Sweeping \ {"unlock"} => scan \subseteq Mac \X snap
    /\ wpc \in {"trylock", "recheck"} \cup Trusted => RowsValid(scan)
    /\ wpc \in Sweeping => \A m \in Mac : hw[m] \notin members => m \in absent

(* A deletion that has been looked up again was absent at some moment.     *)
Looked ==
    /\ wpc = "confirm" => \A m \in Mac : m < wmac /\ Deletes(m) => m \in absent
    /\ wpc \in {"add", "adding", "del", "deleting"} => \A m \in Mac : Deletes(m) => m \in absent

(* An entry that others have entered or moved since the scan began is not  *)
(* the mirror's, unless it agrees with the snapshot and has been announced *)
(* on its own port; and while the bridge goes from its guard to the change *)
(* nobody makes the entry a user's or takes its port away.                 *)
Announced(m) ==
    \/ wpc \in {"add", "adding"} /\ m < wmac /\ Has(m)
    \/ wpc \in {"del", "deleting"} /\ Has(m)
    \/ wpc \in {"commit", "unlock", "retry"}

Standing ==
    /\ \A m \in taken : fdb[m] # NoEntry /\ (fdb[m].ours => Announced(m))
    /\ wpc = "adding" =>
          /\ ~fdb[wmac].pinned
          /\ \A r \in Additions(wmac) :
                r[2] \in bports /\ (wmac \in taken => fdb[wmac].port = r[2])
    /\ wpc = "deleting" => wmac \notin taken

Inv == TypeOK /\ Locks /\ Closed /\ Bridged /\ Snapshot /\ Looked /\ Standing /\ NoUseAfterFree /\ SyncAlive

(* Between the first notification and the commit, the entries of the       *)
(* mirror turn, address by address, from the old snapshot to the new one.  *)
Owned(m, mirrored) ==
    fdb[m].ours => IF mirrored THEN <<m, fdb[m].port>> \in scan ELSE rows[m] = fdb[m].port

Turned(m) ==
    \/ wpc \in {"add", "adding"} /\ m < wmac /\ Has(m)
    \/ wpc \in {"del", "deleting"} /\ (m < wmac \/ Has(m))
    \/ wpc = "commit"

Ledger == ready /\ fault = 0 => \A m \in Mac : Owned(m, Turned(m))

----------------------------------------------------------------------------
(* The steps, with those of the bridge's software path and of the switch   *)
(* summed up.                                                              *)

ByOthers ==
    \E m \in Mac, e \in Entry \cup {NoEntry} :
        /\ ~e.ours /\ SetEntry(m, e)
        /\ ~HashFree /\ rtnl = "worker" => e # NoEntry /\ e.pinned = fdb[m].pinned
BySwitch == \E m \in Mac : HwAge(m) \/ \E p \in Ports : HwLearn(m, p)

LEMMA Steps ==
    ASSUME TypeOK, [Next]_vars
    PROVE  \/ ByOthers \/ BySwitch \/ BeginCallback \/ Rest
           \/ Enter \/ EnterFails \/ Post
           \/ Run \/ Start \/ Read \/ Acquire \/ Recheck \/ Confirm \/ Add \/ AddChange
           \/ Del \/ DelChange \/ Commit \/ Unlock \/ Retry
           \/ TeardownBegin \/ TeardownGate \/ TeardownFree
           \/ UNCHANGED vars
  <1>1. ASSUME NEW m \in Mac, NEW p \in Ports \cup {Wifi}, SwLearn(m, p) PROVE ByOthers
    <2>1. fdb[m].pinned \in BOOLEAN
      BY Fields DEF TypeOK
    <2>2. [Learned(p) EXCEPT !.pinned = fdb[m].pinned] \in Entry
      BY <2>1, Entries
    <2>3. [Learned(p) EXCEPT !.pinned = fdb[m].pinned].ours = FALSE
      BY DEF Learned
    <2>4. [Learned(p) EXCEPT !.pinned = fdb[m].pinned] # NoEntry
      <3>1. NoEntry.port = None /\ [Learned(p) EXCEPT !.pinned = fdb[m].pinned].port = p
        BY DEF NoEntry, Learned
      <3>. QED
        BY <3>1, Values
    <2>5. [Learned(p) EXCEPT !.pinned = fdb[m].pinned].pinned = fdb[m].pinned
      BY DEF Learned
    <2>. QED
      BY <1>1, <2>2, <2>3, <2>4, <2>5 DEF SwLearn, ByOthers
  <1>2. ASSUME NEW m \in Mac, SwRemove(m) PROVE ByOthers
    BY <1>2 DEF SwRemove, ByOthers, NoEntry
  <1>3. ASSUME NEW m \in Mac, NEW p \in Ports \cup {Wifi}, UserAdd(m, p) PROVE ByOthers
    <2>1. PICK x \in BOOLEAN :
            SetEntry(m, [port |-> p, ext |-> x, ours |-> FALSE, pinned |-> TRUE])
      BY <1>3 DEF UserAdd
    <2>2. [port |-> p, ext |-> x, ours |-> FALSE, pinned |-> TRUE] \in Entry
      BY Entries
    <2>3. rtnl # "worker"
      BY <1>3 DEF UserAdd
    <2>. QED
      BY <2>1, <2>2, <2>3 DEF ByOthers
  <1>4. ASSUME NEW m \in Mac, OtherDriver(m) PROVE ByOthers
    <2>1. Foreign \in Entry /\ Foreign.ours = FALSE
      BY Entries, Values DEF Foreign
    <2>. QED
      BY <1>4, <2>1 DEF OtherDriver, ByOthers
  <1>. QED
    BY <1>1, <1>2, <1>3, <1>4 DEF Next, Environment, Dsa, Work, Teardown, BySwitch

LEMMA ByOthersFootprint ==
    ASSUME ByOthers
    PROVE  /\ ~calm
           /\ \E m \in Mac, e \in Entry \cup {NoEntry} :
                 /\ ~e.ours /\ fdb' = [fdb EXCEPT ![m] = e] /\ taken' = TakenBy(m, e)
                 /\ ~HashFree /\ rtnl = "worker" => e # NoEntry /\ e.pinned = fdb[m].pinned
           /\ UNCHANGED <<hw, bports, members, ready, fault, rows, moved, pending, rtnl, wpc, wport,
                          wmac, scan, snap, call, tpc, calm, absent>>
  BY DEF ByOthers, SetEntry, switch, worker

LEMMA BySwitchFootprint ==
    ASSUME BySwitch
    PROVE  /\ \E h : SetTable(h, members)
           /\ UNCHANGED <<fdb, bports, members, ready, fault, rows, moved, pending, rtnl, wpc, wport,
                          wmac, scan, snap, call, tpc, calm, taken>>
  BY DEF BySwitch, HwAge, HwLearn, switch, worker

LEMMA LocksStep ==
    ASSUME TypeOK, Locks, [Next]_vars
    PROVE  Locks'
  <1>1. CASE ByOthers \/ BySwitch
    BY <1>1, ByOthersFootprint, BySwitchFootprint DEF Locks
  <1>2. CASE BeginCallback
    BY <1>2 DEF Locks, BeginCallback, Begin, switch, worker, Holding
  <1>3. CASE Enter
    <2>1. call \in Call
      BY <1>3, CallTyped DEF Enter
    <2>2. CASE EndCall
      BY <1>3, <2>2 DEF Locks, Enter, EndCall, NoCall, worker, Holding
    <2>3. ASSUME NEW s \in {"post", "cancel"}, GoOn(s), s = "cancel" => members' = {} PROVE Locks'
      <3>1. call'.stage = s
        BY <2>1, <2>3 DEF GoOn, Call
      <3>. QED
        BY <1>3, <2>1, <2>3, <3>1 DEF Locks, Enter, GoOn, Call, NoCall, worker, Holding
    <2>. QED
      BY <1>3, <2>2, <2>3 DEF Enter
  <1>4. CASE EnterFails
    <2>1. call \in Call
      BY <1>4, CallTyped DEF EnterFails
    <2>. QED
      BY <1>4, <2>1 DEF Locks, EnterFails, EndCall, GoOn, Call, NoCall, worker, Holding
  <1>5. CASE Post
    BY <1>5 DEF Locks, Post, EndCall, NoCall, switch, worker, Holding
  <1>6. CASE Run \/ Start \/ Acquire \/ Recheck \/ Commit \/ Unlock \/ Retry
    BY <1>6 DEF Locks, Run, Start, Acquire, TryLock, Recheck, Commit, Unlock, Retry, WGoto, Holding, switch
  <1>7. CASE Read \/ Confirm
    BY <1>7 DEF Locks, Read, Confirm, ScanDone, Advance, WGoto, Holding, TypeOK
  <1>8. CASE Add \/ AddChange \/ Del \/ DelChange
    BY <1>8 DEF Locks, Add, AddChange, Del, DelChange, Advance, GoChange, WGoto, Holding, switch
  <1>9. CASE TeardownBegin \/ TeardownGate \/ TeardownFree \/ Rest \/ UNCHANGED vars
    BY <1>9 DEF Locks, TeardownBegin, TeardownGate, TeardownFree, CancelSync, Rest, NoCall, vars, switch,
                worker, Holding
  <1>. QED
    BY <1>1, <1>2, <1>3, <1>4, <1>5, <1>6, <1>7, <1>8, <1>9, Steps

LEMMA ClosedStep ==
    ASSUME TypeOK, Closed, NoUseAfterFree, [Next]_vars
    PROVE  Closed' /\ NoUseAfterFree'
  <1>. USE DEF Closed, NoUseAfterFree
  <1>1. CASE ByOthers \/ BySwitch
    BY <1>1, ByOthersFootprint, BySwitchFootprint
  <1>2. CASE BeginCallback \/ Enter \/ EnterFails
    BY <1>2 DEF BeginCallback, Begin, Enter, EnterFails, switch, worker
  <1>3. CASE Post
    BY <1>3 DEF Post, Requeue, Schedule, Active, switch, worker
  <1>4. CASE Run \/ Start \/ Acquire \/ Recheck \/ Commit \/ Unlock \/ Retry
    BY <1>4 DEF Run, Start, Acquire, Recheck, Commit, Unlock, Retry, Schedule, Active, WGoto, switch
  <1>5. CASE Read \/ Confirm \/ Add \/ AddChange \/ Del \/ DelChange
    BY <1>5 DEF Read, Confirm, Add, AddChange, Del, DelChange, Advance, GoChange, WGoto, switch
  <1>6. CASE TeardownBegin \/ TeardownGate \/ TeardownFree \/ Rest \/ UNCHANGED vars
    BY <1>6 DEF TeardownBegin, TeardownGate, TeardownFree, CancelSync, Rest, vars, switch, worker
  <1>. QED
    BY <1>1, <1>2, <1>3, <1>4, <1>5, <1>6, Steps

LEMMA AliveStep ==
    ASSUME TypeOK, Locks, Closed, SyncAlive, [Next]_vars
    PROVE  SyncAlive'
  <1>. USE DEF SyncAlive, Active
  <1>1. CASE ByOthers \/ BySwitch
    BY <1>1, ByOthersFootprint, BySwitchFootprint
  <1>2. CASE BeginCallback
    <2>1. call = NoCall
      BY <1>2 DEF Locks, BeginCallback, Begin
    <2>. QED
      BY <1>2, <2>1 DEF BeginCallback, Begin, NoCall, switch, worker
  <1>3. CASE Enter
    <2>1. call \in Call
      BY <1>3, CallTyped DEF Enter
    <2>2. CASE EndCall
      BY <1>3, <2>2 DEF Enter, EndCall, GoOn, Call, NoCall, worker
    <2>3. CASE GoOn("post")
      <3>1. call'.stage = "post"
        BY <2>1, <2>3 DEF GoOn, Call
      <3>. QED
        BY <3>1
    <2>4. CASE members' = {}
      BY <2>4
    <2>. QED
      BY <1>3, <2>2, <2>3, <2>4 DEF Enter
  <1>4. CASE EnterFails
    BY <1>4 DEF EnterFails
  <1>5. CASE Post
    <2>1. call.stage \in {"post", "cancel"}
      BY <1>5, CallTyped DEF TypeOK, Post, Call, NoCall
    <2>2. UNCHANGED <<ready, fault, members>>
      BY <1>5 DEF Post, switch
    <2>3. CASE call.stage = "post"
      <3>1. pending' = (pending \/ (ready /\ fault = 0 /\ members # {}))
        BY <1>5, <2>3 DEF Post, Requeue, Schedule
      <3>2. ready /\ fault = 0 /\ members # {} => pending'
        BY <3>1
      <3>. QED
        BY <2>2, <3>2
    <2>4. CASE call.stage = "cancel"
      BY <2>2, <2>4 DEF Locks
    <2>. QED
      BY <2>1, <2>3, <2>4
  <1>6. CASE Run \/ Start \/ Acquire \/ Recheck \/ Commit \/ Unlock \/ Retry
    BY <1>6 DEF Run, Start, Acquire, TryLock, Recheck, Commit, Unlock, Retry, Schedule, WGoto, switch
  <1>7. CASE Read \/ Confirm \/ Add \/ AddChange \/ Del \/ DelChange
    BY <1>7 DEF Read, Confirm, Add, AddChange, Del, DelChange, ScanDone, Advance, GoChange, WGoto, switch
  <1>8. CASE TeardownBegin \/ TeardownGate \/ TeardownFree \/ Rest \/ UNCHANGED vars
    BY <1>8 DEF Closed, TeardownBegin, TeardownGate, TeardownFree, CancelSync, Rest, vars, switch, worker
  <1>. QED
    BY <1>1, <1>2, <1>3, <1>4, <1>5, <1>6, <1>7, <1>8, Steps

LEMMA BridgedStep ==
    ASSUME TypeOK, Locks, Bridged, Standing, [Next]_vars
    PROVE  Bridged'
  <1>1. CASE ByOthers
    <2>1. PICK m \in Mac, e \in Entry \cup {NoEntry} : ~e.ours /\ fdb' = [fdb EXCEPT ![m] = e]
      BY <1>1, ByOthersFootprint
    <2>2. ASSUME NEW n \in Mac, fdb'[n].ours PROVE fdb'[n] = fdb[n]
      BY <2>1, <2>2 DEF TypeOK
    <2>. QED
      BY <1>1, <2>2, ByOthersFootprint DEF Bridged
  <1>2. CASE BySwitch
    BY <1>2, BySwitchFootprint DEF Bridged
  <1>3. CASE BeginCallback
    <2>1. call = NoCall /\ NoCall.op = "none" /\ ~NoEntry.ours
      BY <1>3 DEF Locks, BeginCallback, Begin, NoCall, NoEntry
    <2>2. PICK c \in Call : Begin(c) /\ c.stage = "enter"
      BY <1>3 DEF BeginCallback
    <2>3. UNCHANGED <<members, fault>> /\ call' = c
      BY <2>2 DEF Begin, switch
    <2>4. fault = 0 => bports = members
      BY <2>1 DEF Bridged
    <2>5. CASE c.op = "leave"
      <3>1. bports' = bports \ {c.port}
        BY <2>2, <2>5 DEF Begin
      <3>2. fdb' = [m \in Mac |-> IF fdb[m].port = c.port THEN NoEntry ELSE fdb[m]]
        BY <2>2, <2>5 DEF Begin
      <3>3. ASSUME NEW m \in Mac, fdb'[m].ours PROVE fdb'[m] = fdb[m] /\ fdb[m].port # c.port
        BY <2>1, <3>2, <3>3
      <3>. QED
        BY <2>2, <2>3, <2>4, <2>5, <3>1, <3>3 DEF Bridged
    <2>6. CASE c.op # "leave"
      <3>1. UNCHANGED <<bports, fdb>>
        BY <2>2, <2>6 DEF Begin
      <3>. QED
        BY <2>3, <2>4, <2>6, <3>1 DEF Bridged
    <2>. QED
      BY <2>5, <2>6
  <1>4. CASE Enter
    <2>1. call \in Call /\ call.stage = "enter" /\ fdb' = fdb /\ fault' = fault
      BY <1>4, CallTyped DEF Enter
    <2>2. bports \subseteq bports'
      BY <1>4 DEF Enter
    <2>3. CASE call.op = "leave"
      <3>1. members' = members \ {call.port} /\ bports' = bports /\ \E s \in {"post", "cancel"} : GoOn(s)
        BY <1>4, <2>3 DEF Enter
      <3>2. call'.stage \in {"post", "cancel"}
        BY <2>1, <3>1 DEF GoOn, Call
      <3>. QED
        BY <2>1, <2>2, <2>3, <3>1, <3>2 DEF Bridged
    <2>4. CASE call.op = "join"
      <3>1. members' = members \cup {call.port} /\ bports' = bports \cup {call.port} /\ GoOn("post")
        BY <1>4, <2>4 DEF Enter
      <3>2. call'.stage = "post"
        BY <2>1, <3>1 DEF GoOn, Call
      <3>. QED
        BY <2>1, <2>2, <2>4, <3>1, <3>2 DEF Bridged
    <2>5. CASE call.op \notin {"leave", "join"}
      <3>1. UNCHANGED <<members, bports>> /\ call' = NoCall
        BY <1>4, <2>5 DEF Enter, EndCall
      <3>. QED
        BY <2>1, <2>2, <2>5, <3>1 DEF Bridged, NoCall
    <2>. QED
      BY <2>3, <2>4, <2>5
  <1>5. CASE EnterFails
    BY <1>5 DEF Bridged, EnterFails
  <1>6. CASE Post
    <2>1. UNCHANGED <<fdb, bports, members, fault>> /\ call' = NoCall /\ call.stage # "enter"
      BY <1>6 DEF Post, EndCall, switch
    <2>. QED
      BY <2>1 DEF Bridged, NoCall
  <1>7. CASE Run \/ Start \/ Acquire \/ Recheck \/ Commit \/ Unlock \/ Retry
    BY <1>7 DEF Bridged, Run, Start, Acquire, Recheck, Commit, Unlock, Retry, switch
  <1>8. CASE Read \/ Confirm
    BY <1>8 DEF Bridged, Read, Confirm
  <1>9. CASE Add \/ AddChange
    <2>1. UNCHANGED <<bports, members, fault, call>>
      BY <1>9 DEF Add, AddChange, switch
    <2>2. ASSUME NEW n \in Mac, fdb'[n].ours
          PROVE  \/ fdb'[n] = fdb[n]
                 \/ \E p \in bports : fdb'[n] = Mirrored(p)
      <3>1. CASE Add
        BY <2>2, <3>1 DEF Add, TypeOK
      <3>2. CASE AddChange
        <4>1. PICK r \in Additions(wmac) : fdb' = [fdb EXCEPT ![wmac] = Mirrored(r[2])]
          BY <3>2 DEF AddChange
        <4>2. r[2] \in bports
          BY <3>2, <4>1 DEF AddChange, Standing
        <4>. QED
          BY <4>1, <4>2 DEF TypeOK
      <3>. QED
        BY <1>9, <3>1, <3>2
    <2>3. \A p : Mirrored(p).ext /\ ~Mirrored(p).pinned /\ Mirrored(p).port = p
      BY DEF Mirrored
    <2>. QED
      BY <2>1, <2>2, <2>3 DEF Bridged
  <1>10. CASE Del \/ DelChange
    <2>1. UNCHANGED <<bports, members, fault, call>>
      BY <1>10 DEF Del, DelChange, switch
    <2>2. ASSUME NEW n \in Mac, fdb'[n].ours PROVE fdb'[n] = fdb[n]
      BY <1>10, <2>2 DEF Del, DelChange, TypeOK, NoEntry
    <2>. QED
      BY <2>1, <2>2 DEF Bridged
  <1>11. CASE TeardownBegin \/ TeardownGate \/ TeardownFree \/ Rest \/ UNCHANGED vars
    BY <1>11 DEF Bridged, TeardownBegin, TeardownGate, TeardownFree, Rest, vars, switch
  <1>. QED
    BY <1>1, <1>2, <1>3, <1>4, <1>5, <1>6, <1>7, <1>8, <1>9, <1>10, <1>11, Steps

LEMMA SnapshotStep ==
    ASSUME TypeOK, Locks, Closed, Snapshot, [Next]_vars
    PROVE  Snapshot'
  <1>. USE DEF Sweeping, Trusted, Holding
  <1>1. CASE ByOthers
    BY <1>1, ByOthersFootprint DEF Snapshot, RowsValid
  <1>2. CASE BySwitch
    <2>1. PICK h : SetTable(h, members)
      BY <1>2, BySwitchFootprint
    <2>2. wpc # "off" => \A m \in Mac : hw'[m] \notin members => m \in absent'
      BY <2>1 DEF SetTable
    <2>. QED
      BY <1>2, <2>2, BySwitchFootprint DEF Snapshot, RowsValid
  <1>3. CASE BeginCallback
    BY <1>3 DEF Snapshot, BeginCallback, Begin, switch, worker, RowsValid
  <1>4. CASE Enter
    <2>1. /\ UNCHANGED <<ready, wpc, wport, wmac, scan, snap>>
          /\ moved' = TRUE /\ wpc # "confirm" /\ call # NoCall
      BY <1>4 DEF Enter, UcFree, worker, NoCall
    <2>2. wpc \notin Holding
      BY <2>1 DEF Locks
    <2>3. wpc # "off" => \A m \in Mac : hw'[m] \notin members' => \/ m \in absent'
                 \/ UNCHANGED <<hw, absent, members>>
      BY <1>4 DEF Enter, SetTable
    <2>. QED
      BY <2>1, <2>2, <2>3 DEF Snapshot, RowsValid
  <1>5. CASE EnterFails \/ Post
    BY <1>5 DEF Snapshot, EnterFails, Post, switch, worker, RowsValid
  <1>6. CASE Run \/ Acquire \/ Unlock \/ Retry
    BY <1>6 DEF Snapshot, Run, Acquire, TryLock, Unlock, Retry, WGoto, switch, RowsValid
  <1>7. CASE Start
    BY <1>7 DEF Snapshot, Start, WGoto, switch, RowsValid
  <1>8. CASE Read
    <2>1. UNCHANGED <<hw, members, ready, moved, absent, snap>> /\ wpc = "read"
      BY <1>8 DEF Read, WGoto
    <2>2. wpc' \in {"read", "trylock"} => scan' \subseteq Mac \X snap
      BY <1>8, <2>1 DEF Read, WGoto, ScanDone, ScanRow, Snapshot, TypeOK
    <2>3. wpc' = "trylock" => RowsValid(scan')
      BY <1>8 DEF Read, ScanDone, WGoto
    <2>4. wpc' \in {"read", "trylock", "retry"}
      BY <1>8 DEF Read, ScanDone, WGoto
    <2>. QED
      BY <2>1, <2>2, <2>3, <2>4 DEF Snapshot, RowsValid
  <1>9. CASE Recheck
    BY <1>9 DEF Snapshot, Recheck, StillValid, WGoto, switch, RowsValid
  <1>10. CASE Confirm
    <2>1. UNCHANGED <<hw, members, ready, moved, absent, snap>> /\ wpc = "confirm"
      BY <1>10 DEF Confirm, WGoto, Advance
    <2>2. wpc' \in {"confirm", "add", "unlock"}
      BY <1>10 DEF Confirm, WGoto, Advance
    <2>3. ASSUME scan' # scan
          PROVE  ~Has(wmac) /\ scan' = scan \cup FoundAgain(wmac)
      BY <1>10, <2>3 DEF Confirm, WGoto
    <2>4. scan' \subseteq Mac \X snap
      BY <2>1, <2>3 DEF FoundAgain, Snapshot, TypeOK
    <2>5. RowsValid(scan')
      <3>1. RowsValid(scan) /\ scan \subseteq Row
        BY <2>1 DEF Snapshot, TypeOK
      <3>2. ASSUME ~Has(wmac), NEW r \in scan PROVE r[1] # wmac
        BY <3>1, <3>2 DEF Has, Row
      <3>3. \A r \in FoundAgain(wmac) : r = <<wmac, hw[wmac]>>
        BY DEF FoundAgain
      <3>. QED
        BY <2>3, <3>1, <3>2, <3>3 DEF RowsValid
    <2>. QED
      BY <2>1, <2>2, <2>4, <2>5 DEF Snapshot
  <1>11. CASE Add \/ AddChange \/ Del \/ DelChange
    BY <1>11 DEF Snapshot, Add, AddChange, Del, DelChange, Advance, GoChange, WGoto, switch, RowsValid
  <1>12. CASE Commit
    BY <1>12 DEF Snapshot, Commit, WGoto, RowsValid
  <1>13. CASE TeardownGate
    BY <1>13 DEF Snapshot, TeardownGate, UcFree, worker, RowsValid
  <1>14. CASE TeardownBegin \/ TeardownFree \/ Rest \/ UNCHANGED vars
    BY <1>14 DEF Snapshot, TeardownBegin, TeardownFree, Rest, vars, switch, worker, RowsValid
  <1>. QED
    BY <1>1, <1>2, <1>3, <1>4, <1>5, <1>6, <1>7, <1>8, <1>9, <1>10, <1>11, <1>12, <1>13, <1>14, Steps

LEMMA LookedStep ==
    ASSUME TypeOK, Locks, Snapshot, Looked, [Next]_vars
    PROVE  Looked'
  <1>. USE DEF Looked, Deletes, Has
  <1>1. CASE ByOthers
    BY <1>1, ByOthersFootprint
  <1>2. CASE BySwitch
    <2>1. wpc # "off" => absent \subseteq absent'
      BY <1>2, BySwitchFootprint DEF SetTable
    <2>. QED
      BY <1>2, <2>1, BySwitchFootprint
  <1>3. CASE BeginCallback
    BY <1>3 DEF BeginCallback, Begin, switch, worker
  <1>4. CASE Enter
    <2>1. wpc \notin Holding /\ wpc' = wpc
      BY <1>4 DEF Enter, Locks, NoCall, worker
    <2>. QED
      BY <2>1 DEF Holding
  <1>5. CASE EnterFails \/ Post
    BY <1>5 DEF EnterFails, Post, switch, worker
  <1>6. CASE Run \/ Start \/ Acquire \/ Commit \/ Unlock \/ Retry
    BY <1>6 DEF Run, Start, Acquire, TryLock, Commit, Unlock, Retry, WGoto
  <1>7. CASE Recheck
    <2>1. \A m \in Mac : ~(m < 0)
      BY NMacsAssumption DEF Mac
    <2>. QED
      BY <1>7, <2>1 DEF Recheck, WGoto
  <1>8. CASE Read
    BY <1>8 DEF Read, ScanDone, WGoto
  <1>9. CASE Confirm
    <2>1. UNCHANGED <<hw, members, rows, absent, snap>> /\ wpc = "confirm" /\ wmac \in Mac
      BY <1>9 DEF Confirm, WGoto, Advance, TypeOK
    <2>2. CASE wpc' = "unlock"
      BY <2>2
    <2>3. CASE wpc' # "unlock"
      <3>1. scan' = scan \cup (IF Deletes(wmac) THEN FoundAgain(wmac) ELSE {})
        BY <1>9, <2>3 DEF Confirm, WGoto
      <3>2. members = snap /\ (hw[wmac] \notin members => wmac \in absent)
        BY <2>1 DEF Snapshot, Sweeping, Holding
      <3>3. ASSUME hw[wmac] \in snap PROVE <<wmac, hw[wmac]>> \in FoundAgain(wmac) /\ hw[wmac] \in Ports
        BY <3>3 DEF FoundAgain, TypeOK
      <3>4. rows[wmac] # None /\ ~(\E p \in Ports : <<wmac, p>> \in scan') => wmac \in absent
        BY <3>1, <3>2, <3>3
      <3>5. \A m \in Mac : m < wmac /\ rows[m] # None /\ ~(\E p \in Ports : <<m, p>> \in scan') => m \in absent
        BY <2>1, <3>1
      <3>6. \/ wmac < NMacs - 1 /\ wmac' = wmac + 1 /\ wpc' = "confirm"
            \/ wmac >= NMacs - 1 /\ wpc' = "add"
        BY <1>9, <2>1, <2>3, NMacsAssumption DEF Confirm, WGoto, Advance, Mac
      <3>7. \A m \in Mac : m < wmac \/ m = wmac \/ (m > wmac /\ wmac < NMacs - 1)
        BY <2>1, NMacsAssumption DEF Mac
      <3>8. \A m \in Mac : m < wmac + 1 => m < wmac \/ m = wmac
        BY <2>1 DEF Mac
      <3>9. \A m \in Mac : m < wmac' \/ wpc' = "add" => m < wmac \/ m = wmac
        <4>1. CASE wmac < NMacs - 1 /\ wmac' = wmac + 1 /\ wpc' = "confirm"
          BY <3>8, <4>1
        <4>2. CASE wmac >= NMacs - 1 /\ wpc' = "add"
          <5>1. ~(wmac < NMacs - 1)
            BY <2>1, <4>2, NMacsAssumption DEF Mac
          <5>. QED
            BY <3>7, <5>1
        <4>. QED
          BY <3>6, <4>1, <4>2
      <3>10. wpc' \notin {"adding", "del", "deleting"}
        BY <3>6
      <3>. QED
        BY <2>1, <3>4, <3>5, <3>9, <3>10
    <2>. QED
      BY <2>2, <2>3
  <1>10. CASE Add \/ AddChange \/ Del \/ DelChange
    BY <1>10 DEF Add, AddChange, Del, DelChange, Advance, GoChange, WGoto, switch
  <1>11. CASE TeardownBegin \/ TeardownGate \/ TeardownFree \/ Rest \/ UNCHANGED vars
    BY <1>11 DEF TeardownBegin, TeardownGate, TeardownFree, Rest, vars, switch, worker
  <1>. QED
    BY <1>1, <1>2, <1>3, <1>4, <1>5, <1>6, <1>7, <1>8, <1>9, <1>10, <1>11, Steps

LEMMA StandingStep ==
    ASSUME TypeOK, Locks, Snapshot, Standing, [Next]_vars
    PROVE  Standing'
  <1>1. CASE ByOthers
    <2>1. PICK m \in Mac, e \in Entry \cup {NoEntry} :
            /\ ~e.ours /\ fdb' = [fdb EXCEPT ![m] = e] /\ taken' = TakenBy(m, e)
            /\ ~HashFree /\ rtnl = "worker" => e # NoEntry /\ e.pinned = fdb[m].pinned
      BY <1>1, ByOthersFootprint
    <2>2. UNCHANGED <<wpc, wmac, scan, bports, rtnl>>
      BY <1>1, ByOthersFootprint
    <2>3. fdb'[m] = e /\ \A n \in Mac \ {m} : fdb'[n] = fdb[n]
      BY <2>1 DEF TypeOK
    <2>4. ~HashFree => e.pinned = fdb[m].pinned
      BY <2>1 DEF HashFree, Locks, Holding
    <2>5. ASSUME NEW n \in taken'
          PROVE  fdb'[n] # NoEntry /\ (fdb'[n].ours => Announced(n)')
      <3>1. CASE n = m
        <4>1. e # NoEntry
          BY <2>1, <2>5, <3>1 DEF TakenBy
        <4>. QED
          BY <2>1, <2>3, <3>1, <4>1
      <3>2. CASE n # m
        <4>1. n \in taken /\ n \in Mac
          BY <2>1, <2>5, <3>2 DEF TakenBy, TypeOK
        <4>2. Announced(n)' = Announced(n)
          BY <2>2 DEF Announced, Has
        <4>. QED
          BY <2>3, <3>2, <4>1, <4>2 DEF Standing
      <3>. QED
        BY <3>1, <3>2
    <2>6. wmac \in Mac
      BY DEF TypeOK
    <2>7. ~HashFree => fdb'[wmac].pinned = fdb[wmac].pinned
      BY <2>3, <2>4, <2>6
    <2>8. ~HashFree /\ wmac \in taken' => wmac \in taken /\ fdb'[wmac] = fdb[wmac]
      BY <2>1, <2>3, <2>6 DEF TakenBy
    <2>. QED
      BY <2>2, <2>5, <2>7, <2>8 DEF Standing, HashFree, Additions
  <1>2. CASE BySwitch
    BY <1>2, BySwitchFootprint DEF Standing, Announced, Has, Additions
  <1>3. CASE BeginCallback
    <2>1. PICK c \in Call : Begin(c)
      BY <1>3 DEF BeginCallback
    <2>2. wpc \notin Holding /\ UNCHANGED <<wpc, wmac, scan>>
      BY <2>1 DEF Begin, Locks, worker
    <2>3. \A n \in taken' : n \in taken /\ n \in Mac /\ fdb'[n] = fdb[n]
      BY <2>1 DEF Begin, TypeOK
    <2>. QED
      BY <2>2, <2>3 DEF Standing, Announced, Has, Holding
  <1>4. CASE Enter
    <2>1. wpc \notin Holding
      BY <1>4 DEF Enter, Locks, NoCall
    <2>2. UNCHANGED <<fdb, wpc, wmac, scan, taken>>
      BY <1>4 DEF Enter, worker
    <2>. QED
      BY <2>1, <2>2 DEF Standing, Announced, Has, Holding
  <1>5. CASE EnterFails \/ Post
    BY <1>5 DEF EnterFails, Post, switch, worker, Standing, Announced, Has, Additions
  <1>6. CASE Run \/ Start \/ Acquire \/ Recheck \/ Commit \/ Unlock
    <2>1. UNCHANGED <<fdb, taken>> /\ wpc' \notin {"add", "adding", "del", "deleting"}
      BY <1>6 DEF Run, Start, Acquire, TryLock, Recheck, Commit, Unlock, WGoto
    <2>2. \A m : Announced(m) => wpc' \in {"unlock", "retry"}
      BY <1>6 DEF Announced, Run, Start, Acquire, Recheck, Commit, Unlock, WGoto
    <2>. QED
      BY <2>1, <2>2 DEF Standing, Announced
  <1>7. CASE Retry
    BY <1>7 DEF Retry, Standing
  <1>8. CASE Read \/ Confirm
    <2>1. UNCHANGED <<fdb, taken>> /\ wpc' \notin {"adding", "deleting"}
      BY <1>8 DEF Read, Confirm, ScanDone, Advance, WGoto
    <2>2. \A m : ~Announced(m)
      BY <1>8 DEF Read, Confirm, Announced
    <2>. QED
      BY <2>1, <2>2 DEF Standing
  <1>9. CASE Add
    <2>1. /\ UNCHANGED <<bports, scan, taken>> /\ wpc = "add" /\ wmac \in Mac /\ wmac \in Int
          /\ NMacs \in Int
      BY <1>9, NMacsAssumption DEF Add, Advance, GoChange, WGoto, Mac, TypeOK
    <2>2. wmac \in taken => fdb[wmac] # NoEntry /\ ~fdb[wmac].ours
      BY <2>1 DEF Standing, Announced
    <2>3. ASSUME NEW n \in taken, fdb'[n] # fdb[n] PROVE FALSE
      <3>1. n = wmac /\ fdb[wmac] = NoEntry
        BY <1>9, <2>3 DEF Add, TypeOK
      <3>. QED
        BY <2>2, <2>3, <3>1
    <2>4. \A n \in Mac : Has(n)' = Has(n)
      BY <2>1 DEF Has
    <2>5. ASSUME NEW n \in taken, fdb[n].ours PROVE Announced(n)'
      <3>1. n < wmac /\ Has(n) /\ n \in Mac /\ n \in Int
        BY <2>1, <2>5, NMacsAssumption DEF Standing, Announced, TypeOK, Mac
      <3>2. \/ wpc' \in {"add", "adding"} /\ wmac' \in {wmac, wmac + 1}
            \/ wpc' \in {"del", "unlock"}
        BY <1>9, <2>1 DEF Add, Advance, GoChange, WGoto
      <3>3. n < wmac + 1
        BY <2>1, <3>1
      <3>. QED
        BY <2>4, <3>1, <3>2, <3>3 DEF Announced
    <2>6. ASSUME wpc' = "adding"
          PROVE  /\ wmac' = wmac /\ fdb' = fdb
                 /\ \E r \in Additions(wmac) :
                       r[2] \in bports /\ fdb[wmac] # NoEntry /\ AddAllowed(fdb[wmac], r[2])
      BY <1>9, <2>6 DEF Add, Advance, GoChange, WGoto
    <2>7. ASSUME wpc' = "adding"
          PROVE  /\ ~fdb[wmac].pinned
                 /\ \A r \in Additions(wmac) : r[2] \in bports /\ (wmac \in taken => fdb[wmac].port = r[2])
      <3>1. PICK r \in Additions(wmac) : r[2] \in bports /\ AddAllowed(fdb[wmac], r[2])
        BY <2>6, <2>7
      <3>2. \A q \in Additions(wmac) : q = r
        BY <2>1 DEF Additions, Snapshot, Trusted, RowsValid
      <3>. QED
        BY <2>2, <3>1, <3>2 DEF AddAllowed
    <2>8. wpc' # "deleting"
      BY <1>9 DEF Add, Advance, GoChange, WGoto
    <2>9. wpc' = "adding" => Additions(wmac)' = Additions(wmac)
      BY <2>1, <2>6 DEF Additions
    <2>. QED
      BY <2>1, <2>3, <2>5, <2>6, <2>7, <2>8, <2>9 DEF Standing
  <1>10. CASE AddChange
    <2>1. /\ UNCHANGED <<bports, scan, taken>> /\ wpc = "adding" /\ wmac \in Mac /\ wmac \in Int
          /\ NMacs \in Int
      BY <1>10, NMacsAssumption DEF AddChange, Advance, Mac, TypeOK
    <2>2. PICK r \in Additions(wmac) : fdb' = [fdb EXCEPT ![wmac] = Mirrored(r[2])]
      BY <1>10 DEF AddChange
    <2>3. \A n \in Mac : Has(n)' = Has(n)
      BY <2>1 DEF Has
    <2>4. r[2] \in Ports /\ <<wmac, r[2]>> \in scan
      BY <2>2 DEF Additions, TypeOK, Row
    <2>5. \/ wpc' = "add" /\ wmac' = wmac + 1
          \/ wpc' = "del"
      BY <1>10 DEF AddChange, Advance
    <2>6. ASSUME NEW n \in taken
          PROVE  fdb'[n] # NoEntry /\ (fdb'[n].ours => Announced(n)')
      <3>1. n \in Mac /\ n \in Int
        BY <2>6, NMacsAssumption DEF TypeOK, Mac
      <3>2. CASE n = wmac
        <4>1. fdb'[n] = Mirrored(r[2])
          BY <2>1, <2>2, <3>2 DEF TypeOK
        <4>2. Mirrored(r[2]).ours /\ ~NoEntry.ours
          BY DEF Mirrored, NoEntry
        <4>3. Has(n)
          BY <2>4, <3>2 DEF Has
        <4>4. n < wmac + 1
          BY <2>1, <3>2
        <4>. QED
          BY <2>3, <2>5, <3>1, <4>1, <4>2, <4>3, <4>4 DEF Announced
      <3>3. CASE n # wmac
        <4>1. fdb'[n] = fdb[n]
          BY <2>2, <3>1, <3>3 DEF TypeOK
        <4>2. fdb[n] # NoEntry /\ (fdb[n].ours => n < wmac /\ Has(n))
          BY <2>1, <2>6 DEF Standing, Announced
        <4>3. n < wmac => n < wmac + 1
          BY <2>1, <3>1
        <4>. QED
          BY <2>3, <2>5, <3>1, <4>1, <4>2, <4>3 DEF Announced
      <3>. QED
        BY <3>2, <3>3
    <2>. QED
      BY <2>1, <2>5, <2>6 DEF Standing
  <1>11. CASE Del
    <2>1. UNCHANGED <<fdb, scan, rows, taken>> /\ wpc = "del" /\ wmac \in Mac
      BY <1>11 DEF Del, Advance, GoChange, switch, TypeOK
    <2>2. wpc' \in {"del", "deleting", "commit"}
      BY <1>11 DEF Del, Advance, GoChange
    <2>3. ASSUME wpc' = "deleting" PROVE wmac' = wmac /\ wmac \notin taken
      <3>1. wmac' = wmac /\ ~Has(wmac) /\ fdb[wmac].ours
        BY <1>11, <2>3 DEF Del, Advance, GoChange, Deletes, DelAllowed
      <3>. QED
        BY <2>1, <3>1 DEF Standing, Announced
    <2>4. \A n \in taken : fdb[n].ours => Announced(n)'
      BY <2>1, <2>2 DEF Standing, Announced, Has
    <2>. QED
      BY <2>1, <2>2, <2>3, <2>4 DEF Standing
  <1>12. CASE DelChange
    <2>1. UNCHANGED <<scan, taken>> /\ wpc = "deleting" /\ wmac \notin taken
      BY <1>12 DEF DelChange, Advance, Standing
    <2>2. wpc' \in {"del", "commit"}
      BY <1>12 DEF DelChange, Advance
    <2>3. \A n \in taken : fdb'[n] = fdb[n]
      BY <1>12, <2>1 DEF DelChange, TypeOK
    <2>4. \A n \in taken : fdb[n].ours => Announced(n)'
      BY <2>1, <2>2 DEF Standing, Announced, Has
    <2>. QED
      BY <2>1, <2>2, <2>3, <2>4 DEF Standing
  <1>13. CASE TeardownBegin \/ TeardownGate \/ TeardownFree \/ Rest \/ UNCHANGED vars
    BY <1>13 DEF TeardownBegin, TeardownGate, TeardownFree, Rest, vars, switch, worker,
                Standing, Announced, Has, Additions
  <1>. QED
    BY <1>1, <1>2, <1>3, <1>4, <1>5, <1>6, <1>7, <1>8, <1>9, <1>10, <1>11, <1>12, <1>13, Steps

LEMMA InitInv == Init => Inv
  <1>1. Init => /\ call = NoCall /\ fault = 0 /\ bports = {} /\ members = {} /\ wpc = "off"
                /\ tpc = "up" /\ fdb = [m \in Mac |-> NoEntry] /\ taken = {}
    BY DEF Init
  <1>2. NoCall.op = "none" /\ NoCall.stage = "enter" /\ ~NoEntry.ours
    BY DEF NoCall, NoEntry
  <1>. QED
    BY <1>1, <1>2, InitTyped DEF Inv, Locks, Closed, Bridged, Snapshot, Looked, Standing, NoUseAfterFree,
       SyncAlive, Active, Holding, Trusted, Sweeping

LEMMA StepInv == Inv /\ [Next]_vars => Inv'
  BY TypeStep, LocksStep, ClosedStep, AliveStep, BridgedStep, SnapshotStep, LookedStep, StandingStep
     DEF Inv

THEOREM Invariance == Spec => []Inv
  BY InitInv, StepInv, PTL DEF Spec

(* Every variable keeps its range, whatever the switch, the bridge and the *)
(* callbacks do.                                                           *)
THEOREM TypeCorrect == Spec => []TypeOK
  <1>1. Inv => TypeOK
    BY DEF Inv
  <1>. QED
    BY <1>1, Invariance, PTL

(* cancel_delayed_work_sync after the gate is enough: nothing queues the   *)
(* work again, and it is over before its buffers are freed.                *)
THEOREM FreedAtRest == Spec => []NoUseAfterFree
  <1>1. Inv => NoUseAfterFree
    BY DEF Inv
  <1>. QED
    BY <1>1, Invariance, PTL

(* No path through the worker or a callback loses the next run.            *)
THEOREM WorkNeverLost == Spec => []SyncAlive
  <1>1. Inv => SyncAlive
    BY DEF Inv
  <1>. QED
    BY <1>1, Invariance, PTL

(* The second lookup makes up for what moved behind the cursor.            *)
THEOREM NothingFalselyDeleted == Spec => []NoFalseDelete
  <1>1. Inv => NoFalseDelete
    BY DEF Inv, Looked, TypeOK, NoFalseDelete
  <1>. QED
    BY <1>1, Invariance, PTL

(* RTNL, hash_lock and the guard together: applying a snapshot changes     *)
(* nothing that others have entered or moved since its scan began.         *)
THEOREM TakenIsKept == Spec => TakeoverStands
  <1>1. ASSUME Inv, Work, NEW m \in taken
        PROVE  fdb'[m].port = fdb[m].port /\ fdb'[m].pinned = fdb[m].pinned
    <2>1. m \in Mac /\ fdb[m] # NoEntry
      BY <1>1 DEF Inv, TypeOK, Standing
    <2>2. CASE Add
      BY <1>1, <2>1, <2>2 DEF Add, Inv, TypeOK
    <2>3. CASE AddChange
      <3>1. PICK r \in Additions(wmac) : fdb' = [fdb EXCEPT ![wmac] = Mirrored(r[2])]
        BY <2>3 DEF AddChange
      <3>2. m = wmac => fdb[m].port = r[2] /\ ~fdb[m].pinned
        BY <1>1, <2>3, <3>1 DEF AddChange, Inv, Standing
      <3>3. fdb[m].pinned \in BOOLEAN
        BY <1>1, <2>1, Fields DEF Inv, TypeOK
      <3>4. Mirrored(r[2]).port = r[2] /\ Mirrored(r[2]).pinned = FALSE
        BY DEF Mirrored
      <3>5. m = wmac => fdb'[m] = Mirrored(r[2])
        BY <1>1, <2>1, <3>1 DEF Inv, TypeOK
      <3>6. m # wmac => fdb'[m] = fdb[m]
        BY <1>1, <2>1, <3>1 DEF Inv, TypeOK
      <3>. QED
        BY <3>2, <3>3, <3>4, <3>5, <3>6
    <2>4. CASE DelChange
      BY <1>1, <2>1, <2>4 DEF DelChange, Inv, TypeOK, Standing
    <2>5. CASE ~(Add \/ AddChange \/ DelChange)
      BY <1>1, <2>5 DEF Work, Run, Start, Read, Acquire, Recheck, Confirm, Del, Commit, Unlock, Retry
    <2>. QED
      BY <2>2, <2>3, <2>4, <2>5
  <1>2. Inv /\ [Next]_vars =>
            [Work => \A m \in taken :
                fdb'[m].port = fdb[m].port /\ fdb'[m].pinned = fdb[m].pinned]_vars
    BY <1>1
  <1>. QED
    BY <1>2, Invariance, PTL DEF Spec, TakeoverStands

----------------------------------------------------------------------------
(* The rest is about a bridge whose notifiers do not run out of memory;    *)
(* with one that does, an address can be lost between two snapshots.       *)

LEMMA LedgerKept ==
    ASSUME Ledger, ready' => ready, fault' = 0 => fault = 0,
           \A m \in Mac : fdb'[m].ours => fdb'[m] = fdb[m],
           rows' = rows, wpc' \notin {"add", "adding", "del", "deleting", "commit"}, wpc \notin {"add", "adding", "del", "deleting", "commit"}
    PROVE  Ledger'
  BY DEF Ledger, Owned, Turned

LEMMA LedgerUntouched ==
    ASSUME Ledger, ready' => ready, fault' = 0 => fault = 0,
           \A m \in Mac : fdb'[m].ours => fdb'[m] = fdb[m],
           UNCHANGED <<rows, wpc, wmac, scan>>
    PROVE  Ledger'
  BY DEF Ledger, Owned, Turned, Has

LEMMA WhileTrusted ==
    ASSUME Inv, wpc \in Trusted, ready, fault = 0
    PROVE  /\ members = snap /\ bports = members /\ call = NoCall /\ ~moved
           /\ scan \subseteq Mac \X bports
           /\ RowsValid(scan)
  <1>1. call = NoCall /\ NoCall.op = "none"
    BY DEF Inv, Locks, Trusted, Holding, NoCall
  <1>2. bports = members
    BY <1>1 DEF Inv, Bridged
  <1>. QED
    BY <1>1, <1>2 DEF Inv, Snapshot, Sweeping, Holding, Trusted

LEMMA LedgerStep ==
    ASSUME Inv, Ledger, ~NotifyFails, [Next]_vars
    PROVE  Ledger'
  <1>0. TypeOK
    BY DEF Inv
  <1>1. CASE ByOthers
    <2>1. PICK m \in Mac, e \in Entry \cup {NoEntry} : ~e.ours /\ fdb' = [fdb EXCEPT ![m] = e]
      BY <1>1, ByOthersFootprint
    <2>2. \A n \in Mac : fdb'[n].ours => fdb'[n] = fdb[n]
      BY <1>0, <2>1 DEF TypeOK
    <2>. QED
      BY <1>1, <2>2, ByOthersFootprint, LedgerUntouched
  <1>2. CASE BySwitch
    BY <1>2, BySwitchFootprint, LedgerUntouched
  <1>3. CASE BeginCallback
    <2>1. PICK c \in Call : Begin(c)
      BY <1>3 DEF BeginCallback
    <2>2. \A m \in Mac : fdb'[m].ours => fdb'[m] = fdb[m]
      BY <2>1 DEF Begin, NoEntry
    <2>3. UNCHANGED <<ready, fault, rows, wpc, wmac, scan>>
      BY <2>1 DEF Begin, switch, worker
    <2>. QED
      BY <2>2, <2>3, LedgerUntouched
  <1>4. CASE Enter
    <2>1. UNCHANGED <<fdb, ready, fault, wpc, wmac, scan>>
      BY <1>4 DEF Enter, worker
    <2>2. CASE rows' = rows
      BY <2>1, <2>2, LedgerUntouched
    <2>3. CASE rows' # rows /\ fault = 0
      <3>1. call.op = "leave" /\ members' = members \ {call.port} /\ members' = {} /\ call.stage = "enter"
        BY <1>4, <2>3 DEF Enter, RowsAfterLeave
      <3>2. bports = {}
        BY <2>3, <3>1 DEF Inv, Bridged
      <3>3. \A m \in Mac : ~fdb[m].ours
        BY <3>2 DEF Inv, Bridged
      <3>. QED
        BY <2>1, <3>3 DEF Ledger, Owned, Turned
    <2>4. CASE fault # 0
      BY <2>1, <2>4 DEF Ledger
    <2>. QED
      BY <2>2, <2>3, <2>4
  <1>5. CASE EnterFails
    BY <1>5 DEF EnterFails, Ledger
  <1>6. CASE Post
    BY <1>6, LedgerUntouched DEF Post, switch, worker
  <1>7. CASE Run \/ Start \/ Acquire \/ Recheck \/ Unlock \/ Retry
    BY <1>7, LedgerKept DEF Run, Start, Acquire, TryLock, Recheck, Unlock, Retry, WGoto, switch
  <1>8. CASE Read
    <2>1. fault' = 0 => fault = 0
      BY <1>0, <1>8 DEF Read
    <2>. QED
      BY <1>8, <2>1, LedgerKept DEF Read, WGoto, ScanDone
  <1>9. CASE Confirm
    <2>1. UNCHANGED <<fdb, ready, rows>> /\ (fault' = 0 => fault = 0) /\ wpc = "confirm"
      BY <1>0, <1>9 DEF Confirm
    <2>2. wpc' \in {"confirm", "unlock"} \/ (wpc' = "add" /\ wmac' = 0)
      BY <1>9 DEF Confirm, WGoto, Advance
    <2>3. \A m \in Mac : ~(m < 0)
      BY NMacsAssumption DEF Mac
    <2>. QED
      BY <2>1, <2>2, <2>3 DEF Ledger, Owned, Turned
  <1>15. CASE (Add \/ Del) /\ ~HashFree'
    <2>1. /\ UNCHANGED <<fdb, ready, fault, rows, scan, wmac>>
          /\ (wpc = "add" /\ wpc' = "adding") \/ (wpc = "del" /\ wpc' = "deleting")
      <3>1. CASE Add
        BY <1>15, <3>1 DEF Add, Advance, GoChange, WGoto, HashFree, switch
      <3>2. CASE Del
        BY <1>15, <3>2 DEF Del, Advance, GoChange, WGoto, HashFree, switch
      <3>. QED
        BY <1>15, <3>1, <3>2
    <2>. QED
      BY <2>1 DEF Ledger, Owned, Turned, Has
  <1>10. CASE Add /\ HashFree'
    <2>. SUFFICES ASSUME ready', fault' = 0, NEW m \in Mac, fdb'[m].ours
                  PROVE  IF Turned(m)' THEN <<m, fdb'[m].port>> \in scan' ELSE rows'[m] = fdb'[m].port
      BY DEF Ledger, Owned, Turned
    <2>1. UNCHANGED <<ready, fault, rows, scan, members, bports>> /\ wpc = "add" /\ wmac \in Mac
      BY <1>0, <1>10 DEF Add, Advance, GoChange, WGoto, switch, TypeOK
    <2>2. scan \subseteq Mac \X bports
      BY <2>1, WhileTrusted DEF Trusted
    <2>3. Turned(m)' <=> (m < wmac \/ m = wmac) /\ Has(m)
      <3>1. \/ wmac < NMacs - 1 /\ wmac' = wmac + 1 /\ wpc' = "add"
            \/ ~(wmac < NMacs - 1) /\ wmac' = 0 /\ wpc' = "del"
        BY <1>10, <2>1 DEF Add, Advance, GoChange, HashFree
      <3>2. Has(m)' = Has(m)
        BY <2>1 DEF Has
      <3>3. (m < wmac + 1 <=> m < wmac \/ m = wmac) /\ ~(m < 0)
        BY <2>1, NMacsAssumption DEF Mac
      <3>4. ~(wmac < NMacs - 1) => m < wmac \/ m = wmac
        BY <2>1, NMacsAssumption DEF Mac
      <3>. QED
        BY <3>1, <3>2, <3>3, <3>4 DEF Turned
    <2>4. CASE m # wmac
      <3>1. fdb'[m] = fdb[m]
        BY <1>0, <1>10, <2>4 DEF Add, TypeOK
      <3>2. IF m < wmac /\ Has(m) THEN <<m, fdb[m].port>> \in scan ELSE rows[m] = fdb[m].port
        BY <2>1, <3>1 DEF Ledger, Owned, Turned
      <3>. QED
        BY <2>1, <2>3, <2>4, <3>1, <3>2
    <2>5. CASE m = wmac
      <3>1. ~(m < m)
        BY <2>1, <2>5, NMacsAssumption DEF Mac
      <3>2. fdb[m].ours => rows[m] = fdb[m].port
        BY <2>1, <2>5, <3>1 DEF Ledger, Owned, Turned
      <3>3. CASE Additions(wmac) = {}
        <4>1. ~Has(m)
          <5>1. ASSUME NEW p \in Ports, <<m, p>> \in scan PROVE <<m, p>> \in Additions(wmac)
            BY <2>5, <5>1 DEF Additions
          <5>. QED
            BY <3>3, <5>1 DEF Has
        <4>2. fdb' = fdb
          BY <1>10, <3>3 DEF Add
        <4>. QED
          BY <2>1, <2>3, <3>2, <4>1, <4>2
      <3>4. ASSUME NEW r \in Additions(wmac), fdb' = [fdb EXCEPT ![wmac] = Mirrored(r[2])]
            PROVE  <<m, fdb'[m].port>> \in scan' /\ Has(m)
        <4>1. r \in scan /\ r = <<m, r[2]>> /\ r[2] \in Ports
          BY <1>0, <2>5, <3>4 DEF Additions, TypeOK, Row
        <4>2. fdb'[m].port = r[2]
          BY <1>0, <2>5, <3>4 DEF TypeOK, Mirrored
        <4>. QED
          BY <2>1, <4>1, <4>2 DEF Has
      <3>5. ASSUME NEW r \in Additions(wmac), fdb' = fdb,
                   r[2] \notin bports \/ (fdb[wmac] # NoEntry /\ ~AddAllowed(fdb[wmac], r[2]))
            PROVE  FALSE
        <4>1. r[2] \in bports
          BY <2>2, <3>5 DEF Additions
        <4>2. fdb[m].ours /\ fdb[m].ext /\ ~fdb[m].pinned
          BY <3>5 DEF Inv, Bridged
        <4>. QED
          BY <2>5, <3>5, <4>1, <4>2 DEF AddAllowed
      <3>. QED
        BY <1>10, <2>1, <2>3, <2>5, <3>3, <3>4, <3>5 DEF Add, GoChange, HashFree
    <2>. QED
      BY <2>4, <2>5
  <1>16. CASE AddChange
    <2>. SUFFICES ASSUME ready', fault' = 0, NEW m \in Mac, fdb'[m].ours
                  PROVE  IF Turned(m)' THEN <<m, fdb'[m].port>> \in scan' ELSE rows'[m] = fdb'[m].port
      BY DEF Ledger, Owned, Turned
    <2>1. UNCHANGED <<ready, fault, rows, scan>> /\ wpc = "adding" /\ wmac \in Mac
      BY <1>0, <1>16 DEF AddChange, Advance, switch, TypeOK
    <2>2. PICK r \in Additions(wmac) : fdb' = [fdb EXCEPT ![wmac] = Mirrored(r[2])]
      BY <1>16 DEF AddChange
    <2>3. Turned(m)' <=> (m < wmac \/ m = wmac) /\ Has(m)
      <3>1. \/ wmac < NMacs - 1 /\ wmac' = wmac + 1 /\ wpc' = "add"
            \/ ~(wmac < NMacs - 1) /\ wmac' = 0 /\ wpc' = "del"
        BY <1>16, <2>1 DEF AddChange, Advance
      <3>2. Has(m)' = Has(m)
        BY <2>1 DEF Has
      <3>3. (m < wmac + 1 <=> m < wmac \/ m = wmac) /\ ~(m < 0)
        BY <2>1, NMacsAssumption DEF Mac
      <3>4. ~(wmac < NMacs - 1) => m < wmac \/ m = wmac
        BY <2>1, NMacsAssumption DEF Mac
      <3>. QED
        BY <3>1, <3>2, <3>3, <3>4 DEF Turned
    <2>4. CASE m # wmac
      <3>1. fdb'[m] = fdb[m]
        BY <1>0, <2>2, <2>4 DEF TypeOK
      <3>2. IF m < wmac /\ Has(m) THEN <<m, fdb[m].port>> \in scan ELSE rows[m] = fdb[m].port
        BY <2>1, <3>1 DEF Ledger, Owned, Turned
      <3>. QED
        BY <2>1, <2>3, <2>4, <3>1, <3>2
    <2>5. CASE m = wmac
      <3>1. r \in scan /\ r = <<m, r[2]>> /\ r[2] \in Ports
        BY <1>0, <2>2, <2>5 DEF Additions, TypeOK, Row
      <3>2. fdb'[m].port = r[2]
        BY <1>0, <2>2, <2>5 DEF TypeOK, Mirrored
      <3>3. <<m, fdb'[m].port>> \in scan' /\ Has(m)
        BY <2>1, <3>1, <3>2 DEF Has
      <3>. QED
        BY <2>3, <2>5, <3>3
    <2>. QED
      BY <2>4, <2>5
  <1>11. CASE (Del /\ HashFree') \/ DelChange
    <2>. SUFFICES ASSUME ready', fault' = 0, NEW m \in Mac, fdb'[m].ours
                  PROVE  IF Turned(m)' THEN <<m, fdb'[m].port>> \in scan' ELSE rows'[m] = fdb'[m].port
      BY DEF Ledger, Owned, Turned
    <2>1. UNCHANGED <<ready, fault, rows, scan>> /\ wpc \in {"del", "deleting"} /\ wmac \in Mac
      BY <1>0, <1>11 DEF Del, DelChange, Advance, GoChange, switch, TypeOK
    <2>2. Turned(m)' <=> m < wmac \/ m = wmac \/ Has(m)
      <3>1. \/ wmac < NMacs - 1 /\ wmac' = wmac + 1 /\ wpc' = "del"
            \/ ~(wmac < NMacs - 1) /\ wpc' = "commit"
        BY <1>11, <2>1 DEF Del, DelChange, Advance, GoChange, HashFree
      <3>2. Has(m)' = Has(m)
        BY <2>1 DEF Has
      <3>3. m < wmac + 1 <=> m < wmac \/ m = wmac
        BY <2>1, NMacsAssumption DEF Mac
      <3>4. ~(wmac < NMacs - 1) => m < wmac \/ m = wmac
        BY <2>1, NMacsAssumption DEF Mac
      <3>. QED
        BY <3>1, <3>2, <3>3, <3>4 DEF Turned
    <2>3. fdb'[m] = fdb[m] /\ fdb[m].ours
      BY <1>0, <1>11 DEF Del, DelChange, TypeOK, NoEntry
    <2>4. IF m < wmac \/ Has(m) THEN <<m, fdb[m].port>> \in scan ELSE rows[m] = fdb[m].port
      BY <2>1, <2>3 DEF Ledger, Owned, Turned
    <2>5. CASE m < wmac \/ Has(m) \/ m # wmac
      BY <2>1, <2>2, <2>3, <2>4, <2>5
    <2>6. CASE m = wmac /\ ~(m < wmac) /\ ~Has(m)
      <3>1. fdb[m].ext /\ ~fdb[m].pinned /\ fdb[m].port \in bports /\ rows[m] = fdb[m].port
        BY <2>3, <2>4, <2>6 DEF Inv, Bridged
      <3>2. rows[m] # None
        BY <1>0, <3>1, Values DEF TypeOK
      <3>3. ~(Del /\ HashFree')
        BY <2>3, <2>6, <3>1, <3>2 DEF Del, Deletes, DelAllowed, GoChange, HashFree
      <3>4. ~DelChange
        BY <1>0, <2>3, <2>6 DEF DelChange, TypeOK, NoEntry
      <3>. QED
        BY <1>11, <3>3, <3>4
    <2>. QED
      BY <2>5, <2>6
  <1>12. CASE Commit
    <2>. SUFFICES ASSUME ready', fault' = 0, NEW m \in Mac, fdb'[m].ours
                  PROVE  rows'[m] = fdb'[m].port
      BY <1>12 DEF Ledger, Owned, Turned, Commit, WGoto
    <2>1. UNCHANGED <<fdb, ready, fault>> /\ wpc = "commit"
      BY <1>12 DEF Commit
    <2>2. members = snap /\ ~moved /\ scan \subseteq Mac \X bports /\ RowsValid(scan)
      BY <2>1, WhileTrusted DEF Trusted
    <2>3. <<m, fdb[m].port>> \in scan
      BY <2>1 DEF Ledger, Owned, Turned
    <2>4. fdb[m].port \in Ports
      BY <1>0, <2>3 DEF TypeOK, Row
    <2>5. \A p \in Ports : <<m, p>> \in scan => p = fdb[m].port
      BY <2>2, <2>3 DEF RowsValid
    <2>6. (CHOOSE p \in Ports : <<m, p>> \in scan) = fdb[m].port
      BY <2>3, <2>4, <2>5
    <2>7. rows' = [n \in Mac |-> IF Has(n) THEN CHOOSE p \in Ports : <<n, p>> \in scan ELSE None]
      BY <1>12, <2>1, <2>2 DEF Commit, StillValid
    <2>8. rows'[m] = CHOOSE p \in Ports : <<m, p>> \in scan
      BY <2>3, <2>4, <2>7 DEF Has
    <2>. QED
      BY <2>1, <2>6, <2>8
  <1>13. CASE TeardownGate
    BY <1>13 DEF TeardownGate, Ledger
  <1>14. CASE TeardownBegin \/ TeardownFree \/ Rest \/ UNCHANGED vars
    BY <1>14, LedgerUntouched DEF TeardownBegin, TeardownFree, Rest, vars, switch, worker
  <1>. QED
    BY <1>0, <1>1, <1>2, <1>3, <1>4, <1>5, <1>6, <1>7, <1>8, <1>9, <1>10, <1>11, <1>12, <1>13, <1>14,
       <1>15, <1>16, Steps

(* Whatever the mirror owns in the bridge it can find again: the snapshot  *)
(* it committed and the bridge never part, but while it works.             *)
THEOREM MirrorCovered == ASSUME ~NotifyFails PROVE Spec => []Covered
  <1>1. Init => Ledger
    <2>1. Init => fdb = [m \in Mac |-> NoEntry]
      BY DEF Init
    <2>. QED
      BY <2>1 DEF Ledger, Owned, Turned, NoEntry
  <1>2. Inv /\ Ledger /\ [Next]_vars => Ledger'
    BY LedgerStep
  <1>3. Ledger => Covered
    BY DEF Ledger, Owned, Turned, Covered
  <1>. QED
    BY <1>1, <1>2, <1>3, Invariance, PTL DEF Spec

----------------------------------------------------------------------------
(* How long the work runs                                                  *)

(* Cells of the table still to be scanned, the cursor being at (p, m).     *)
CellsLeft(p, m) == (NPorts - p) * NMacs - m

(* Steps of a round of the work: start, the scan, trylock, recheck, three  *)
(* passes over the addresses, two of them with a change behind every look, *)
(* commit, unlock and retry.                                               *)
RoundSteps == NPorts * NMacs + 5 * NMacs + 6

(* Steps the running work can still take.                                  *)
WorkLeft ==
    CASE wpc = "start" -> RoundSteps
      [] wpc = "read" -> 5 * NMacs + 5 + CellsLeft(wport, wmac)
      [] wpc = "trylock" -> 5 * NMacs + 5
      [] wpc = "recheck" -> 5 * NMacs + 4
      [] wpc = "confirm" -> 4 * NMacs + 3 + (NMacs - wmac)
      [] wpc = "add" -> 2 * NMacs + 3 + 2 * (NMacs - wmac)
      [] wpc = "adding" -> 2 * NMacs + 2 + 2 * (NMacs - wmac)
      [] wpc = "del" -> 3 + 2 * (NMacs - wmac)
      [] wpc = "deleting" -> 2 + 2 * (NMacs - wmac)
      [] wpc = "commit" -> 3
      [] wpc = "unlock" -> 2
      [] wpc = "retry" -> 1
      [] OTHER -> 0

(* Those a cancellation may have to wait for: the round under way, and one *)
(* more if the timer expires before cancel_delayed_work_sync comes to it.  *)
CancelLeft == WorkLeft + (IF pending THEN RoundSteps + 1 ELSE 0)

(* A round of the work goes forward with each of its steps, to retry at    *)
(* the end, and nobody else turns it back, whatever they change.           *)
RoundsAdvance ==
    /\ [](WorkLeft \in 0 .. RoundSteps /\ (wpc = "off" <=> WorkLeft = 0))
    /\ [][/\ Work /\ ~Run => WorkLeft' < WorkLeft
          /\ wpc # "off" /\ ~Work => WorkLeft' = WorkLeft]_vars

(* Once the gate is closed, what cancel_delayed_work_sync waits for only   *)
(* gets less: at most one more round begins, and none after that.          *)
CancelAdvances ==
    [][tpc = "cancel" \/ tpc = "freed" =>
          /\ Work => CancelLeft' < CancelLeft
          /\ CancelLeft' <= CancelLeft]_vars

Staged ==
    /\ wpc = "start" => WorkLeft = RoundSteps
    /\ wpc = "read" => WorkLeft = 5 * NMacs + 5 + CellsLeft(wport, wmac)
    /\ wpc = "trylock" => WorkLeft = 5 * NMacs + 5
    /\ wpc = "recheck" => WorkLeft = 5 * NMacs + 4
    /\ wpc = "confirm" => WorkLeft = 4 * NMacs + 3 + (NMacs - wmac)
    /\ wpc = "add" => WorkLeft = 2 * NMacs + 3 + 2 * (NMacs - wmac)
    /\ wpc = "adding" => WorkLeft = 2 * NMacs + 2 + 2 * (NMacs - wmac)
    /\ wpc = "del" => WorkLeft = 3 + 2 * (NMacs - wmac)
    /\ wpc = "deleting" => WorkLeft = 2 + 2 * (NMacs - wmac)
    /\ wpc = "commit" => WorkLeft = 3
    /\ wpc = "unlock" => WorkLeft = 2
    /\ wpc = "retry" => WorkLeft = 1
    /\ wpc = "off" => WorkLeft = 0

LEMMA LeftAt == Staged
  <1>1. ASSUME wpc = "start" PROVE WorkLeft = RoundSteps
    BY <1>1 DEF WorkLeft
  <1>2. ASSUME wpc = "read" PROVE WorkLeft = 5 * NMacs + 5 + CellsLeft(wport, wmac)
    BY <1>2 DEF WorkLeft
  <1>3. ASSUME wpc = "trylock" PROVE WorkLeft = 5 * NMacs + 5
    BY <1>3 DEF WorkLeft
  <1>4. ASSUME wpc = "recheck" PROVE WorkLeft = 5 * NMacs + 4
    BY <1>4 DEF WorkLeft
  <1>5. ASSUME wpc = "confirm" PROVE WorkLeft = 4 * NMacs + 3 + (NMacs - wmac)
    BY <1>5 DEF WorkLeft
  <1>6. ASSUME wpc = "add" PROVE WorkLeft = 2 * NMacs + 3 + 2 * (NMacs - wmac)
    BY <1>6 DEF WorkLeft
  <1>7. ASSUME wpc = "del" PROVE WorkLeft = 3 + 2 * (NMacs - wmac)
    BY <1>7 DEF WorkLeft
  <1>12. ASSUME wpc = "adding" PROVE WorkLeft = 2 * NMacs + 2 + 2 * (NMacs - wmac)
    BY <1>12 DEF WorkLeft
  <1>13. ASSUME wpc = "deleting" PROVE WorkLeft = 2 + 2 * (NMacs - wmac)
    BY <1>13 DEF WorkLeft
  <1>8. ASSUME wpc = "commit" PROVE WorkLeft = 3
    BY <1>8 DEF WorkLeft
  <1>9. ASSUME wpc = "unlock" PROVE WorkLeft = 2
    BY <1>9 DEF WorkLeft
  <1>10. ASSUME wpc = "retry" PROVE WorkLeft = 1
    BY <1>10 DEF WorkLeft
  <1>11. ASSUME wpc = "off" PROVE WorkLeft = 0
    BY <1>11 DEF WorkLeft
  <1>. QED
    BY <1>1, <1>2, <1>3, <1>4, <1>5, <1>6, <1>7, <1>8, <1>9, <1>10, <1>11, <1>12, <1>13 DEF Staged

LEMMA LeftAtNext == Staged'
  BY LeftAt, PTL

LEMMA Cells ==
    /\ NPorts * NMacs \in Nat
    /\ CellsLeft(0, 0) = NPorts * NMacs
    /\ \A p \in Ports, m \in Mac :
          /\ CellsLeft(p, m) \in 1 .. NPorts * NMacs
          /\ CellsLeft(p, m + 1) = CellsLeft(p, m) - 1
          /\ m = NMacs - 1 => CellsLeft(p + 1, 0) = CellsLeft(p, m) - 1
  <1>1. NPorts \in Nat /\ NMacs \in Nat /\ NMacs >= 1
    BY NPortsAssumption, NMacsAssumption
  <1>2. NPorts * NMacs \in Nat /\ CellsLeft(0, 0) = NPorts * NMacs
    BY <1>1 DEF CellsLeft
  <1>. SUFFICES ASSUME NEW p \in Ports, NEW m \in Mac
                PROVE  /\ CellsLeft(p, m) \in 1 .. NPorts * NMacs
                       /\ CellsLeft(p, m + 1) = CellsLeft(p, m) - 1
                       /\ m = NMacs - 1 => CellsLeft(p + 1, 0) = CellsLeft(p, m) - 1
    BY <1>2
  <1>3. p \in Nat /\ p <= NPorts - 1 /\ m \in Nat /\ m <= NMacs - 1
    BY <1>1 DEF Ports, Mac
  <1>4. PICK k \in Nat : NPorts = p + 1 + k
    <2>1. NPorts - p - 1 \in Nat /\ NPorts = p + 1 + (NPorts - p - 1)
      BY <1>1, <1>3
    <2>. QED
      BY <2>1
  <1>5. k * NMacs \in Nat /\ p * NMacs \in Nat
    BY <1>1, <1>3, <1>4
  <1>6. /\ (NPorts - p) * NMacs = NMacs + k * NMacs
        /\ (NPorts - (p + 1)) * NMacs = k * NMacs
        /\ NPorts * NMacs = p * NMacs + NMacs + k * NMacs
    BY <1>1, <1>3, <1>4
  <1>. QED
    BY <1>1, <1>2, <1>3, <1>5, <1>6 DEF CellsLeft

LEMMA LeftBounded ==
    ASSUME TypeOK
    PROVE  WorkLeft \in 0 .. RoundSteps /\ (wpc = "off" <=> WorkLeft = 0)
  <1>1. NMacs \in Nat /\ NMacs >= 1 /\ wmac \in 0 .. NMacs - 1 /\ wpc \in Stage
    BY NMacsAssumption DEF TypeOK, Mac
  <1>2. CellsLeft(wport, wmac) \in 1 .. NPorts * NMacs /\ NPorts * NMacs \in Nat
    BY Cells DEF TypeOK
  <1>. QED
    BY <1>1, <1>2, LeftAt DEF Staged, Stage, RoundSteps

LEMMA LeftBoundedNext == TypeOK' => (WorkLeft \in 0 .. RoundSteps)'
  BY LeftBounded, PTL

(* A pass over the addresses goes on to the next one or to what follows.   *)
LEMMA PassForward ==
    ASSUME TypeOK, NEW l, NEW next, Advance(l, next)
    PROVE  \/ wpc' = l /\ wmac' = wmac + 1
           \/ wpc' = next /\ wmac' = 0 /\ wmac = NMacs - 1
  BY NMacsAssumption DEF Advance, TypeOK, Mac

LEMMA WorkNearer ==
    ASSUME TypeOK, Work, ~Run
    PROVE  WorkLeft' < WorkLeft
  <1>1. /\ NMacs \in Nat /\ NMacs >= 1 /\ wmac \in 0 .. NMacs - 1
        /\ NPorts * NMacs \in Nat
    BY NMacsAssumption, Cells DEF TypeOK, Mac
  <1>2. CASE Start
    <2>1. \/ wpc' = "read" /\ wport' = 0 /\ wmac' = 0
          \/ wpc' = "retry"
      BY <1>2 DEF Start, WGoto
    <2>2. WorkLeft = RoundSteps
      BY <1>2, LeftAt DEF Staged, Start
    <2>3. wport' = 0 /\ wmac' = 0 => CellsLeft(wport, wmac)' = NPorts * NMacs
      BY Cells DEF CellsLeft
    <2>. QED
      BY <1>1, <2>1, <2>2, <2>3, LeftAtNext DEF Staged, RoundSteps
  <1>3. CASE Read
    <2>1. \/ wpc' = "read" /\ wport' = wport /\ wmac' = wmac + 1
          \/ wpc' = "read" /\ wport' = wport + 1 /\ wmac' = 0 /\ wmac = NMacs - 1
          \/ wpc' \in {"trylock", "retry"}
      BY <1>3 DEF Read, ScanDone, WGoto
    <2>2. WorkLeft = 5 * NMacs + 5 + CellsLeft(wport, wmac)
      BY <1>3, LeftAt DEF Staged, Read
    <2>3. /\ CellsLeft(wport, wmac) \in 1 .. NPorts * NMacs
          /\ CellsLeft(wport, wmac + 1) = CellsLeft(wport, wmac) - 1
          /\ wmac = NMacs - 1 => CellsLeft(wport + 1, 0) = CellsLeft(wport, wmac) - 1
      BY Cells DEF TypeOK
    <2>4. CASE wpc' = "read" /\ wport' = wport /\ wmac' = wmac + 1
      <3>1. CellsLeft(wport, wmac)' = CellsLeft(wport, wmac + 1)
        BY <2>4 DEF CellsLeft
      <3>. QED
        BY <1>1, <2>2, <2>3, <2>4, <3>1, LeftAtNext DEF Staged
    <2>5. CASE wpc' = "read" /\ wport' = wport + 1 /\ wmac' = 0 /\ wmac = NMacs - 1
      <3>1. CellsLeft(wport, wmac)' = CellsLeft(wport + 1, 0)
        BY <2>5 DEF CellsLeft
      <3>. QED
        BY <1>1, <2>2, <2>3, <2>5, <3>1, LeftAtNext DEF Staged
    <2>6. CASE wpc' \in {"trylock", "retry"}
      BY <1>1, <2>2, <2>3, <2>6, LeftAtNext DEF Staged
    <2>. QED
      BY <2>1, <2>4, <2>5, <2>6
  <1>4. CASE Acquire
    <2>1. wpc' \in {"recheck", "retry"}
      BY <1>4 DEF Acquire, TryLock, WGoto
    <2>2. WorkLeft = 5 * NMacs + 5
      BY <1>4, LeftAt DEF Staged, Acquire
    <2>. QED
      BY <1>1, <2>1, <2>2, LeftAtNext DEF Staged
  <1>5. CASE Recheck
    <2>1. (wpc' = "confirm" /\ wmac' = 0) \/ wpc' = "unlock"
      BY <1>5 DEF Recheck, WGoto
    <2>2. WorkLeft = 5 * NMacs + 4
      BY <1>5, LeftAt DEF Staged, Recheck
    <2>. QED
      BY <1>1, <2>1, <2>2, LeftAtNext DEF Staged
  <1>6. CASE Confirm
    <2>1. \/ wpc' = "confirm" /\ wmac' = wmac + 1
          \/ wpc' = "add" /\ wmac' = 0
          \/ wpc' = "unlock"
      BY <1>6, PassForward DEF Confirm, WGoto
    <2>2. WorkLeft = 4 * NMacs + 3 + (NMacs - wmac)
      BY <1>6, LeftAt DEF Staged, Confirm
    <2>. QED
      BY <1>1, <2>1, <2>2, LeftAtNext DEF Staged
  <1>7. CASE Add
    <2>1. \/ wpc' = "add" /\ wmac' = wmac + 1
          \/ wpc' = "adding" /\ wmac' = wmac
          \/ wpc' = "del" /\ wmac' = 0 /\ wmac = NMacs - 1
          \/ wpc' = "unlock"
      BY <1>7, PassForward DEF Add, WGoto, GoChange
    <2>2. WorkLeft = 2 * NMacs + 3 + 2 * (NMacs - wmac)
      BY <1>7, LeftAt DEF Staged, Add
    <2>. QED
      BY <1>1, <2>1, <2>2, LeftAtNext DEF Staged
  <1>8. CASE AddChange
    <2>1. \/ wpc' = "add" /\ wmac' = wmac + 1
          \/ wpc' = "del" /\ wmac' = 0 /\ wmac = NMacs - 1
      BY <1>8, PassForward DEF AddChange
    <2>2. WorkLeft = 2 * NMacs + 2 + 2 * (NMacs - wmac)
      BY <1>8, LeftAt DEF Staged, AddChange
    <2>. QED
      BY <1>1, <2>1, <2>2, LeftAtNext DEF Staged
  <1>10. CASE Del
    <2>1. \/ wpc' = "del" /\ wmac' = wmac + 1
          \/ wpc' = "deleting" /\ wmac' = wmac
          \/ wpc' = "commit"
      BY <1>10, PassForward DEF Del, GoChange
    <2>2. WorkLeft = 3 + 2 * (NMacs - wmac)
      BY <1>10, LeftAt DEF Staged, Del
    <2>. QED
      BY <1>1, <2>1, <2>2, LeftAtNext DEF Staged
  <1>11. CASE DelChange
    <2>1. \/ wpc' = "del" /\ wmac' = wmac + 1
          \/ wpc' = "commit" /\ wmac = NMacs - 1
      BY <1>11, PassForward DEF DelChange
    <2>2. WorkLeft = 2 + 2 * (NMacs - wmac)
      BY <1>11, LeftAt DEF Staged, DelChange
    <2>. QED
      BY <1>1, <2>1, <2>2, LeftAtNext DEF Staged
  <1>9. CASE Commit \/ Unlock \/ Retry
    BY <1>9, LeftAt, LeftAtNext DEF Staged, Commit, Unlock, Retry, WGoto
  <1>. QED
    BY <1>2, <1>3, <1>4, <1>5, <1>6, <1>7, <1>8, <1>9, <1>10, <1>11 DEF Work

(* The rest of the system leaves the work where it is.                     *)
LEMMA OthersLeaveWork ==
    ASSUME TypeOK, [Next]_vars, ~Work
    PROVE  WorkLeft' = WorkLeft
  <1>1. UNCHANGED <<wpc, wport, wmac>>
    BY Steps, ByOthersFootprint, BySwitchFootprint
       DEF Work, BeginCallback, Begin, Enter, EnterFails, Post, TeardownBegin, TeardownGate,
           TeardownFree, Rest, vars, worker
  <1>. QED
    BY <1>1 DEF WorkLeft, CellsLeft

(* The work cannot loop: neither a busy RTNL, nor a changed epoch, nor a   *)
(* full table, nor a failure sends a round back to an earlier stage.       *)
THEOREM BoundedRounds == Spec => RoundsAdvance
  <1>1. Inv => WorkLeft \in 0 .. RoundSteps /\ (wpc = "off" <=> WorkLeft = 0)
    BY LeftBounded DEF Inv
  <1>2. Inv /\ [Next]_vars =>
          [/\ Work /\ ~Run => WorkLeft' < WorkLeft
           /\ wpc # "off" /\ ~Work => WorkLeft' = WorkLeft]_vars
    BY WorkNearer, OthersLeaveWork DEF Inv
  <1>. QED
    BY <1>1, <1>2, Invariance, PTL DEF Spec, RoundsAdvance

(* What a closed gate is worth: nothing queues the work again.             *)
LEMMA NoRequeue ==
    ASSUME Inv, [Next]_vars, tpc \in {"cancel", "freed"}
    PROVE  pending' => pending
  <1>1. ~Active
    BY DEF Inv, Closed, Active
  <1>2. pending \in BOOLEAN
    BY DEF Inv, TypeOK
  <1>3. CASE Post \/ Retry
    BY <1>1, <1>2, <1>3 DEF Post, Requeue, Retry, Schedule
  <1>4. CASE Run \/ TeardownFree
    BY <1>4 DEF Run, TeardownFree, CancelSync
  <1>5. CASE ~(Post \/ Retry \/ Run \/ TeardownFree)
    <2>1. pending' = pending
      BY <1>5, Steps, ByOthersFootprint, BySwitchFootprint
         DEF Inv, BeginCallback, Begin, Enter, EnterFails, Start, Read, Acquire, Recheck, Confirm,
             Add, AddChange, Del, DelChange, Commit, Unlock, TeardownBegin, TeardownGate, Rest, vars
    <2>. QED
      BY <2>1
  <1>. QED
    BY <1>3, <1>4, <1>5

CancelSplit ==
    /\ pending => CancelLeft = WorkLeft + (RoundSteps + 1)
    /\ WorkLeft \in Int /\ ~pending => CancelLeft = WorkLeft

LEMMA CancelAt == CancelSplit
  <1>1. NPorts * NMacs \in Nat /\ RoundSteps \in Int
    BY Cells, NMacsAssumption DEF RoundSteps
  <1>2. ASSUME pending PROVE CancelLeft = WorkLeft + (RoundSteps + 1)
    BY <1>2 DEF CancelLeft
  <1>3. ASSUME ~pending PROVE CancelLeft = WorkLeft + 0
    BY <1>3 DEF CancelLeft
  <1>. QED
    BY <1>1, <1>2, <1>3 DEF CancelSplit

LEMMA CancelAtNext == CancelSplit'
  BY CancelAt, PTL

LEMMA CancelNearer ==
    ASSUME Inv, [Next]_vars, tpc \in {"cancel", "freed"}
    PROVE  (Work => CancelLeft' < CancelLeft) /\ CancelLeft' <= CancelLeft
  <1>1. TypeOK /\ TypeOK'
    BY TypeStep DEF Inv
  <1>2. /\ WorkLeft \in 0 .. RoundSteps /\ (wpc = "off" <=> WorkLeft = 0)
        /\ WorkLeft' \in 0 .. RoundSteps /\ RoundSteps \in Nat
    <2>1. RoundSteps \in Nat /\ RoundSteps' = RoundSteps
      BY Cells, NMacsAssumption DEF RoundSteps
    <2>. QED
      BY <1>1, <2>1, LeftBounded, LeftBoundedNext
  <1>3. pending' => pending
    BY NoRequeue
  <1>4. /\ pending => CancelLeft = WorkLeft + (RoundSteps + 1)
        /\ ~pending => CancelLeft = WorkLeft
    BY <1>2, CancelAt DEF CancelSplit
  <1>5. /\ pending' => CancelLeft' = WorkLeft' + (RoundSteps + 1)
        /\ ~pending' => CancelLeft' = WorkLeft'
    <2>1. RoundSteps' = RoundSteps
      BY DEF RoundSteps
    <2>. QED
      BY <1>2, <2>1, CancelAtNext DEF CancelSplit
  <1>6. CASE Run
    <2>1. pending /\ ~pending' /\ WorkLeft = 0
      BY <1>2, <1>6 DEF Run
    <2>. QED
      BY <1>2, <1>4, <1>5, <2>1
  <1>7. CASE Work /\ ~Run
    <2>1. WorkLeft' < WorkLeft
      BY <1>1, <1>7, WorkNearer
    <2>. QED
      BY <1>2, <1>3, <1>4, <1>5, <2>1
  <1>8. CASE ~Work
    <2>1. WorkLeft' = WorkLeft
      BY <1>1, <1>8, OthersLeaveWork
    <2>. QED
      BY <1>2, <1>3, <1>4, <1>5, <1>8, <2>1
  <1>. QED
    BY <1>6, <1>7, <1>8

(* cancel_delayed_work_sync waits for two rounds of the work at most.      *)
THEOREM BoundedCancel == Spec => CancelAdvances
  <1>1. Inv /\ [Next]_vars =>
          [tpc = "cancel" \/ tpc = "freed" =>
              /\ Work => CancelLeft' < CancelLeft
              /\ CancelLeft' <= CancelLeft]_vars
    BY CancelNearer
  <1>. QED
    BY <1>1, Invariance, PTL DEF Spec, CancelAdvances

=============================================================================
