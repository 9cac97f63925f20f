------------------------------- MODULE FdbSync -------------------------------
(***************************************************************************)
(* The mirror of the RTL8367S address table in the Linux bridge: a delayed *)
(* work scans the dynamic unicast addresses that the switch has learned on *)
(* the members of the offloaded bridge, compares them with the snapshot it *)
(* committed last, and announces the difference to the bridge, which       *)
(* guards the entries of users and of other drivers.                       *)
(*                                                                         *)
(* Beside the worker there are the switch, which learns, moves and ages    *)
(* addresses at any moment; the software path of the bridge, which needs   *)
(* no RTNL; the DSA callbacks, which hold RTNL and take uc_lock under it;  *)
(* and the teardown of the driver.  The worker takes uc_lock first and     *)
(* only ever tries RTNL.  What a callback does to the registers of the     *)
(* switch, access by access, is the subject of UcOffload; here its         *)
(* critical section is one step.                                           *)
(***************************************************************************)
EXTENDS Integers, FiniteSets

CONSTANTS
    NPorts,       \* user ports
    NMacs,        \* station addresses, in the order in which rows are sorted
    MaxRows,      \* RTL8367S_UC_FDB_SYNC_MAX_ROWS
    Pins,         \* addresses a user may enter by hand
    NotifyFails   \* a bridge notifier may run out of memory

ASSUME NPortsAssumption == NPorts \in Nat \ {0}
ASSUME NMacsAssumption == NMacs \in Nat \ {0}
ASSUME MaxRowsAssumption == MaxRows \in Nat
ASSUME NotifyFailsAssumption == NotifyFails \in BOOLEAN

VARIABLES
    hw,         \* the switch: the port of a dynamic address, Static, or None
    fdb,        \* the bridge: the entry of an address
    bports,     \* user ports that are ports of the bridge
    members,    \* uc_members
    ready,      \* uc_fdb_sync_ready
    fault,      \* uc_fault
    rows,       \* uc_fdb_rows: the snapshot committed last
    moved,      \* uc_fdb_epoch is no longer what the running work has read
    pending,    \* the delayed work is queued
    rtnl,       \* who holds RTNL
    wpc,        \* what the running work does next
    wport, wmac,\* its place in a loop over ports and addresses
    scan,       \* uc_fdb_scan_rows
    snap,       \* its copy of uc_members
    call,       \* the DSA callback that holds RTNL
    tpc,        \* how far the teardown of the driver has got
    calm,       \* the environment has come to rest
    absent,     \* history: addresses the switch has been without since the scan began
    taken       \* history: addresses others entered or moved in the bridge since then

switch == <<members, ready, fault, rows>>
worker == <<wpc, wport, wmac, scan, snap>>
vars == <<hw, fdb, bports, members, ready, fault, rows, moved, pending, rtnl, wpc, wport,
          wmac, scan, snap, call, tpc, calm, absent, taken>>

----------------------------------------------------------------------------
(* Data *)

Ports == 0 .. NPorts - 1
Mac == 0 .. NMacs - 1
None == -1
Static == -2
Wifi == NPorts           \* a bridge port that is not of the switch

(* A bridge entry: its port, added_by_external_learn, whether its domain   *)
(* is the one of this driver, and whether it is local, static or a user's. *)
Entry == [port : Ports \cup {Wifi}, ext : BOOLEAN, ours : BOOLEAN, pinned : BOOLEAN]
NoEntry == [port |-> None, ext |-> FALSE, ours |-> FALSE, pinned |-> FALSE]
Learned(p) == [port |-> p, ext |-> FALSE, ours |-> FALSE, pinned |-> FALSE]
Mirrored(p) == [port |-> p, ext |-> TRUE, ours |-> TRUE, pinned |-> FALSE]
Foreign == [port |-> Wifi, ext |-> TRUE, ours |-> FALSE, pinned |-> FALSE]

Row == Mac \X Ports

Callbacks == {"join", "leave", "touch", "age", "pin", "unpin"}
Call == [op : Callbacks, port : Ports, mac : Mac, stage : {"enter", "post", "cancel"}]
NoCall == [op |-> "none", port |-> 0, mac |-> 0, stage |-> "enter"]

Stage == {"off", "start", "read", "trylock", "recheck", "confirm", "add", "adding",
          "del", "deleting", "commit", "unlock", "retry"}

(* The work holds uc_lock while it scans and while it looks up deletions;  *)
(* every other critical section is one step.                               *)
UcFree == wpc \notin {"read", "confirm"}

(* The guard looks at an entry and the bridge changes it under hash_lock.  *)
HashFree == wpc \notin {"adding", "deleting"}

Active == ready /\ fault = 0 /\ members # {}

(* rtl8365mb_uc_fdb_sync_schedule, which enqueues under uc_lock *)
Schedule == UcFree /\ pending' = (pending \/ Active)

Has(m) == \E p \in Ports : <<m, p>> \in scan

(* rt3000_fdb_domain_add_check and _del_check for an event of this domain  *)
AddAllowedMoved(e, p) == ~e.pinned /\ (e.ext => e.ours)          \* mutated form
AddAllowed(e, p) ==
    /\ ~e.pinned
    /\ e.ext => e.ours
    /\ e.port # p => e.ext /\ e.ours

DelAllowed(e, p) == e.ext /\ e.ours /\ e.port = p /\ ~e.pinned

(* The switch's table becomes h and the members ms. *)
SetTable(h, ms) ==
    /\ hw' = h
    /\ absent' = IF wpc = "off" THEN {} ELSE absent \cup {m \in Mac : h[m] \notin ms}

----------------------------------------------------------------------------
(* rtl8365mb_uc_enable has passed; no port is bridged yet. *)
Init ==
    /\ hw = [m \in Mac |-> None]
    /\ fdb = [m \in Mac |-> NoEntry]
    /\ bports = {}
    /\ members = {}
    /\ ready = TRUE
    /\ fault = 0
    /\ rows = [m \in Mac |-> None]
    /\ moved = FALSE
    /\ pending = FALSE
    /\ rtnl = "free"
    /\ wpc = "off" /\ wport = 0 /\ wmac = 0 /\ scan = {} /\ snap = {}
    /\ call = NoCall
    /\ tpc = "up"
    /\ calm = FALSE
    /\ absent = {}
    /\ taken = {}

----------------------------------------------------------------------------
(* The switch and the software path of the bridge, which take no lock that *)
(* the worker holds.                                                       *)

HwLearn(m, p) ==
    /\ ~calm /\ p \in members /\ hw[m] # Static /\ hw[m] # p
    /\ SetTable([hw EXCEPT ![m] = p], members)
    /\ UNCHANGED <<fdb, bports, switch, moved, pending, rtnl, worker, call, tpc, calm, taken>>

HwAge(m) ==
    /\ ~calm /\ hw[m] \in Ports
    /\ SetTable([hw EXCEPT ![m] = None], members)
    /\ UNCHANGED <<fdb, bports, switch, moved, pending, rtnl, worker, call, tpc, calm, taken>>

(* History: while a snapshot is made and applied, somebody else gives m    *)
(* the entry e, but not just when the mirror is about to change it.        *)
TakenBy(m, e) ==
    IF wpc \in {"off", "start", "unlock", "retry"} \/ e = NoEntry \/ (~HashFree /\ m = wmac)
    THEN taken \ {m} ELSE taken \cup {m}

SetEntry(m, e) ==
    /\ ~calm
    /\ fdb' = [fdb EXCEPT ![m] = e]
    /\ taken' = TakenBy(m, e)
    /\ UNCHANGED <<hw, bports, switch, moved, pending, rtnl, worker, call, tpc, calm, absent>>

(* br_fdb_update: a frame reaches the CPU.  A new address is learned under *)
(* hash_lock; an entry on another port moves, without that lock, and is    *)
(* then the bridge's own.                                                  *)
SwLearn(m, p) ==
    /\ p \in bports \cup {Wifi}
    /\ fdb[m].port # p
    /\ fdb[m] = NoEntry => HashFree
    /\ SetEntry(m, [Learned(p) EXCEPT !.pinned = fdb[m].pinned])

(* An entry of the bridge ages out, which mirrored ones do not, or any     *)
(* entry is flushed.                                                       *)
SwRemove(m) ==
    /\ fdb[m] # NoEntry /\ HashFree
    /\ SetEntry(m, NoEntry)

(* A user enters an address by hand, or another driver reports one. *)
UserAdd(m, p) ==
    /\ m \in Pins /\ rtnl = "free"
    /\ p \in bports \cup {Wifi}
    /\ \E x \in BOOLEAN : SetEntry(m, [port |-> p, ext |-> x, ours |-> FALSE, pinned |-> TRUE])

OtherDriver(m) ==
    /\ m \in Pins /\ HashFree
    /\ fdb[m] = NoEntry
    /\ SetEntry(m, Foreign)

----------------------------------------------------------------------------
(* DSA callbacks.  A callback begins once RTNL is held; the bridge drops   *)
(* the entries of a port it releases before the driver hears of it.        *)

Begin(c) ==
    /\ ~calm /\ rtnl = "free" /\ tpc = "up"
    /\ rtnl' = "dsa"
    /\ call' = c
    /\ IF c.op = "leave"
       THEN /\ bports' = bports \ {c.port}
            /\ fdb' = [m \in Mac |-> IF fdb[m].port = c.port THEN NoEntry ELSE fdb[m]]
            /\ taken' = {m \in taken : fdb[m].port # c.port}
       ELSE UNCHANGED <<bports, fdb, taken>>
    /\ UNCHANGED <<hw, switch, moved, pending, worker, tpc, calm, absent>>

BeginCallback ==
    \E c \in Call :
        /\ c.stage = "enter"
        /\ c.op = "join" => fault = 0 /\ c.port \notin members
        /\ c.op = "leave" => c.port \in bports
        /\ c.op = "touch" => fault = 0
        /\ c.op \in {"age", "pin", "unpin"} => fault = 0 /\ c.port \in members
        /\ c.op \in {"pin", "unpin"} => c.mac \in Pins
        /\ c.op \notin {"pin", "unpin"} => c.mac = 0
        /\ Begin(c)

(* What is left of the table when port p is flushed. *)
Flushed(p) == [m \in Mac |-> IF hw[m] = p THEN None ELSE hw[m]]

(* The last port that leaves takes the snapshot with it. *)
RowsAfterAnyLeave(ms) == [m \in Mac |-> None]                    \* mutated form
RowsAfterLeave(ms) == IF ms = {} THEN [m \in Mac |-> None] ELSE rows

EndCall == rtnl' = "free" /\ call' = NoCall
GoOn(s) == rtnl' = rtnl /\ call' = [call EXCEPT !.stage = s]

(* bridge_join, bridge_leave, stp_state_set, fast_age, fdb_add, fdb_del    *)
(* under uc_lock, when every access succeeds ...                           *)
Enter ==
    /\ call.op # "none" /\ call.stage = "enter" /\ UcFree
    /\ call.op = "leave" => fault = 0
    /\ moved' = TRUE
    /\ LET p == call.port IN
       \/ /\ call.op = "join"
          /\ members' = members \cup {p} /\ bports' = bports \cup {p}
          /\ SetTable(Flushed(p), members')
          /\ GoOn("post") /\ UNCHANGED rows
       \/ /\ call.op = "leave"
          /\ members' = members \ {p}
          /\ SetTable(Flushed(p), members')
          /\ rows' = RowsAfterLeave(members')
          /\ GoOn(IF members' = {} THEN "cancel" ELSE "post") /\ UNCHANGED bports
       \/ /\ call.op = "touch"
          /\ EndCall /\ UNCHANGED <<members, bports, rows, hw, absent>>
       \/ /\ call.op = "age"
          /\ SetTable(Flushed(p), members)
          /\ EndCall /\ UNCHANGED <<members, bports, rows>>
       \/ /\ call.op = "pin"
          /\ SetTable([hw EXCEPT ![call.mac] = Static], members)
          /\ EndCall /\ UNCHANGED <<members, bports, rows>>
       \/ /\ call.op = "unpin"
          /\ SetTable([hw EXCEPT ![call.mac] = IF @ \in {p, Static} THEN None ELSE @], members)
          /\ EndCall /\ UNCHANGED <<members, bports, rows>>
    /\ UNCHANGED <<fdb, ready, fault, pending, worker, tpc, calm, taken>>

(* ... or when one fails, or the fault is there already: fail_closed. *)
EnterFails ==
    /\ call.op # "none" /\ call.stage = "enter" /\ UcFree
    /\ fault = 0 => ~calm
    /\ fault' = 1
    /\ IF call.op = "leave" THEN GoOn("cancel") ELSE EndCall
    /\ UNCHANGED <<hw, fdb, bports, members, ready, rows, moved, pending, worker, tpc, calm, absent, taken>>

(* The end of join and leave, after uc_lock was dropped: the work is       *)
(* queued, or cancelled when no member is left.                            *)
PostForgotten == UNCHANGED pending                               \* mutated form
Requeue == IF call.stage = "post" THEN Schedule ELSE pending' = FALSE

Post ==
    /\ call.stage # "enter"
    /\ Requeue
    /\ EndCall
    /\ UNCHANGED <<hw, fdb, bports, switch, moved, worker, tpc, calm, absent, taken>>

----------------------------------------------------------------------------
(* The delayed work: rtl8365mb_uc_fdb_sync_work *)

WGoto(l) == wpc' = l /\ UNCHANGED <<wport, scan, snap>> /\ wmac' = 0

(* The timer has expired; the workqueue runs one instance at a time. *)
Run ==
    /\ pending /\ wpc = "off"
    /\ pending' = FALSE
    /\ WGoto("start")
    /\ UNCHANGED <<hw, fdb, bports, switch, moved, rtnl, call, tpc, calm, absent, taken>>

(* Under uc_lock: members and epoch are read and the scan begins. *)
Start ==
    /\ wpc = "start"
    /\ IF Active
       THEN /\ wpc' = "read" /\ wport' = 0 /\ wmac' = 0 /\ scan' = {}
            /\ snap' = members
            /\ moved' = FALSE
            /\ absent' = {m \in Mac : hw[m] \notin members}
       ELSE WGoto("retry") /\ UNCHANGED <<moved, absent>>
    /\ UNCHANGED <<hw, fdb, bports, switch, pending, rtnl, call, tpc, calm, taken>>

(* rtl8365mb_uc_fdb_dump_inner and _scan_cb: the address under the cursor, *)
(* if it is a dynamic one of the port under the cursor.                    *)
ScanRow(m, p) == IF hw[m] = p THEN {<<m, p>>} ELSE {}

RowsValid(s) == \A r, t \in s : r[1] = t[1] => r = t

(* The scan is over: sort, and refuse a duplicate. *)
ScanDone(s) == wpc' = (IF RowsValid(s) THEN "trylock" ELSE "retry") /\ wport' = 0 /\ wmac' = 0

Read ==
    /\ wpc = "read"
    /\ LET found == IF wport \in snap THEN ScanRow(wmac, wport) ELSE {} IN
       \/ /\ Cardinality(scan \cup found) <= MaxRows
          /\ scan' = scan \cup found
          /\ \/ /\ wmac < NMacs - 1
                /\ wmac' = wmac + 1 /\ UNCHANGED <<wpc, wport>>
             \/ /\ wmac = NMacs - 1 /\ wport < NPorts - 1
                /\ wport' = wport + 1 /\ wmac' = 0 /\ UNCHANGED wpc
             \/ /\ wmac = NMacs - 1 /\ wport = NPorts - 1
                /\ ScanDone(scan')
          /\ UNCHANGED <<snap, fault>>
       \/ /\ Cardinality(scan \cup found) > MaxRows                \* -ENOSPC
          /\ WGoto("retry") /\ UNCHANGED fault
       \/ /\ ~calm /\ fault' = 1                                   \* fail_closed
          /\ WGoto("retry")
    /\ UNCHANGED <<hw, fdb, bports, members, ready, rows, moved, pending, rtnl, call, tpc, calm, absent, taken>>

(* rtnl_trylock: a busy RTNL discards the snapshot. *)
TryLockBlocks == rtnl = "free" /\ rtnl' = "worker" /\ WGoto("recheck") \* mutated form
TryLock ==
    \/ rtnl = "free" /\ rtnl' = "worker" /\ WGoto("recheck")
    \/ rtnl # "free" /\ rtnl' = rtnl /\ WGoto("retry")

Acquire ==
    /\ wpc = "trylock"
    /\ TryLock
    /\ UNCHANGED <<hw, fdb, bports, switch, moved, pending, call, tpc, calm, absent, taken>>

(* Nothing the snapshot depends on has changed. *)
StillValid == ready /\ fault = 0 /\ ~moved

Recheck ==
    /\ wpc = "recheck"
    /\ WGoto(IF StillValid THEN "confirm" ELSE "unlock")
    /\ UNCHANGED <<hw, fdb, bports, switch, moved, pending, rtnl, call, tpc, calm, absent, taken>>

(* A deletion is looked up once more; an address that turns out to be on   *)
(* a member becomes an addition there.                                     *)
ConfirmedBlindly(m) == {}                                        \* mutated form
FoundAgain(m) == {<<m, p>> : p \in {q \in snap : hw[m] = q}}

(* To the next address of pass l, or to what follows it. *)
Advance(l, next) ==
    /\ IF wmac < NMacs - 1 THEN wmac' = wmac + 1 /\ wpc' = l ELSE wmac' = 0 /\ wpc' = next
    /\ UNCHANGED <<wport, snap>>

(* The guard has let the change pass, and the bridge goes on to make it.   *)
GoChange(l) == wpc' = l /\ UNCHANGED <<wport, wmac, scan, snap>>

Confirm ==
    /\ wpc = "confirm"
    /\ LET deletion == rows[wmac] # None /\ ~Has(wmac)
           again == IF deletion THEN FoundAgain(wmac) ELSE {}
       IN
       \/ /\ Cardinality(scan \cup again) <= MaxRows
          /\ scan' = scan \cup again
          /\ Advance("confirm", "add")
          /\ UNCHANGED fault
       \/ /\ Cardinality(scan \cup again) > MaxRows
          /\ WGoto("unlock") /\ UNCHANGED fault
       \/ /\ deletion /\ ~calm /\ fault' = 1
          /\ WGoto("unlock")
    /\ UNCHANGED <<hw, fdb, bports, members, ready, rows, moved, pending, rtnl, call, tpc, calm, absent, taken>>

(* The additions rt3000_uc_fdb_diff produces, one for every row. *)
AdditionsOnChange(m) == {r \in scan : r[1] = m /\ rows[m] # r[2]}  \* mutated form
Additions(m) == {r \in scan : r[1] = m}

(* rtl8365mb_uc_fdb_notify with an addition, as the bridge takes it under  *)
(* hash_lock: a new entry is made at once, an existing one is looked at by *)
(* the guard and then changed; a protected entry is skipped, an entry that *)
(* cannot be allocated ends the application of the snapshot.               *)
Add ==
    /\ wpc = "add"
    /\ \/ /\ Additions(wmac) = {}
          /\ Advance("add", "del") /\ UNCHANGED <<fdb, scan>>
       \/ \E r \in Additions(wmac) :
             LET e == fdb[wmac] IN
             \/ /\ r[2] \in bports /\ e = NoEntry
                /\ fdb' = [fdb EXCEPT ![wmac] = Mirrored(r[2])]
                /\ Advance("add", "del") /\ UNCHANGED scan
             \/ /\ r[2] \in bports /\ e # NoEntry /\ AddAllowed(e, r[2])
                /\ GoChange("adding") /\ UNCHANGED fdb
             \/ /\ r[2] \notin bports \/ (e # NoEntry /\ ~AddAllowed(e, r[2]))
                /\ Advance("add", "del") /\ UNCHANGED <<fdb, scan>>
             \/ /\ NotifyFails /\ ~calm /\ r[2] \in bports /\ e = NoEntry
                /\ WGoto("unlock") /\ UNCHANGED fdb
    /\ UNCHANGED <<hw, bports, switch, moved, pending, rtnl, call, tpc, calm, absent, taken>>

AddChange ==
    /\ wpc = "adding"
    /\ \E r \in Additions(wmac) : fdb' = [fdb EXCEPT ![wmac] = Mirrored(r[2])]
    /\ Advance("add", "del") /\ UNCHANGED scan
    /\ UNCHANGED <<hw, bports, switch, moved, pending, rtnl, call, tpc, calm, absent, taken>>

(* A deletion: a row of the committed snapshot whose address is in no row  *)
(* of the new one.                                                         *)
Deletes(m) == rows[m] # None /\ ~Has(m)

Del ==
    /\ wpc = "del"
    /\ IF /\ Deletes(wmac) /\ rows[wmac] \in bports
          /\ DelAllowed(fdb[wmac], rows[wmac])
       THEN GoChange("deleting")
       ELSE Advance("del", "commit") /\ UNCHANGED scan
    /\ UNCHANGED <<hw, fdb, bports, switch, moved, pending, rtnl, call, tpc, calm, absent, taken>>

DelChange ==
    /\ wpc = "deleting"
    /\ fdb' = [fdb EXCEPT ![wmac] = NoEntry]
    /\ Advance("del", "commit") /\ UNCHANGED scan
    /\ UNCHANGED <<hw, bports, switch, moved, pending, rtnl, call, tpc, calm, absent, taken>>

(* rtl8365mb_uc_fdb_sync_commit *)
Commit ==
    /\ wpc = "commit"
    /\ rows' = IF StillValid /\ members = snap
               THEN [m \in Mac |-> IF Has(m) THEN CHOOSE p \in Ports : <<m, p>> \in scan ELSE None]
               ELSE rows
    /\ WGoto("unlock")
    /\ UNCHANGED <<hw, fdb, bports, members, ready, fault, moved, pending, rtnl, call, tpc, calm, absent, taken>>

Unlock ==
    /\ wpc = "unlock"
    /\ rtnl' = "free"
    /\ WGoto("retry")
    /\ UNCHANGED <<hw, fdb, bports, switch, moved, pending, call, tpc, calm, absent, taken>>

(* Every path ends here. *)
Retry ==
    /\ wpc = "retry"
    /\ Schedule
    /\ wpc' = "off" /\ wport' = 0 /\ wmac' = 0 /\ scan' = {} /\ snap' = {}
    /\ absent' = {} /\ taken' = {}
    /\ moved' = FALSE
    /\ UNCHANGED <<hw, fdb, bports, switch, rtnl, call, tpc, calm>>

----------------------------------------------------------------------------
(* rtl8365mb_teardown, after DSA has destroyed the user ports; its caller  *)
(* may hold RTNL.                                                          *)

TeardownBegin ==
    /\ ~calm /\ tpc = "up" /\ bports = {} /\ call = NoCall
    /\ tpc' = "gate"
    /\ \/ rtnl = "free" /\ rtnl' = "teardown"
       \/ rtnl' = rtnl
    /\ UNCHANGED <<hw, fdb, bports, switch, moved, pending, worker, call, calm, absent, taken>>

(* Under uc_lock: no more queueing, and staged snapshots are invalid. *)
TeardownGate ==
    /\ tpc = "gate" /\ UcFree
    /\ ready' = FALSE /\ moved' = TRUE
    /\ tpc' = "cancel"
    /\ UNCHANGED <<hw, fdb, bports, members, fault, rows, pending, rtnl, worker, call, calm, absent, taken>>

(* cancel_delayed_work_sync waits for the work; then the rows are freed. *)
CancelWithoutSync == pending' = FALSE                            \* mutated form
CancelSync == wpc = "off" /\ pending' = FALSE

TeardownFree ==
    /\ tpc = "cancel"
    /\ CancelSync
    /\ tpc' = "freed"
    /\ rtnl' = IF rtnl = "teardown" THEN "free" ELSE rtnl
    /\ UNCHANGED <<hw, fdb, bports, switch, moved, worker, call, calm, absent, taken>>

(* From some moment on nothing happens but what is already under way. *)
Rest ==
    /\ ~calm
    /\ calm' = TRUE
    /\ UNCHANGED <<hw, fdb, bports, switch, moved, pending, rtnl, worker, call, tpc, absent, taken>>

----------------------------------------------------------------------------
Environment ==
    \/ \E m \in Mac :
          \/ HwAge(m) \/ SwRemove(m) \/ OtherDriver(m)
          \/ \E p \in Ports : HwLearn(m, p)
          \/ \E p \in Ports \cup {Wifi} : SwLearn(m, p) \/ UserAdd(m, p)
    \/ BeginCallback
    \/ Rest

Dsa == Enter \/ EnterFails \/ Post

Work ==
    \/ Run \/ Start \/ Read \/ Acquire \/ Recheck \/ Confirm \/ Add \/ AddChange
    \/ Del \/ DelChange \/ Commit \/ Unlock \/ Retry

Teardown == TeardownGate \/ TeardownFree

Next == Environment \/ Dsa \/ Work \/ TeardownBegin \/ Teardown

Spec == Init /\ [][Next]_vars

(* The kernel runs expired work and goes on with it.  A callback or the    *)
(* teardown may wait for uc_lock again and again, but a mutex of the       *)
(* kernel is handed to its waiter in the end: hence strong fairness.       *)
FairSpec == Spec /\ WF_vars(Work) /\ SF_vars(Dsa) /\ SF_vars(Teardown)

----------------------------------------------------------------------------
(* Properties *)

(* Every variable stays in the set of values the driver, the bridge or the *)
(* switch can give it.                                                     *)
TypeOK ==
    /\ hw \in [Mac -> Ports \cup {None, Static}]
    /\ fdb \in [Mac -> Entry \cup {NoEntry}]
    /\ bports \subseteq Ports
    /\ members \subseteq Ports
    /\ ready \in BOOLEAN
    /\ fault \in {0, 1}
    /\ rows \in [Mac -> Ports \cup {None}]
    /\ moved \in BOOLEAN
    /\ pending \in BOOLEAN
    /\ rtnl \in {"free", "worker", "dsa", "teardown"}
    /\ wpc \in Stage
    /\ wport \in Ports
    /\ wmac \in Mac
    /\ scan \subseteq Row
    /\ snap \subseteq Ports
    /\ call \in Call \cup {NoCall}
    /\ tpc \in {"up", "gate", "cancel", "freed"}
    /\ calm \in BOOLEAN
    /\ absent \subseteq Mac /\ taken \subseteq Mac

(* An address that the switch has had on a member port ever since the scan *)
(* began is not deleted from the bridge, even if it has moved from port to *)
(* port behind the cursor.                                                 *)
NoFalseDelete == wpc \in {"del", "deleting"} /\ Deletes(wmac) => wmac \in absent

(* Every entry the mirror owns in the bridge is in the committed snapshot, *)
(* on the same port, so that a later scan can delete it.                   *)
Covered ==
    ready /\ fault = 0 /\ wpc \notin {"add", "adding", "del", "deleting", "commit"} =>
        \A m \in Mac : fdb[m].ours => rows[m] = fdb[m].port

(* What the software path, a user or another driver has entered or moved   *)
(* in the bridge since the scan began stays on its port, and a user's      *)
(* stays a user's, when the older snapshot is applied: a station that has  *)
(* roamed to Wi-Fi is not taken back.  Only the lock-free path of          *)
(* br_fdb_update can come between the guard's look and the change.         *)
TakeoverStands ==
    [][Work => \A m \in taken :
          fdb'[m].port = fdb[m].port /\ fdb'[m].pinned = fdb[m].pinned]_vars

(* While the offload works and has members, the work is queued, running,   *)
(* or about to be queued by the callback that holds RTNL: no path through  *)
(* the worker loses the retry.                                             *)
SyncAlive == Active => pending \/ wpc # "off" \/ call.stage = "post"

(* The buffers are freed only when no work runs or can run. *)
NoUseAfterFree == tpc = "freed" => wpc = "off" /\ ~pending

(* A teardown that has begun comes to an end, with RTNL held or without:   *)
(* the work never waits for RTNL.                                          *)
TeardownEnds == tpc = "gate" ~> tpc = "freed"

(* The bridge agrees with the switch, as far as its guard allows. *)
InStep ==
    \A m \in Mac :
        /\ fdb[m].ours => hw[m] = fdb[m].port
        /\ hw[m] \in members => fdb[m] # NoEntry /\ (fdb[m].ours \/ ~AddAllowed(fdb[m], hw[m]))

(* Once the environment comes to rest, the mirror catches up: flushes and  *)
(* changes of ownership are repaired, stale entries removed, if the rows   *)
(* have room for all addresses and no application that was given up left   *)
(* an entry that is in no snapshot (see RetryRepairs).                     *)
Room == Cardinality({m \in Mac : hw[m] \in members}) <= MaxRows
Orphaned == \E m \in Mac : fdb[m].ours /\ rows[m] # fdb[m].port

Converges ==
    calm /\ Active /\ tpc = "up" /\ wpc = "off" /\ Room /\ ~Orphaned ~> InStep

(* What rt3000_uc_fdb_sync_apply says of a notifier error: the snapshot of *)
(* before is preserved for a retry.  If the retry is worth anything, it    *)
(* ends with a bridge that holds no mirrored entry the switch has lost.    *)
RetryRepairs ==
    calm /\ Active /\ tpc = "up" ~> \A m \in Mac : fdb[m].ours => hw[m] = fdb[m].port

=============================================================================
