--------------------------- MODULE IndirectAccess ---------------------------
(***************************************************************************)
(* Registers behind registers of the RTL8367S: PHY registers (OCP) and the *)
(* entries of its VLAN and address tables.  An access fills address and    *)
(* data registers, gives a command, polls until the engine is no longer    *)
(* busy, asks whether an address was found or stored, and reads the        *)
(* result, all under map_lock.  The poll gives up while the engine may     *)
(* still be working, and each register access may fail, with or without    *)
(* having taken effect.                                                    *)
(***************************************************************************)

CONSTANTS
    Proc,        \* callers: phylib, the bridge callbacks, the mirror, setup
    PhyReg,      \* PHY registers
    Vlan,        \* entries of the VLAN table
    Mac,         \* addresses the address table may have an entry for
    Data,        \* what PHY registers and VLANs hold
    Port,        \* what the entry of an address holds
    None         \* nobody, nothing, no entry, unknown

Cell == PhyReg \cup Vlan \cup Mac
Content == Data \cup Port \cup {None}
Contents(c) == IF c \in Mac THEN Port \cup {None} ELSE Data
Engine == {"phy", "table"}
EngineOf(c) == IF c \in PhyReg THEN "phy" ELSE "table"

(* PHY registers and VLANs are read and written by their address.  The     *)
(* address table is searched for a key, or from a place on; what is stored *)
(* carries its key, and with age zero (None) removes the entry.            *)
Op ==
    [kind : {"read"}, cell : PhyReg \cup Vlan, data : {None}]
        \cup [kind : {"write"}, cell : PhyReg \cup Vlan, data : Data]
        \cup [kind : {"lookup", "scan"}, cell : Mac, data : {None}]
        \cup [kind : {"store"}, cell : Mac, data : Port \cup {None}]

Writing == {"write", "store"}
L2 == {"lookup", "scan", "store"}

(* What a data register holds, and what an engine works on, with the       *)
(* caller that gave it.                                                    *)
Word == (Cell \cup {None}) \X Content
Unknown == <<None, None>>
Commands == [kind : {"read", "write"} \cup L2, cell : Cell \cup {None}, data : Content, by : Proc]

ASSUME CellAssumption == PhyReg \cap (Vlan \cup Mac) = {} /\ Vlan \cap Mac = {}
ASSUME NoneAssumption == None \notin Proc \cup Cell \cup Data \cup Port \cup Commands

VARIABLES
    mem,         \* what the PHY registers, VLANs and addresses hold
    addr, wdata, rdata,     \* address and data registers of each engine
    hit,         \* the place of the address last found or stored, or None
    busy,        \* the command each engine is working on, with its caller
    lock,        \* holder of map_lock
    pc, op,      \* next step and operation of each caller
    val, place,  \* the entry and the place it has read
    rc,          \* what it returns
    seen,        \* history: what its cells held since its command
    fate         \* history: what its command has come to

vars == <<mem, addr, wdata, rdata, hit, busy, lock, pc, op, val, place, rc, seen, fate>>
Regs == <<mem, addr, wdata, rdata, hit, busy>>
Mine == <<op, val, place, seen, fate>>

----------------------------------------------------------------------------
(* Data *)

Inside == {"idleWait", "address", "data", "command", "doneWait", "status", "result", "unlock"}
Stage == {"idle"} \cup Inside
Code == {"ok", "error", "absent"}
Fate == {"open", "done", "declined"}

Goto(p, s) == pc' = [pc EXCEPT ![p] = s]
My(p) == EngineOf(op[p].cell)

(* A PHY write fills the address and the data register, a VLAN write the   *)
(* data and the address register; reads and scans need the address only,   *)
(* and what goes by its key the data only.                                 *)
First(o) == IF o.cell \in PhyReg \/ o.kind \in {"read", "scan"} THEN "address" ELSE "data"
AfterAddress(o) == IF o.kind = "write" /\ o.cell \in PhyReg THEN "data" ELSE "command"
AfterData(o) == IF o.kind = "write" /\ o.cell \in Vlan THEN "address" ELSE "command"
AfterDone(o) ==
    IF o.kind \in L2 THEN "status" ELSE IF o.kind = "write" THEN "unlock" ELSE "result"
AfterHit(o) == IF o.kind = "store" THEN "unlock" ELSE "result"

(* goto out: unlock with the error.                                        *)
FailWith(p, e) == Goto(p, "unlock") /\ rc' = [rc EXCEPT ![p] = e]
Fail(p) == FailWith(p, "error")

----------------------------------------------------------------------------
(* An access *)

Lock(p) ==
    /\ pc[p] = "idle"
    /\ lock = None
    /\ lock' = p
    /\ \E o \in Op : op' = [op EXCEPT ![p] = o]
    /\ Goto(p, "idleWait")
    /\ UNCHANGED <<Regs, rc, val, place, seen, fate>>

(* poll_busy before anything is written: an earlier caller may have given  *)
(* up on a command that is still running.                                  *)
WaitIdle(p) ==
    /\ pc[p] = "idleWait"
    /\ \/ busy[My(p)] = None /\ Goto(p, First(op[p])) /\ UNCHANGED rc
       \/ Fail(p)
    /\ UNCHANGED <<Regs, Mine, lock>>

(* An address or a word is several registers or bits of them: what a write *)
(* that fails leaves there, the old, the new or a mixture, is unknown.     *)
StoreAddress(p, c) == addr' = [addr EXCEPT ![My(p)] = c]
StoreData(p, w) == wdata' = [wdata EXCEPT ![My(p)] = w]

Address(p) ==
    /\ pc[p] = "address"
    /\ \/ StoreAddress(p, op[p].cell) /\ Goto(p, AfterAddress(op[p])) /\ UNCHANGED rc
       \/ StoreAddress(p, None) /\ Fail(p)
    /\ UNCHANGED <<mem, wdata, rdata, hit, busy, lock, Mine>>

PutUnchecked(p) ==                                              \* mutated form
    /\ pc[p] = "data"
    /\ StoreData(p, <<op[p].cell, op[p].data>>) \/ UNCHANGED wdata
    /\ Goto(p, AfterData(op[p]))
    /\ UNCHANGED <<mem, addr, rdata, hit, busy, lock, Mine, rc>>

Put(p) ==
    /\ pc[p] = "data"
    /\ \/ StoreData(p, <<op[p].cell, op[p].data>>) /\ Goto(p, AfterData(op[p])) /\ UNCHANGED rc
       \/ StoreData(p, Unknown) /\ Fail(p)
    /\ UNCHANGED <<mem, addr, rdata, hit, busy, lock, Mine>>

(* The cells whose content a caller asks about.                            *)
Scope(o) ==
    CASE o.kind \in {"read", "lookup"} -> {o.cell}
      [] o.kind = "scan" -> Mac
      [] OTHER -> {}

(* The engine takes the command, and the rest of it from its registers:    *)
(* what is looked up or stored from the key in the data, all else from the *)
(* address.                                                                *)
Issue(p) ==
    LET e == My(p)  k == op[p].kind IN
    /\ busy' = [busy EXCEPT ![e] =
           [kind |-> k, cell |-> IF k \in {"lookup", "store"} THEN wdata[e][1] ELSE addr[e],
            data |-> IF k \in Writing THEN wdata[e][2] ELSE None, by |-> p]]
    /\ seen' = [seen EXCEPT ![p] = {<<c, mem[c]>> : c \in Scope(op[p])}]

Command(p) ==
    /\ pc[p] = "command"
    /\ \/ Issue(p) /\ Goto(p, "doneWait") /\ UNCHANGED rc
       \/ (Issue(p) \/ UNCHANGED <<busy, seen>>) /\ Fail(p)
    /\ UNCHANGED <<mem, addr, wdata, rdata, hit, lock, op, val, place, fate>>

DoneUnpolled(p) ==                                              \* mutated form
    /\ pc[p] = "doneWait"
    /\ Goto(p, AfterDone(op[p]))
    /\ UNCHANGED <<Regs, Mine, lock, rc>>

WaitDone(p) ==
    /\ pc[p] = "doneWait"
    /\ \/ busy[My(p)] = None /\ Goto(p, AfterDone(op[p])) /\ UNCHANGED rc
       \/ Fail(p)
    /\ UNCHANGED <<Regs, Mine, lock>>

StatusUnchecked(p) ==                                           \* mutated form
    /\ pc[p] = "status"
    /\ \/ Goto(p, AfterHit(op[p])) /\ UNCHANGED rc
          /\ place' = [place EXCEPT ![p] = IF op[p].kind = "scan" THEN hit ELSE @]
       \/ UNCHANGED place /\ Fail(p)
    /\ UNCHANGED <<Regs, lock, op, val, seen, fate>>

(* The status is read once more: without HIT the address was not found, or *)
(* not stored (-ENOENT); the caller of a scan is given the place.          *)
Status(p) ==
    /\ pc[p] = "status"
    /\ \/ hit # None /\ Goto(p, AfterHit(op[p])) /\ UNCHANGED rc
          /\ place' = [place EXCEPT ![p] = IF op[p].kind = "scan" THEN hit ELSE @]
       \/ hit = None /\ FailWith(p, "absent") /\ UNCHANGED place
       \/ Fail(p) /\ UNCHANGED place
    /\ UNCHANGED <<Regs, lock, op, val, seen, fate>>

Result(p) ==
    /\ pc[p] = "result"
    /\ \/ val' = [val EXCEPT ![p] = rdata[My(p)]] /\ Goto(p, "unlock") /\ UNCHANGED rc
       \/ UNCHANGED val /\ Fail(p)
    /\ UNCHANGED <<Regs, lock, op, place, seen, fate>>

(* rtl8365mb_phy_ocp_write returns 0 in every case.                        *)
Returned(p) == IF op[p].kind = "write" /\ op[p].cell \in PhyReg THEN "ok" ELSE rc[p]

(* The caller has its result, and is forgotten.                            *)
Forget(p) ==
    /\ op' = [op EXCEPT ![p] = None]
    /\ val' = [val EXCEPT ![p] = Unknown]
    /\ place' = [place EXCEPT ![p] = None]
    /\ rc' = [rc EXCEPT ![p] = "ok"]
    /\ seen' = [seen EXCEPT ![p] = {}]
    /\ fate' = [fate EXCEPT ![p] = "open"]

UnlockKept(p) ==                                                \* mutated form
    /\ pc[p] = "unlock"
    /\ lock' = IF rc[p] = "absent" THEN lock ELSE None
    /\ Goto(p, "idle")
    /\ Forget(p)
    /\ UNCHANGED Regs

Unlock(p) ==
    /\ pc[p] = "unlock"
    /\ lock' = None
    /\ Goto(p, "idle")
    /\ Forget(p)
    /\ UNCHANGED Regs

----------------------------------------------------------------------------
(* The switch *)

Waits(p) == pc[p] \in {"doneWait", "status", "result"}

Remember(c, d) ==
    seen' = [p \in Proc |->
        IF Waits(p) /\ c \in Scope(op[p]) THEN seen[p] \cup {<<c, d>>} ELSE seen[p]]

(* The command of the caller that waits for engine e has come to f.        *)
Comes(p, e, f) == fate' = IF Waits(p) /\ My(p) = e THEN [fate EXCEPT ![p] = f] ELSE fate

Reads(e, b) ==
    /\ b.kind = "read"
    /\ rdata' = [rdata EXCEPT ![e] = <<b.cell, mem[b.cell]>>]
    /\ Comes(b.by, e, "done")
    /\ UNCHANGED <<mem, hit, seen>>

(* An address is found if it has an entry; a scan looks for the entries of *)
(* one port only, and may end without one.                                 *)
Finds(e, b) ==
    /\ b.kind \in {"lookup", "scan"}
    /\ \E c \in IF b.kind = "scan" THEN Mac ELSE {b.cell} :
          /\ mem[c] # None
          /\ hit' = c
          /\ rdata' = [rdata EXCEPT ![e] = <<c, mem[c]>>]
    /\ Comes(b.by, e, "done")
    /\ UNCHANGED <<mem, seen>>

Misses(e, b) ==
    /\ b.kind \in {"lookup", "scan"}
    /\ b.kind = "lookup" => mem[b.cell] = None
    /\ hit' = None
    /\ Comes(b.by, e, "done")
    /\ UNCHANGED <<mem, rdata, seen>>

Stores(e, b) ==
    /\ b.kind \in Writing
    /\ mem' = [mem EXCEPT ![b.cell] = b.data]
    /\ hit' = IF b.kind = "store" THEN b.cell ELSE hit
    /\ Remember(b.cell, b.data)
    /\ Comes(b.by, e, "done")
    /\ UNCHANGED rdata

(* No room, or nothing to remove.                                          *)
Declines(e, b) ==
    /\ b.kind = "store"
    /\ hit' = None
    /\ Comes(b.by, e, "declined")
    /\ UNCHANGED <<mem, rdata, seen>>

(* An engine finishes its command.                                         *)
Finish(e) ==
    LET b == busy[e] IN
    /\ b # None
    /\ Reads(e, b) \/ Finds(e, b) \/ Misses(e, b) \/ Stores(e, b) \/ Declines(e, b)
    /\ busy' = [busy EXCEPT ![e] = None]
    /\ UNCHANGED <<addr, wdata, lock, pc, op, val, place, rc>>

(* A link goes up or down; an address is learned, moves or ages.           *)
Change(c) ==
    /\ \E d \in Contents(c) : mem' = [mem EXCEPT ![c] = d] /\ Remember(c, d)
    /\ UNCHANGED <<addr, wdata, rdata, hit, busy, lock, pc, op, val, place, rc, fate>>

Init ==
    /\ mem \in {m \in [Cell -> Content] : \A c \in Cell : m[c] \in Contents(c)}
    /\ addr = [e \in Engine |-> None]
    /\ wdata = [e \in Engine |-> Unknown] /\ rdata = wdata
    /\ hit = None
    /\ busy = [e \in Engine |-> None]
    /\ lock = None
    /\ pc = [p \in Proc |-> "idle"]
    /\ op = [p \in Proc |-> None]
    /\ val = [p \in Proc |-> Unknown]
    /\ place = [p \in Proc |-> None]
    /\ rc = [p \in Proc |-> "ok"]
    /\ seen = [p \in Proc |-> {}]
    /\ fate = [p \in Proc |-> "open"]

Access(p) ==
    \/ Lock(p) \/ WaitIdle(p) \/ Address(p) \/ Put(p) \/ Command(p) \/ WaitDone(p)
    \/ Status(p) \/ Result(p) \/ Unlock(p)

Next ==
    \/ \E p \in Proc : Access(p)
    \/ \E e \in Engine : Finish(e)
    \/ \E c \in PhyReg \cup Mac : Change(c)

Spec == Init /\ [][Next]_vars

----------------------------------------------------------------------------
(* Properties *)

(* Every variable stays in its set, and exactly the holder of map_lock is  *)
(* between lock and unlock.                                                *)
TypeOK ==
    /\ mem \in [Cell -> Content]
    /\ addr \in [Engine -> Cell \cup {None}]
    /\ wdata \in [Engine -> Word] /\ rdata \in [Engine -> Word]
    /\ hit \in Cell \cup {None}
    /\ busy \in [Engine -> Commands \cup {None}]
    /\ lock \in Proc \cup {None}
    /\ pc \in [Proc -> Stage]
    /\ op \in [Proc -> Op \cup {None}]
    /\ val \in [Proc -> Word]
    /\ place \in [Proc -> Cell \cup {None}]
    /\ rc \in [Proc -> Code]
    /\ seen \in [Proc -> SUBSET Word]
    /\ fate \in [Proc -> Fate]
    /\ \A p \in Proc : pc[p] \in Inside <=> lock = p

(* A read that succeeds returns what the cell asked for, or for a scan the *)
(* cell at the place it returns, held at some time since its command:      *)
(* never the late answer to somebody else's.  An address that is reported  *)
(* absent was absent at such a time.                                       *)
ReadIsOwn ==
    \A p \in Proc : pc[p] = "unlock" =>
        /\ Returned(p) = "ok" /\ op[p].kind \notin Writing => val[p] \in seen[p]
        /\ Returned(p) = "ok" /\ op[p].kind = "scan" => place[p] = val[p][1]
        /\ Returned(p) = "absent" /\ op[p].kind = "lookup" => <<op[p].cell, None>> \in seen[p]

(* The engines are only ever given an operation somebody asked for: no     *)
(* address or key of one with the data of another, also after an access    *)
(* has failed half way.                                                    *)
OnlyWhatWasAsked ==
    [][\A e \in Engine :
          busy'[e] # None /\ busy'[e] # busy[e] =>
              LET o == op[busy'[e].by] IN
              busy'[e].kind = o.kind /\ busy'[e].cell = o.cell /\ busy'[e].data = o.data]_vars

(* A table write that returns 0 has been carried out, also when the engine *)
(* found no room for some other entry; and one that returns -ENOENT was    *)
(* declined by the engine.                                                 *)
EntryWritten ==
    \A p \in Proc :
        pc[p] = "unlock" /\ op[p].kind \in Writing /\ op[p].cell \notin PhyReg =>
            /\ Returned(p) = "ok" => fate[p] = "done"
            /\ Returned(p) = "absent" => fate[p] = "declined"

=============================================================================
