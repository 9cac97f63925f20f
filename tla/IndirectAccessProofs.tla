------------------------ MODULE IndirectAccessProofs ------------------------
(* What the caller inside map_lock knows of the engine it uses, and the    *)
(* properties of IndirectAccess that follow, for any callers and cells.    *)
EXTENDS IndirectAccess, TLAPS

Clear == {"idle", "idleWait", "address", "data", "command", "doneWait", "status", "result"}
ByKey == {"lookup", "store"}

(* The operation of a caller and the error it has to report.               *)
Asked(p) ==
    /\ pc[p] \in Inside => op[p] \in Op
    /\ pc[p] \in Clear => rc[p] = "ok"

(* Before its command the engine is idle and its registers fill up with    *)
(* what was asked.                                                         *)
Filled(p) ==
    LET o == op[p]  word == wdata[My(p)] = <<o.cell, o.data>> IN
    /\ pc[p] \in {"address", "data", "command"} => busy[My(p)] = None
    /\ pc[p] = "data" =>
          /\ o.kind \in ByKey \cup {"write"}
          /\ o.cell \in PhyReg => addr[My(p)] = o.cell
    /\ pc[p] = "address" =>
          /\ o.kind \notin ByKey
          /\ o.kind = "write" /\ o.cell \notin PhyReg => word
    /\ pc[p] = "command" =>
          /\ o.kind \notin ByKey => addr[My(p)] = o.cell
          /\ o.kind \in ByKey \cup {"write"} => word

(* The engine has done what was asked, or has declined it, and holds the   *)
(* answer.                                                                 *)
Answered(p) ==
    LET k == op[p].kind  r == rdata[My(p)] IN
    /\ k = "read" => r \in seen[p]
    /\ k \in {"lookup", "scan"} /\ hit # None => r \in seen[p] /\ r[1] = hit
    /\ k = "lookup" /\ hit = None => <<op[p].cell, None>> \in seen[p]
    /\ k = "write" => fate[p] = "done"
    /\ k = "store" => fate[p] = IF hit = None THEN "declined" ELSE "done"

(* What its cells hold is remembered while it waits.                       *)
Watched(p) == Waits(p) => \A c \in Scope(op[p]) : <<c, mem[c]>> \in seen[p]

(* After its command the engine works on it or has carried it out.         *)
Flying(p) ==
    /\ pc[p] = "doneWait" =>
          IF busy[My(p)] = None THEN Answered(p)
          ELSE /\ busy[My(p)].by = p /\ busy[My(p)].cell = op[p].cell
               /\ busy[My(p)].kind = op[p].kind
    /\ pc[p] \in {"status", "result"} => busy[My(p)] = None /\ Answered(p)
    /\ pc[p] = "status" => op[p].kind \in L2
    /\ pc[p] = "result" =>
          /\ op[p].kind \notin Writing
          /\ op[p].kind \in L2 => hit # None
          /\ op[p].kind = "scan" => place[p] = hit

(* What it returns is the answer, or an error.                             *)
Settled(p) ==
    pc[p] = "unlock" =>
        /\ rc[p] = "ok" =>
              /\ op[p].kind \notin Writing => val[p] \in seen[p]
              /\ op[p].kind = "scan" => place[p] = val[p][1]
              /\ op[p].kind \in Writing => fate[p] = "done"
        /\ rc[p] = "absent" =>
              /\ op[p].kind \in L2
              /\ op[p].kind = "lookup" => <<op[p].cell, None>> \in seen[p]
              /\ op[p].kind = "store" => fate[p] = "declined"

(* An engine only ever has a command of its own for a cell.                *)
Sane == \A e \in Engine : busy[e] # None =>
            /\ busy[e].cell \in Cell /\ EngineOf(busy[e].cell) = e
            /\ busy[e].kind \in L2 <=> busy[e].cell \in Mac

Knows(p) == Asked(p) /\ Filled(p) /\ Watched(p) /\ Flying(p) /\ Settled(p)

IInv == TypeOK /\ Sane /\ \A p \in Proc : Knows(p)

LEMMA InitIInv == Init => IInv
<1> SUFFICES ASSUME Init PROVE IInv OBVIOUS
<1>1. TypeOK
  <2>1. Unknown \in Word BY DEF Unknown, Word, Content
  <2>2. mem \in [Cell -> Content] BY DEF Init
  <2>3. \A p \in Proc : pc[p] \in Inside <=> lock = p BY NoneAssumption DEF Init, Inside
  <2>4. /\ addr \in [Engine -> Cell \cup {None}] /\ wdata \in [Engine -> Word]
        /\ rdata \in [Engine -> Word] /\ busy \in [Engine -> Commands \cup {None}]
    BY <2>1 DEF Init
  <2>5. /\ pc \in [Proc -> Stage] /\ op \in [Proc -> Op \cup {None}]
        /\ val \in [Proc -> Word] /\ place \in [Proc -> Cell \cup {None}]
        /\ rc \in [Proc -> Code] /\ seen \in [Proc -> SUBSET Word] /\ fate \in [Proc -> Fate]
    BY <2>1 DEF Init, Stage, Code, Fate
  <2> QED BY <2>2, <2>3, <2>4, <2>5 DEF Init, TypeOK
<1>2. Sane BY DEF Init, Sane
<1>3. \A p \in Proc : Knows(p)
  BY DEF Init, Knows, Asked, Filled, Watched, Flying, Settled, Inside, Waits
<1> QED BY <1>1, <1>2, <1>3 DEF IInv

LEMMA OpFacts ==
    ASSUME NEW o \in Op
    PROVE  /\ o.cell \in Cell /\ o.data \in Content /\ EngineOf(o.cell) \in Engine
           /\ o.kind \in {"read", "write"} \cup L2
           /\ o.kind \in L2 <=> o.cell \in Mac
           /\ o.kind \in L2 => o.cell \notin PhyReg
           /\ o.kind = "write" /\ o.cell \notin PhyReg => o.cell \in Vlan
           /\ o.kind \notin Writing => o.data = None
           /\ Scope(o) \subseteq Cell
<1>1. /\ o.kind \in {"read", "write"} \cup L2 /\ o.cell \in Cell /\ o.data \in Content
      /\ o.kind \in L2 <=> o.cell \in Mac
      /\ o.kind \notin Writing => o.data = None
  BY CellAssumption DEF Op, Cell, Content, L2, Writing
<1>2. Scope(o) \subseteq Cell BY <1>1 DEF Scope, L2, Cell
<1> QED BY <1>1, <1>2, CellAssumption DEF EngineOf, Engine, Cell, L2

----------------------------------------------------------------------------
(* The callers a step does not concern                                     *)

Same(q) ==
    /\ pc'[q] = pc[q] /\ op'[q] = op[q] /\ rc'[q] = rc[q] /\ place'[q] = place[q]
    /\ val'[q] = val[q] /\ seen'[q] = seen[q] /\ fate'[q] = fate[q]

(* A caller outside map_lock knows nothing of the registers.               *)
LEMMA Outside ==
    ASSUME NEW q \in Proc, Knows(q), Same(q), pc[q] \notin Inside
    PROVE  Knows(q)'
<1>1. Asked(q)' BY DEF Knows, Same, Asked
<1>2. Filled(q)' BY DEF Same, Filled, Inside
<1>3. Watched(q)' /\ Flying(q)' BY DEF Same, Watched, Flying, Waits, Inside
<1>4. Settled(q)' BY DEF Same, Settled, Inside
<1> QED BY <1>1, <1>2, <1>3, <1>4 DEF Knows

LEMMA Undisturbed ==
    ASSUME NEW q \in Proc, Knows(q), Same(q), UNCHANGED Regs
    PROVE  Knows(q)'
<1> USE DEF Same, Regs, My
<1>1. Asked(q)' BY DEF Knows, Asked
<1>2. Filled(q)' BY DEF Knows, Filled
<1>3. Watched(q)' BY DEF Knows, Watched, Waits
<1>4. Answered(q) => Answered(q)' BY DEF Answered
<1>5. Flying(q)' BY <1>4 DEF Knows, Flying
<1>6. Settled(q)' BY DEF Knows, Settled
<1> QED BY <1>1, <1>2, <1>3, <1>5, <1>6 DEF Knows

LEMMA OneInside ==
    ASSUME TypeOK, NEW p \in Proc, NEW q \in Proc, pc[p] \in Inside, pc[q] \in Inside
    PROVE  p = q
  BY DEF TypeOK

(* A step inside map_lock leaves what every other caller knows.            *)
LEMMA Inner ==
    ASSUME IInv, NEW p \in Proc, pc[p] \in Inside,
           \A q \in Proc \ {p} : Same(q),
           TypeOK', Sane', Knows(p)'
    PROVE  IInv'
<1>1. ASSUME NEW q \in Proc PROVE Knows(q)'
  <2>1. CASE q = p BY <2>1
  <2>2. CASE q # p
    <3>1. pc[q] \notin Inside BY <2>2, OneInside DEF IInv
    <3> QED BY <2>2, <3>1, Outside DEF IInv
  <2> QED BY <2>1, <2>2
<1> QED BY <1>1 DEF IInv

(* The end of every access that fails or finds nothing: goto out.          *)
LEMMA Failed ==
    ASSUME IInv, NEW p \in Proc, op[p] \in Op, op' = op, Fail(p)
    PROVE  Knows(p)'
<1>1. pc'[p] = "unlock" /\ rc'[p] = "error" BY DEF Fail, FailWith, Goto, IInv, TypeOK
<1> QED BY <1>1 DEF Knows, Asked, Filled, Watched, Flying, Settled, Waits, Clear

(* The steps of a caller stay inside map_lock.                             *)
LEMMA StaysInside ==
    ASSUME TypeOK, NEW p \in Proc, pc[p] \in Inside, lock' = lock,
           NEW s \in Inside, NEW c \in Code,
           pc' = [pc EXCEPT ![p] = s], rc' = [rc EXCEPT ![p] = c] \/ rc' = rc
    PROVE  /\ pc' \in [Proc -> Stage] /\ rc' \in [Proc -> Code]
           /\ \A q \in Proc : pc'[q] \in Inside <=> lock' = q
           /\ pc'[p] = s /\ \A q \in Proc \ {p} : pc'[q] = pc[q] /\ rc'[q] = rc[q]
  BY DEF TypeOK, Stage

LEMMA Stages ==
    ASSUME NEW o
    PROVE  /\ First(o) \in Inside /\ AfterAddress(o) \in Inside /\ AfterData(o) \in Inside
           /\ AfterDone(o) \in Inside /\ AfterHit(o) \in Inside /\ "unlock" \in Inside
           /\ {"ok", "error", "absent"} \subseteq Code
  BY DEF First, AfterAddress, AfterData, AfterDone, AfterHit, Inside, Code

----------------------------------------------------------------------------
(* Steps of a caller                                                       *)

LEMMA LockStep == ASSUME IInv, NEW p \in Proc, Lock(p) PROVE IInv'
<1> USE DEF IInv
<1> PICK o \in Op : op' = [op EXCEPT ![p] = o]
  BY DEF Lock
<1>1. TypeOK' BY NoneAssumption DEF TypeOK, Lock, Goto, Regs, Stage, Inside
<1>2. Sane' BY DEF Sane, Lock, Regs
<1>3. ASSUME NEW q \in Proc PROVE Knows(q)'
  <2>1. CASE q = p
    <3>1. pc'[p] = "idleWait" /\ op'[p] \in Op /\ rc'[p] = rc[p]
      BY DEF Lock, Goto, TypeOK
    <3>2. rc[p] = "ok"
      BY DEF Lock, Knows, Asked, Clear
    <3> QED BY <2>1, <3>1, <3>2 DEF Knows, Asked, Filled, Watched, Flying, Settled, Waits
  <2>2. CASE q # p
    BY <2>2, Undisturbed DEF Lock, Goto, Same, TypeOK
  <2> QED BY <2>1, <2>2
<1> QED BY <1>1, <1>2, <1>3

LEMMA WaitIdleStep == ASSUME IInv, NEW p \in Proc, WaitIdle(p) PROVE IInv'
<1> USE DEF IInv
<1>0. /\ op[p] \in Op /\ rc[p] = "ok" /\ pc[p] = "idleWait" /\ pc[p] \in Inside
      /\ op' = op /\ UNCHANGED <<Regs, lock, val, place, seen, fate>>
  BY DEF WaitIdle, Knows, Asked, Inside, Clear, Mine
<1>s. \E s \in Inside, c \in Code : pc' = [pc EXCEPT ![p] = s] /\ (rc' = [rc EXCEPT ![p] = c] \/ rc' = rc)
  BY Stages DEF WaitIdle, Goto, Fail, FailWith
<1>t. /\ pc' \in [Proc -> Stage] /\ rc' \in [Proc -> Code]
      /\ \A q \in Proc : pc'[q] \in Inside <=> lock' = q
      /\ \A q \in Proc \ {p} : pc'[q] = pc[q] /\ rc'[q] = rc[q]
  BY <1>0, <1>s, StaysInside
<1>1. TypeOK' BY <1>0, <1>t DEF TypeOK, Regs
<1>2. Sane' BY <1>0 DEF Sane, Regs
<1>3. Knows(p)'
  <2>1. CASE busy[My(p)] = None /\ Goto(p, First(op[p])) /\ UNCHANGED rc
    <3>1. pc'[p] = First(op[p]) /\ rc'[p] = "ok" BY <1>0, <2>1 DEF Goto, TypeOK
    <3>2. Asked(p)' BY <1>0, <3>1 DEF Asked
    <3>3. Filled(p)'
      BY <1>0, <2>1, <3>1, OpFacts DEF Filled, First, My, Regs, ByKey, L2
    <3>4. Watched(p)' /\ Flying(p)' BY <3>1 DEF Watched, Flying, Waits, First
    <3>5. Settled(p)' BY <3>1 DEF Settled, First
    <3> QED BY <3>2, <3>3, <3>4, <3>5 DEF Knows
  <2>2. CASE Fail(p)
    BY <1>0, <2>2, Failed
  <2> QED BY <2>1, <2>2 DEF WaitIdle
<1>4. \A q \in Proc \ {p} : Same(q)
  BY <1>0, <1>t DEF Same
<1> QED BY <1>0, <1>1, <1>2, <1>3, <1>4, Inner

LEMMA AddressStep == ASSUME IInv, NEW p \in Proc, Address(p) PROVE IInv'
<1> USE DEF IInv
<1>0. /\ op[p] \in Op /\ rc[p] = "ok" /\ pc[p] = "address" /\ pc[p] \in Inside
      /\ UNCHANGED <<op, mem, wdata, rdata, hit, busy, lock, val, place, seen, fate>>
  BY DEF Address, Knows, Asked, Inside, Clear, Mine
<1>a. addr' = [addr EXCEPT ![My(p)] = op[p].cell] \/ addr' = [addr EXCEPT ![My(p)] = None]
  BY DEF Address, StoreAddress
<1>b. My(p) \in Engine /\ op[p].cell \in Cell
  BY <1>0, OpFacts DEF My
<1>s. \E s \in Inside, c \in Code : pc' = [pc EXCEPT ![p] = s] /\ (rc' = [rc EXCEPT ![p] = c] \/ rc' = rc)
  BY Stages DEF Address, Goto, Fail, FailWith
<1>t. /\ pc' \in [Proc -> Stage] /\ rc' \in [Proc -> Code]
      /\ \A q \in Proc : pc'[q] \in Inside <=> lock' = q
      /\ \A q \in Proc \ {p} : pc'[q] = pc[q] /\ rc'[q] = rc[q]
  BY <1>0, <1>s, StaysInside
<1>1. TypeOK'
  <2>1. addr' \in [Engine -> Cell \cup {None}] BY <1>a, <1>b DEF TypeOK
  <2> QED BY <1>0, <1>t, <2>1 DEF TypeOK
<1>2. Sane' BY <1>0 DEF Sane
<1>3. Knows(p)'
  <2>1. CASE StoreAddress(p, op[p].cell) /\ Goto(p, AfterAddress(op[p])) /\ UNCHANGED rc
    <3>1. pc'[p] = AfterAddress(op[p]) /\ rc'[p] = "ok" BY <1>0, <2>1 DEF Goto, TypeOK
    <3>2. addr'[My(p)] = op[p].cell BY <1>b, <2>1 DEF StoreAddress, TypeOK
    <3>3. /\ busy[My(p)] = None /\ op[p].kind \notin ByKey
          /\ op[p].kind = "write" /\ op[p].cell \notin PhyReg => wdata[My(p)] = <<op[p].cell, op[p].data>>
      BY <1>0 DEF Knows, Filled
    <3>4. Asked(p)' BY <1>0, <3>1 DEF Asked
    <3>5. Filled(p)'
      BY <1>0, <3>1, <3>2, <3>3 DEF Filled, AfterAddress, My
    <3>6. Watched(p)' /\ Flying(p)' /\ Settled(p)'
      BY <3>1 DEF Watched, Flying, Settled, Waits, AfterAddress
    <3> QED BY <3>4, <3>5, <3>6 DEF Knows
  <2>2. CASE Fail(p)
    BY <1>0, <2>2, Failed
  <2> QED BY <2>1, <2>2 DEF Address
<1>4. \A q \in Proc \ {p} : Same(q)
  BY <1>0, <1>t DEF Same
<1> QED BY <1>0, <1>1, <1>2, <1>3, <1>4, Inner

LEMMA PutStep == ASSUME IInv, NEW p \in Proc, Put(p) PROVE IInv'
<1> USE DEF IInv
<1> DEFINE w == <<op[p].cell, op[p].data>>
<1>0. /\ op[p] \in Op /\ rc[p] = "ok" /\ pc[p] = "data" /\ pc[p] \in Inside
      /\ UNCHANGED <<op, mem, addr, rdata, hit, busy, lock, val, place, seen, fate>>
  BY DEF Put, Knows, Asked, Inside, Clear, Mine
<1>k. /\ busy[My(p)] = None /\ op[p].kind \in ByKey \cup {"write"}
      /\ op[p].cell \in PhyReg => addr[My(p)] = op[p].cell
  BY <1>0 DEF Knows, Filled
<1>a. wdata' = [wdata EXCEPT ![My(p)] = w] \/ wdata' = [wdata EXCEPT ![My(p)] = Unknown]
  BY DEF Put, StoreData
<1>b. My(p) \in Engine /\ w \in Word /\ Unknown \in Word
  BY <1>0, OpFacts DEF My, Word, Unknown, Content
<1>s. \E s \in Inside, c \in Code : pc' = [pc EXCEPT ![p] = s] /\ (rc' = [rc EXCEPT ![p] = c] \/ rc' = rc)
  BY Stages DEF Put, Goto, Fail, FailWith
<1>t. /\ pc' \in [Proc -> Stage] /\ rc' \in [Proc -> Code]
      /\ \A q \in Proc : pc'[q] \in Inside <=> lock' = q
      /\ \A q \in Proc \ {p} : pc'[q] = pc[q] /\ rc'[q] = rc[q]
  BY <1>0, <1>s, StaysInside
<1>1. TypeOK'
  <2>1. wdata' \in [Engine -> Word] BY <1>a, <1>b DEF TypeOK
  <2> QED BY <1>0, <1>t, <2>1 DEF TypeOK
<1>2. Sane' BY <1>0 DEF Sane
<1>3. Knows(p)'
  <2>1. CASE StoreData(p, w) /\ Goto(p, AfterData(op[p])) /\ UNCHANGED rc
    <3>1. pc'[p] = AfterData(op[p]) /\ rc'[p] = "ok" BY <1>0, <2>1 DEF Goto, TypeOK
    <3>2. wdata'[My(p)] = w BY <1>b, <2>1 DEF StoreData, TypeOK
    <3>4. Asked(p)' BY <1>0, <3>1 DEF Asked
    <3>5. op[p].kind = "write" /\ op[p].cell \notin PhyReg => op[p].cell \in Vlan
      BY <1>0, OpFacts
    <3>6. op[p].kind = "write" /\ op[p].cell \in Vlan => op[p].cell \notin PhyReg
      BY CellAssumption
    <3>7. Filled(p)'
      BY <1>0, <1>k, <3>1, <3>2, <3>5, <3>6 DEF Filled, AfterData, My, ByKey
    <3>8. Watched(p)' /\ Flying(p)' /\ Settled(p)'
      BY <3>1 DEF Watched, Flying, Settled, Waits, AfterData
    <3> QED BY <3>4, <3>7, <3>8 DEF Knows
  <2>2. CASE Fail(p)
    BY <1>0, <2>2, Failed
  <2> QED BY <2>1, <2>2 DEF Put
<1>4. \A q \in Proc \ {p} : Same(q)
  BY <1>0, <1>t DEF Same
<1> QED BY <1>0, <1>1, <1>2, <1>3, <1>4, Inner

(* The engine is given exactly what was asked.                             *)
LEMMA Given ==
    ASSUME IInv, NEW p \in Proc, pc[p] = "command", Issue(p)
    PROVE  busy' = [busy EXCEPT ![My(p)] =
               [kind |-> op[p].kind, cell |-> op[p].cell, data |-> op[p].data, by |-> p]]
<1>1. /\ op[p] \in Op
      /\ op[p].kind \notin ByKey => addr[My(p)] = op[p].cell
      /\ op[p].kind \in ByKey \cup {"write"} => wdata[My(p)] = <<op[p].cell, op[p].data>>
  BY DEF IInv, Knows, Asked, Filled, Inside
<1>2. op[p].kind \in {"read", "write"} \cup L2 /\ (op[p].kind \notin Writing => op[p].data = None)
  BY <1>1, OpFacts
<1>3. (IF op[p].kind \in {"lookup", "store"} THEN wdata[My(p)][1] ELSE addr[My(p)]) = op[p].cell
  BY <1>1 DEF ByKey
<1>4. (IF op[p].kind \in Writing THEN wdata[My(p)][2] ELSE None) = op[p].data
  BY <1>1, <1>2 DEF ByKey, Writing
<1> QED BY <1>3, <1>4 DEF Issue

LEMMA CommandStep == ASSUME IInv, NEW p \in Proc, Command(p) PROVE IInv'
<1> USE DEF IInv
<1> DEFINE e == My(p)
           c == [kind |-> op[p].kind, cell |-> op[p].cell, data |-> op[p].data, by |-> p]
           asked == {<<x, mem[x]>> : x \in Scope(op[p])}
<1>0. /\ op[p] \in Op /\ rc[p] = "ok" /\ pc[p] = "command" /\ pc[p] \in Inside
      /\ UNCHANGED <<op, mem, addr, wdata, rdata, hit, lock, val, place, fate>>
  BY DEF Command, Knows, Asked, Inside, Clear
<1>b. /\ e \in Engine /\ EngineOf(op[p].cell) = e /\ op[p].cell \in Cell
      /\ op[p].kind \in L2 <=> op[p].cell \in Mac
      /\ op[p].kind \in {"read", "write"} \cup L2 /\ op[p].data \in Content
      /\ Scope(op[p]) \subseteq Cell
  BY <1>0, OpFacts DEF My
<1>c. c \in Commands /\ c # None
  <2>1. c \in Commands BY <1>b DEF Commands
  <2> QED BY <2>1, NoneAssumption
<1>d. asked \subseteq Word
  BY <1>b DEF TypeOK, Word
<1>a. \/ busy' = [busy EXCEPT ![e] = c] /\ seen' = [seen EXCEPT ![p] = asked]
      \/ busy' = busy /\ seen' = seen
  BY <1>0, Given DEF Command, Issue
<1>s. \E s \in Inside, x \in Code : pc' = [pc EXCEPT ![p] = s] /\ (rc' = [rc EXCEPT ![p] = x] \/ rc' = rc)
  <2>1. "doneWait" \in Inside BY DEF Inside
  <2> QED BY <2>1, Stages DEF Command, Goto, Fail, FailWith
<1>t. /\ pc' \in [Proc -> Stage] /\ rc' \in [Proc -> Code]
      /\ \A q \in Proc : pc'[q] \in Inside <=> lock' = q
      /\ \A q \in Proc \ {p} : pc'[q] = pc[q] /\ rc'[q] = rc[q]
  BY <1>0, <1>s, StaysInside
<1> HIDE DEF asked
<1>1. TypeOK'
  <2>1. busy' \in [Engine -> Commands \cup {None}] BY <1>a, <1>b, <1>c DEF TypeOK
  <2>2. seen' \in [Proc -> SUBSET Word] BY <1>a, <1>d DEF TypeOK
  <2> QED BY <1>0, <1>t, <2>1, <2>2 DEF TypeOK
<1>2. Sane'
  <2>1. c.cell = op[p].cell /\ c.kind = op[p].kind OBVIOUS
  <2> HIDE DEF c
  <2> QED BY <1>a, <1>b, <2>1 DEF Sane, TypeOK
<1>3. Knows(p)'
  <2>1. CASE Issue(p) /\ Goto(p, "doneWait") /\ UNCHANGED rc
    <3>1. pc'[p] = "doneWait" /\ rc'[p] = "ok" BY <1>0, <2>1 DEF Goto, TypeOK
    <3>2. busy'[e] = c BY <1>0, <1>b, <2>1, Given DEF TypeOK
    <3>3. seen'[p] = asked BY <2>1 DEF Issue, TypeOK, asked
    <3>4. c.by = p /\ c.cell = op[p].cell /\ c.kind = op[p].kind OBVIOUS
    <3>5. Asked(p)' BY <1>0, <3>1 DEF Asked
    <3>6. Filled(p)' BY <3>1 DEF Filled
    <3>7. Watched(p)' BY <1>0, <3>3 DEF Watched, asked, Waits
    <3> HIDE DEF c
    <3>8. Flying(p)' BY <1>0, <1>c, <3>1, <3>2, <3>4 DEF Flying, My
    <3>9. Settled(p)' BY <3>1 DEF Settled
    <3> QED BY <3>5, <3>6, <3>7, <3>8, <3>9 DEF Knows
  <2>2. CASE Fail(p)
    BY <1>0, <2>2, Failed
  <2> QED BY <2>1, <2>2 DEF Command
<1>4. \A q \in Proc \ {p} : Same(q)
  BY <1>0, <1>a, <1>t DEF Same, TypeOK
<1> QED BY <1>0, <1>1, <1>2, <1>3, <1>4, Inner

LEMMA WaitDoneStep == ASSUME IInv, NEW p \in Proc, WaitDone(p) PROVE IInv'
<1> USE DEF IInv
<1>0. /\ op[p] \in Op /\ rc[p] = "ok" /\ pc[p] = "doneWait" /\ pc[p] \in Inside
      /\ op' = op /\ UNCHANGED <<Regs, lock, val, place, seen, fate>>
  BY DEF WaitDone, Knows, Asked, Inside, Clear, Mine
<1>s. \E s \in Inside, c \in Code : pc' = [pc EXCEPT ![p] = s] /\ (rc' = [rc EXCEPT ![p] = c] \/ rc' = rc)
  BY Stages DEF WaitDone, Goto, Fail, FailWith
<1>t. /\ pc' \in [Proc -> Stage] /\ rc' \in [Proc -> Code]
      /\ \A q \in Proc : pc'[q] \in Inside <=> lock' = q
      /\ \A q \in Proc \ {p} : pc'[q] = pc[q] /\ rc'[q] = rc[q]
  BY <1>0, <1>s, StaysInside
<1>1. TypeOK' BY <1>0, <1>t DEF TypeOK, Regs
<1>2. Sane' BY <1>0 DEF Sane, Regs
<1>3. Knows(p)'
  <2>1. CASE busy[My(p)] = None /\ Goto(p, AfterDone(op[p])) /\ UNCHANGED rc
    <3>1. pc'[p] = AfterDone(op[p]) /\ rc'[p] = "ok" BY <1>0, <2>1 DEF Goto, TypeOK
    <3>2. Answered(p) /\ \A c \in Scope(op[p]) : <<c, mem[c]>> \in seen[p]
      BY <1>0, <2>1 DEF Knows, Flying, Watched, Waits
    <3>3. Answered(p)' BY <1>0, <3>2 DEF Answered, My, Regs
    <3>4. op[p].kind \in {"read", "write"} \cup L2 BY <1>0, OpFacts
    <3>5. Asked(p)' BY <1>0, <3>1 DEF Asked
    <3>6. Filled(p)' BY <3>1 DEF Filled, AfterDone
    <3>7. Watched(p)' BY <1>0, <3>2 DEF Watched, Regs
    <3>8. Flying(p)' BY <1>0, <2>1, <3>1, <3>3, <3>4 DEF Flying, AfterDone, My, Regs, Writing, L2
    <3>9. Settled(p)' BY <1>0, <3>1, <3>2, <3>4 DEF Settled, Answered, AfterDone, Writing, L2
    <3> QED BY <3>5, <3>6, <3>7, <3>8, <3>9 DEF Knows
  <2>2. CASE Fail(p)
    BY <1>0, <2>2, Failed
  <2> QED BY <2>1, <2>2 DEF WaitDone
<1>4. \A q \in Proc \ {p} : Same(q)
  BY <1>0, <1>t DEF Same
<1> QED BY <1>0, <1>1, <1>2, <1>3, <1>4, Inner

LEMMA StatusStep == ASSUME IInv, NEW p \in Proc, Status(p) PROVE IInv'
<1> USE DEF IInv
<1>0. /\ op[p] \in Op /\ rc[p] = "ok" /\ pc[p] = "status" /\ pc[p] \in Inside
      /\ op' = op /\ UNCHANGED <<Regs, lock, val, seen, fate>>
  BY DEF Status, Knows, Asked, Inside, Clear
<1>k. /\ busy[My(p)] = None /\ Answered(p) /\ op[p].kind \in L2
      /\ \A c \in Scope(op[p]) : <<c, mem[c]>> \in seen[p]
  BY <1>0 DEF Knows, Flying, Watched, Waits
<1>p. /\ place' \in [Proc -> Cell \cup {None}]
      /\ \A q \in Proc \ {p} : place'[q] = place[q]
  BY DEF Status, TypeOK
<1>s. \E s \in Inside, c \in Code : pc' = [pc EXCEPT ![p] = s] /\ (rc' = [rc EXCEPT ![p] = c] \/ rc' = rc)
  BY Stages DEF Status, Goto, Fail, FailWith
<1>t. /\ pc' \in [Proc -> Stage] /\ rc' \in [Proc -> Code]
      /\ \A q \in Proc : pc'[q] \in Inside <=> lock' = q
      /\ \A q \in Proc \ {p} : pc'[q] = pc[q] /\ rc'[q] = rc[q]
  BY <1>0, <1>s, StaysInside
<1>1. TypeOK' BY <1>0, <1>p, <1>t DEF TypeOK, Regs
<1>2. Sane' BY <1>0 DEF Sane, Regs
<1>a. Answered(p)' BY <1>0, <1>k DEF Answered, My, Regs
<1>w. Watched(p)' BY <1>0, <1>k DEF Watched, Regs
<1>3. Knows(p)'
  <2>1. CASE /\ hit # None /\ Goto(p, AfterHit(op[p])) /\ UNCHANGED rc
             /\ place' = [place EXCEPT ![p] = IF op[p].kind = "scan" THEN hit ELSE @]
    <3>1. pc'[p] = AfterHit(op[p]) /\ rc'[p] = "ok" BY <1>0, <2>1 DEF Goto, TypeOK
    <3>2. op[p].kind = "scan" => place'[p] = hit BY <2>1 DEF TypeOK
    <3>3. Asked(p)' BY <1>0, <3>1 DEF Asked
    <3>4. Filled(p)' BY <3>1 DEF Filled, AfterHit
    <3>5. Flying(p)' BY <1>0, <1>a, <1>k, <2>1, <3>1, <3>2 DEF Flying, AfterHit, My, Regs, Writing, L2
    <3>6. Settled(p)' BY <1>0, <1>k, <2>1, <3>1, <3>2 DEF Settled, Answered, AfterHit, Writing, L2
    <3> QED BY <1>w, <3>3, <3>4, <3>5, <3>6 DEF Knows
  <2>2. CASE hit = None /\ FailWith(p, "absent") /\ UNCHANGED place
    <3>1. pc'[p] = "unlock" /\ rc'[p] = "absent" BY <2>2 DEF FailWith, Goto, TypeOK
    <3>2. Asked(p)' BY <1>0, <3>1 DEF Asked, Clear
    <3>3. Filled(p)' /\ Flying(p)' BY <3>1 DEF Filled, Flying
    <3>4. Settled(p)' BY <1>0, <1>k, <2>2, <3>1 DEF Settled, Answered
    <3> QED BY <1>w, <3>2, <3>3, <3>4 DEF Knows
  <2>3. CASE Fail(p)
    BY <1>0, <2>3, Failed
  <2> QED BY <2>1, <2>2, <2>3 DEF Status
<1>4. \A q \in Proc \ {p} : Same(q)
  BY <1>0, <1>p, <1>t DEF Same
<1> QED BY <1>0, <1>1, <1>2, <1>3, <1>4, Inner

LEMMA ResultStep == ASSUME IInv, NEW p \in Proc, Result(p) PROVE IInv'
<1> USE DEF IInv
<1>0. /\ op[p] \in Op /\ rc[p] = "ok" /\ pc[p] = "result" /\ pc[p] \in Inside
      /\ op' = op /\ UNCHANGED <<Regs, lock, place, seen, fate>>
  BY DEF Result, Knows, Asked, Inside, Clear
<1>k. /\ Answered(p) /\ op[p].kind \notin Writing
      /\ op[p].kind \in L2 => hit # None
      /\ op[p].kind = "scan" => place[p] = hit
  BY <1>0 DEF Knows, Flying
<1>b. My(p) \in Engine /\ op[p].kind \in {"read", "write"} \cup L2
  BY <1>0, OpFacts DEF My
<1>r. rdata[My(p)] \in seen[p] /\ (op[p].kind = "scan" => place[p] = rdata[My(p)][1])
  BY <1>k, <1>b DEF Answered, Writing, L2
<1>v. val' \in [Proc -> Word] /\ \A q \in Proc \ {p} : val'[q] = val[q]
  BY <1>b DEF Result, TypeOK
<1>s. \E s \in Inside, c \in Code : pc' = [pc EXCEPT ![p] = s] /\ (rc' = [rc EXCEPT ![p] = c] \/ rc' = rc)
  BY Stages DEF Result, Goto, Fail, FailWith
<1>t. /\ pc' \in [Proc -> Stage] /\ rc' \in [Proc -> Code]
      /\ \A q \in Proc : pc'[q] \in Inside <=> lock' = q
      /\ \A q \in Proc \ {p} : pc'[q] = pc[q] /\ rc'[q] = rc[q]
  BY <1>0, <1>s, StaysInside
<1>1. TypeOK' BY <1>0, <1>v, <1>t DEF TypeOK, Regs
<1>2. Sane' BY <1>0 DEF Sane, Regs
<1>3. Knows(p)'
  <2>1. CASE val' = [val EXCEPT ![p] = rdata[My(p)]] /\ Goto(p, "unlock") /\ UNCHANGED rc
    <3>1. pc'[p] = "unlock" /\ rc'[p] = "ok" BY <1>0, <2>1 DEF Goto, TypeOK
    <3>2. val'[p] = rdata[My(p)] BY <2>1 DEF TypeOK
    <3>3. Asked(p)' BY <1>0, <3>1 DEF Asked
    <3>4. Filled(p)' /\ Watched(p)' /\ Flying(p)' BY <3>1 DEF Filled, Watched, Flying, Waits
    <3>5. Settled(p)' BY <1>0, <1>k, <1>r, <3>1, <3>2 DEF Settled
    <3> QED BY <3>3, <3>4, <3>5 DEF Knows
  <2>2. CASE Fail(p)
    BY <1>0, <2>2, Failed
  <2> QED BY <2>1, <2>2 DEF Result
<1>4. \A q \in Proc \ {p} : Same(q)
  BY <1>0, <1>v, <1>t DEF Same
<1> QED BY <1>0, <1>1, <1>2, <1>3, <1>4, Inner

LEMMA UnlockStep == ASSUME IInv, NEW p \in Proc, Unlock(p) PROVE IInv'
<1> USE DEF IInv
<1>0. pc[p] = "unlock" /\ pc[p] \in Inside /\ lock' = None /\ UNCHANGED Regs
  BY DEF Unlock, Inside
<1>1. TypeOK'
  <2>1. /\ op' \in [Proc -> Op \cup {None}] /\ val' \in [Proc -> Word]
        /\ place' \in [Proc -> Cell \cup {None}] /\ rc' \in [Proc -> Code]
        /\ seen' \in [Proc -> SUBSET Word] /\ fate' \in [Proc -> Fate]
    BY DEF Unlock, Forget, TypeOK, Word, Unknown, Content, Code, Fate
  <2>2. pc' \in [Proc -> Stage] /\ \A q \in Proc : pc'[q] \notin Inside
    BY <1>0, OneInside DEF Unlock, Goto, TypeOK, Stage, Inside
  <2> QED BY <1>0, <2>1, <2>2, NoneAssumption DEF TypeOK, Regs
<1>2. Sane' BY <1>0 DEF Sane, Regs
<1>3. ASSUME NEW q \in Proc PROVE Knows(q)'
  <2>1. CASE q = p
    <3>1. pc'[p] = "idle" /\ rc'[p] = "ok" BY DEF Unlock, Forget, Goto, TypeOK
    <3> QED BY <2>1, <3>1 DEF Knows, Asked, Filled, Watched, Flying, Settled, Inside, Waits
  <2>2. CASE q # p
    BY <2>2, Undisturbed DEF Unlock, Forget, Goto, Same, TypeOK
  <2> QED BY <2>1, <2>2
<1> QED BY <1>1, <1>2, <1>3

----------------------------------------------------------------------------
(* Steps of the switch                                                     *)

(* What a cell holds while its caller waits is remembered, and nothing is  *)
(* forgotten.                                                              *)
LEMMA Remembered ==
    ASSUME TypeOK, NEW c \in Cell, NEW d \in Content, mem' = [mem EXCEPT ![c] = d], Remember(c, d),
           UNCHANGED <<pc, op>>
    PROVE  /\ mem' \in [Cell -> Content] /\ seen' \in [Proc -> SUBSET Word]
           /\ \A p \in Proc :
                 /\ seen[p] \subseteq seen'[p]
                 /\ Waits(p) /\ op[p] \in Op /\ Watched(p) => Watched(p)'
<1>1. mem' \in [Cell -> Content] BY DEF TypeOK
<1>2. \A p \in Proc : seen'[p] =
          IF Waits(p) /\ c \in Scope(op[p]) THEN seen[p] \cup {<<c, d>>} ELSE seen[p]
  BY DEF Remember
<1>3. seen' \in [Proc -> SUBSET Word]
  <2>1. <<c, d>> \in Word BY DEF Word
  <2> QED BY <2>1 DEF Remember, TypeOK
<1>4. ASSUME NEW p \in Proc
      PROVE  /\ seen[p] \subseteq seen'[p]
             /\ Waits(p) /\ op[p] \in Op /\ Watched(p) => Watched(p)'
  <2>1. seen[p] \subseteq seen'[p] BY <1>2
  <2>2. ASSUME Waits(p), op[p] \in Op, Watched(p), NEW x \in Scope(op[p])
        PROVE  <<x, mem'[x]>> \in seen'[p]
    <3>1. x \in Cell BY <2>2, OpFacts
    <3>2. CASE x = c BY <1>2, <2>2, <3>2 DEF TypeOK
    <3>3. CASE x # c BY <2>1, <2>2, <3>1, <3>3 DEF TypeOK, Watched
    <3> QED BY <3>2, <3>3
  <2> QED BY <2>1, <2>2 DEF Watched
<1> QED BY <1>1, <1>3, <1>4

LEMMA ChangeStep == ASSUME IInv, NEW c \in PhyReg \cup Mac, Change(c) PROVE IInv'
<1> USE DEF IInv
<1> PICK d \in Contents(c) : mem' = [mem EXCEPT ![c] = d] /\ Remember(c, d)
  BY DEF Change
<1>0. /\ c \in Cell /\ d \in Content
      /\ UNCHANGED <<addr, wdata, rdata, hit, busy, lock, pc, op, val, place, rc, fate>>
  BY DEF Change, Cell, Contents, Content
<1>1. TypeOK' BY <1>0, Remembered DEF TypeOK
<1>2. Sane' BY <1>0 DEF Sane
<1>3. ASSUME NEW p \in Proc PROVE Knows(p)'
  <2>1. seen[p] \subseteq seen'[p] BY <1>0, Remembered
  <2>2. Watched(p)'
    <3>1. CASE Waits(p) BY <1>0, <3>1, Remembered DEF Knows, Asked, Waits, Inside
    <3>2. CASE ~Waits(p) BY <1>0, <3>2 DEF Watched, Waits
    <3> QED BY <3>1, <3>2
  <2>3. Asked(p)' BY <1>0 DEF Knows, Asked
  <2>4. Filled(p)' BY <1>0 DEF Knows, Filled, My
  <2>5. Answered(p) => Answered(p)' BY <1>0, <2>1 DEF Answered, My
  <2>6. Flying(p)' BY <1>0, <2>5 DEF Knows, Flying, My
  <2>7. Settled(p)' BY <1>0, <2>1 DEF Knows, Settled
  <2> QED BY <2>2, <2>3, <2>4, <2>6, <2>7 DEF Knows
<1> QED BY <1>1, <1>2, <1>3

(* What the end of a command changes.                                      *)
LEMMA Finished ==
    ASSUME IInv, NEW e \in Engine, Finish(e)
    PROVE  LET b == busy[e] IN
           /\ b # None /\ b \in Commands /\ b.cell \in Cell
           /\ mem' \in [Cell -> Content] /\ seen' \in [Proc -> SUBSET Word]
           /\ rdata' \in [Engine -> Word] /\ hit' \in Cell \cup {None}
           /\ \A f \in Engine \ {e} : rdata'[f] = rdata[f]
           /\ b.kind \notin L2 => hit' = hit
           /\ \A p \in Proc : seen[p] \subseteq seen'[p]
           /\ \A p \in Proc : Waits(p) /\ op[p] \in Op /\ Watched(p) => Watched(p)'
<1> USE DEF IInv
<1> DEFINE b == busy[e]
<1>1. b # None /\ b \in Commands /\ b.cell \in Cell /\ UNCHANGED <<pc, op>>
  BY DEF Finish, TypeOK, Sane
<1>c. b.data \in Content /\ b.kind \in {"read", "write"} \cup L2
  BY <1>1 DEF Commands
<1> DEFINE P == /\ mem' \in [Cell -> Content] /\ seen' \in [Proc -> SUBSET Word]
                /\ \A p \in Proc : seen[p] \subseteq seen'[p]
                /\ \A p \in Proc : Waits(p) /\ op[p] \in Op /\ Watched(p) => Watched(p)'
           Q == /\ rdata' \in [Engine -> Word] /\ hit' \in Cell \cup {None}
                /\ \A f \in Engine \ {e} : rdata'[f] = rdata[f]
                /\ b.kind \notin L2 => hit' = hit
<1>2. ASSUME UNCHANGED <<mem, seen>> PROVE P
  BY <1>1, <1>2 DEF TypeOK, Watched, Waits
<1>3. ASSUME UNCHANGED <<rdata, hit>> PROVE Q
  BY <1>3 DEF TypeOK
<1>4. CASE Reads(e, b)
  <2>1. <<b.cell, mem[b.cell]>> \in Word BY <1>1 DEF Word, TypeOK
  <2>2. Q BY <1>4, <2>1 DEF Reads, TypeOK
  <2> QED BY <1>1, <1>2, <1>4, <2>2 DEF Reads
<1>5. CASE Finds(e, b)
  <2>1. PICK c \in Cell : hit' = c /\ rdata' = [rdata EXCEPT ![e] = <<c, mem[c]>>]
    BY <1>1, <1>5 DEF Finds, Cell
  <2>2. <<c, mem[c]>> \in Word BY DEF Word, TypeOK
  <2>3. b.kind \in L2 BY <1>5 DEF Finds, L2
  <2>4. Q BY <2>1, <2>2, <2>3 DEF TypeOK
  <2> QED BY <1>1, <1>2, <1>5, <2>4 DEF Finds
<1>6. CASE Misses(e, b)
  <2>1. b.kind \in L2 BY <1>6 DEF Misses, L2
  <2>2. Q BY <1>6, <2>1 DEF Misses, TypeOK
  <2> QED BY <1>1, <1>2, <1>6, <2>2 DEF Misses
<1>7. CASE Stores(e, b)
  <2>1. P BY <1>1, <1>c, <1>7, Remembered DEF Stores
  <2>2. Q BY <1>1, <1>7 DEF Stores, TypeOK, L2
  <2> QED BY <1>1, <2>1, <2>2
<1>8. CASE Declines(e, b)
  <2>1. b.kind \in L2 BY <1>8 DEF Declines, L2
  <2>2. Q BY <1>8, <2>1 DEF Declines, TypeOK
  <2> QED BY <1>1, <1>2, <1>8, <2>2 DEF Declines
<1> QED BY <1>4, <1>5, <1>6, <1>7, <1>8 DEF Finish

(* ... and for its caller it is the answer.                                *)
LEMMA AnswerComes ==
    ASSUME IInv, NEW e \in Engine, Finish(e), NEW p \in Proc, pc[p] = "doneWait", My(p) = e
    PROVE  Answered(p)'
<1> USE DEF IInv
<1> DEFINE b == busy[e]  k == op[p].kind
<1>1. /\ b # None /\ UNCHANGED <<pc, op>> /\ Waits(p) /\ op[p] \in Op
      /\ b.by = p /\ b.cell = op[p].cell /\ b.kind = k
      /\ \A c \in Scope(op[p]) : <<c, mem[c]>> \in seen[p]
  BY DEF Finish, Knows, Flying, Watched, Waits, Asked, Inside
<1>2. /\ k \in {"read", "write"} \cup L2 /\ op[p].cell \in Cell
      /\ k \in {"read", "lookup"} => op[p].cell \in Scope(op[p])
      /\ k = "scan" => Mac \subseteq Scope(op[p])
  BY <1>1, OpFacts DEF Scope
<1>3. My(p)' = e BY <1>1 DEF My
<1>4. \A f : Comes(b.by, e, f) => (f \in Fate => fate'[p] = f)
  BY <1>1 DEF Comes, TypeOK
<1>5. CASE Reads(e, b)
  <2>1. rdata'[e] = <<op[p].cell, mem[op[p].cell]>> /\ seen' = seen /\ k = "read"
    BY <1>1, <1>5 DEF Reads, TypeOK
  <2> QED BY <1>1, <1>2, <1>3, <2>1 DEF Answered
<1>6. CASE Finds(e, b)
  <2>a. k \in {"lookup", "scan"} BY <1>1, <1>6 DEF Finds
  <2>b. (IF k = "scan" THEN Mac ELSE {op[p].cell}) \subseteq Scope(op[p]) BY <1>2, <2>a
  <2>c. PICK c \in IF k = "scan" THEN Mac ELSE {op[p].cell} :
            hit' = c /\ rdata' = [rdata EXCEPT ![e] = <<c, mem[c]>>]
    BY <1>1, <1>6 DEF Finds
  <2>1. c \in Scope(op[p]) /\ hit' = c /\ rdata' = [rdata EXCEPT ![e] = <<c, mem[c]>>]
    BY <2>b, <2>c
  <2>2. rdata'[e] = <<c, mem[c]>> BY <2>1 DEF TypeOK
  <2>3. c # None
    <3>1. c \in Cell BY <1>1, <2>1, OpFacts
    <3> QED BY <3>1, NoneAssumption
  <2>4. k \in {"lookup", "scan"} /\ seen' = seen BY <1>1, <1>6 DEF Finds
  <2> QED BY <1>1, <1>3, <2>1, <2>2, <2>3, <2>4 DEF Answered
<1>7. CASE Misses(e, b)
  <2>1. k \in {"lookup", "scan"} /\ hit' = None /\ seen' = seen
        /\ (k = "lookup" => mem[op[p].cell] = None)
    BY <1>1, <1>7 DEF Misses
  <2>2. k = "lookup" => <<op[p].cell, None>> \in seen[p]
    BY <1>1, <1>2, <2>1
  <2> QED BY <1>1, <1>3, <2>1, <2>2 DEF Answered
<1>8. CASE Stores(e, b)
  <2>1. k \in Writing /\ fate'[p] = "done" BY <1>1, <1>4, <1>8 DEF Stores, Fate
  <2>2. k = "store" => hit' = op[p].cell BY <1>1, <1>8 DEF Stores
  <2>3. op[p].cell # None BY <1>2, NoneAssumption
  <2> QED BY <1>1, <1>3, <2>1, <2>2, <2>3 DEF Answered, Writing
<1>9. CASE Declines(e, b)
  <2>1. k = "store" /\ hit' = None /\ fate'[p] = "declined"
    BY <1>1, <1>4, <1>9 DEF Declines, Fate
  <2> QED BY <1>1, <1>3, <2>1 DEF Answered
<1> QED BY <1>5, <1>6, <1>7, <1>8, <1>9 DEF Finish

LEMMA FinishStep == ASSUME IInv, NEW e \in Engine, Finish(e) PROVE IInv'
<1> USE DEF IInv
<1> DEFINE b == busy[e]
<1>0. busy' = [busy EXCEPT ![e] = None] /\ UNCHANGED <<addr, wdata, lock, pc, op, val, place, rc>>
  BY DEF Finish
<1>m. /\ b # None /\ b \in Commands /\ b.cell \in Cell
      /\ mem' \in [Cell -> Content] /\ seen' \in [Proc -> SUBSET Word]
      /\ rdata' \in [Engine -> Word] /\ hit' \in Cell \cup {None}
      /\ \A f \in Engine \ {e} : rdata'[f] = rdata[f]
      /\ b.kind \notin L2 => hit' = hit
      /\ \A p \in Proc : seen[p] \subseteq seen'[p]
      /\ \A p \in Proc : Waits(p) /\ op[p] \in Op /\ Watched(p) => Watched(p)'
  BY Finished
<1>f. /\ fate' \in [Proc -> Fate]
      /\ \A p \in Proc : ~(Waits(p) /\ My(p) = e) => fate'[p] = fate[p]
  BY DEF Finish, Reads, Finds, Misses, Stores, Declines, Comes, TypeOK, Fate
<1>h. e = "phy" => hit' = hit
  <2>1. e = "phy" => b.cell \in PhyReg BY <1>m DEF Sane, EngineOf
  <2>2. e = "phy" => b.kind \notin L2 BY <1>m, <2>1, CellAssumption DEF Sane
  <2> QED BY <1>m, <2>2
<1>1. TypeOK'
  <2>1. busy' \in [Engine -> Commands \cup {None}] BY <1>0 DEF TypeOK
  <2> QED BY <1>0, <1>m, <1>f, <2>1 DEF TypeOK
<1>2. Sane' BY <1>0 DEF Sane, TypeOK
<1>3. ASSUME NEW p \in Proc PROVE Knows(p)'
  <2>1. Asked(p)' BY <1>0 DEF Knows, Asked
  <2>2. Filled(p)'
    <3>1. My(p) \in Engine /\ My(p)' = My(p) BY <1>0 DEF My, EngineOf, Engine
    <3>2. busy[My(p)] = None => busy'[My(p)] = None BY <1>0, <3>1 DEF TypeOK
    <3> QED BY <1>0, <3>1, <3>2 DEF Knows, Filled
  <2>3. Watched(p)'
    <3>1. CASE Waits(p) BY <1>m, <3>1 DEF Knows, Asked, Waits, Inside
    <3>2. CASE ~Waits(p) BY <1>0, <3>2 DEF Watched, Waits
    <3> QED BY <3>1, <3>2
  <2>4. Settled(p)'
    <3>1. pc[p] = "unlock" => fate'[p] = fate[p] BY <1>f DEF Waits
    <3> QED BY <1>0, <1>m, <3>1 DEF Knows, Settled
  <2>5. Flying(p)'
    <3>1. CASE ~Waits(p)
      BY <1>0, <3>1 DEF Flying, Waits
    <3>2. CASE Waits(p) /\ My(p) = e
      <4>1. pc[p] = "doneWait" BY <1>m, <3>2 DEF Knows, Flying, Waits
      <4>2. Answered(p)' BY <3>2, <4>1, AnswerComes
      <4> QED BY <1>0, <3>2, <4>1, <4>2 DEF Flying, My, TypeOK
    <3>3. CASE Waits(p) /\ My(p) # e
      <4>1. op[p] \in Op /\ My(p) \in Engine
        BY <3>3, OpFacts DEF Knows, Asked, Waits, Inside, My
      <4>2. op[p].kind \in L2 => hit' = hit
        BY <1>h, <3>3, <4>1, OpFacts DEF EngineOf, Engine, My
      <4>3. busy'[My(p)] = busy[My(p)] /\ rdata'[My(p)] = rdata[My(p)] /\ fate'[p] = fate[p]
        BY <1>0, <1>m, <1>f, <3>3, <4>1 DEF TypeOK
      <4>4. Answered(p) => Answered(p)'
        BY <1>0, <1>m, <4>2, <4>3 DEF Answered, My, L2
      <4>5. op[p].kind = "scan" => op[p].kind \in L2 BY DEF L2
      <4> QED BY <1>0, <4>2, <4>3, <4>4, <4>5 DEF Knows, Flying, My
    <3> QED BY <3>1, <3>2, <3>3
  <2> QED BY <2>1, <2>2, <2>3, <2>4, <2>5 DEF Knows
<1> QED BY <1>1, <1>2, <1>3

LEMMA Inductive == Spec => []IInv
<1>1. IInv /\ [Next]_vars => IInv'
  <2> SUFFICES ASSUME IInv, [Next]_vars PROVE IInv' OBVIOUS
  <2>1. ASSUME NEW p \in Proc, Access(p) PROVE IInv'
    BY <2>1, LockStep, WaitIdleStep, AddressStep, PutStep, CommandStep, WaitDoneStep, StatusStep,
       ResultStep, UnlockStep DEF Access
  <2>2. ASSUME NEW e \in Engine, Finish(e) PROVE IInv'
    BY <2>2, FinishStep
  <2>3. ASSUME NEW c \in PhyReg \cup Mac, Change(c) PROVE IInv'
    BY <2>3, ChangeStep
  <2>4. CASE UNCHANGED vars
    <3>1. \A p \in Proc : Same(p) BY <2>4 DEF vars, Same
    <3>2. UNCHANGED Regs BY <2>4 DEF vars, Regs
    <3>3. \A p \in Proc : Knows(p)' BY <3>1, <3>2, Undisturbed DEF IInv
    <3> QED BY <2>4, <3>3 DEF IInv, TypeOK, Sane, vars
  <2> QED BY <2>1, <2>2, <2>3, <2>4 DEF Next
<1> QED BY InitIInv, <1>1, PTL DEF Spec

----------------------------------------------------------------------------
(* Theorems *)

(* The types, and that exactly the holder of map_lock is between lock and  *)
(* unlock, on every path through an access.                                *)
THEOREM TypeCorrect == Spec => []TypeOK
<1>1. IInv => TypeOK BY DEF IInv
<1> QED BY Inductive, <1>1, PTL

(* A read, lookup or scan returns what its cell held since its command, a  *)
(* scan with the place of that entry; absent is said of an address that    *)
(* was absent.                                                             *)
THEOREM ReadsOwn == Spec => []ReadIsOwn
<1>1. IInv => ReadIsOwn
  <2> SUFFICES ASSUME IInv, NEW p \in Proc, pc[p] = "unlock"
               PROVE  /\ Returned(p) = "ok" /\ op[p].kind \notin Writing => val[p] \in seen[p]
                      /\ Returned(p) = "ok" /\ op[p].kind = "scan" => place[p] = val[p][1]
                      /\ Returned(p) = "absent" /\ op[p].kind = "lookup" =>
                             <<op[p].cell, None>> \in seen[p]
    BY DEF ReadIsOwn
  <2>1. op[p].kind # "write" => Returned(p) = rc[p] BY DEF Returned
  <2> QED BY <2>1 DEF IInv, Knows, Settled, Writing
<1> QED BY Inductive, <1>1, PTL

(* A table write that returns 0 has been carried out, and one that returns *)
(* -ENOENT was declined by the engine.                                     *)
THEOREM TableWritten == Spec => []EntryWritten
<1>1. IInv => EntryWritten
  <2> SUFFICES ASSUME IInv, NEW p \in Proc, pc[p] = "unlock", op[p].kind \in Writing, op[p].cell \notin PhyReg
               PROVE  /\ Returned(p) = "ok" => fate[p] = "done"
                      /\ Returned(p) = "absent" => fate[p] = "declined"
    BY DEF EntryWritten
  <2>1. Returned(p) = rc[p] BY DEF Returned
  <2> QED BY <2>1 DEF IInv, Knows, Settled, Writing, L2
<1> QED BY Inductive, <1>1, PTL

(* No engine ever gets the address or key of one operation with the data   *)
(* of another: only Command gives it one, from registers filled for it.    *)
THEOREM CommandsAsked == Spec => OnlyWhatWasAsked
<1>1. IInv /\ [Next]_vars =>
        [\A e \in Engine :
            busy'[e] # None /\ busy'[e] # busy[e] =>
                LET o == op[busy'[e].by] IN
                busy'[e].kind = o.kind /\ busy'[e].cell = o.cell /\ busy'[e].data = o.data]_vars
  <2> SUFFICES ASSUME IInv, Next, NEW e \in Engine, busy'[e] # None, busy'[e] # busy[e]
               PROVE  LET o == op[busy'[e].by] IN
                      busy'[e].kind = o.kind /\ busy'[e].cell = o.cell /\ busy'[e].data = o.data
    OBVIOUS
  <2>1. \E p \in Proc : Command(p)
    BY DEF Next, Access, Lock, WaitIdle, Address, Put, WaitDone, Status, Result, Unlock,
           Finish, Change, Regs, IInv, TypeOK
  <2> PICK p \in Proc : Command(p) BY <2>1
  <2>2. pc[p] = "command" /\ (busy' # busy => Issue(p)) BY DEF Command
  <2>3. busy' = [busy EXCEPT ![My(p)] =
            [kind |-> op[p].kind, cell |-> op[p].cell, data |-> op[p].data, by |-> p]]
    BY <2>2, Given
  <2>4. busy'[e] = [kind |-> op[p].kind, cell |-> op[p].cell, data |-> op[p].data, by |-> p]
    BY <2>3 DEF IInv, TypeOK
  <2> QED BY <2>4
<1> QED BY Inductive, <1>1, PTL DEF Spec, OnlyWhatWasAsked

(* An engine finishes a command before it is given another, also when the  *)
(* caller of the first has given up waiting (rtl8365mb_phy_ocp_poll_busy   *)
(* and the poll of the tables time out) and map_lock has passed on: so     *)
(* writes take effect in the order in which their callers held map_lock.   *)
NeverOverrun == [][\A e \in Engine : busy[e] # None => busy'[e] \in {busy[e], None}]_vars

THEOREM CommandsInOrder == Spec => NeverOverrun
<1>1. IInv /\ [Next]_vars => [\A e \in Engine : busy[e] # None => busy'[e] \in {busy[e], None}]_vars
  <2> SUFFICES ASSUME IInv, Next, NEW e \in Engine, busy[e] # None
               PROVE  busy'[e] \in {busy[e], None}
    OBVIOUS
  <2>1. ASSUME NEW p \in Proc, Command(p) PROVE busy'[e] = busy[e]
    <3>1. pc[p] = "command" /\ busy[My(p)] = None
      BY <2>1 DEF Command, IInv, Knows, Filled
    <3>2. e # My(p)
      BY <3>1
    <3> QED BY <2>1, <3>2 DEF Command, Issue, IInv, TypeOK
  <2>2. ASSUME NEW f \in Engine, Finish(f) PROVE busy'[e] \in {busy[e], None}
    BY <2>2 DEF Finish, IInv, TypeOK
  <2>3. ASSUME NEW p \in Proc, Access(p), ~Command(p) PROVE busy'[e] = busy[e]
    BY <2>3 DEF Access, Lock, WaitIdle, Address, Put, WaitDone, Status, Result, Unlock, Regs
  <2>4. ASSUME NEW c \in PhyReg \cup Mac, Change(c) PROVE busy'[e] = busy[e]
    BY <2>4 DEF Change
  <2> QED BY <2>1, <2>2, <2>3, <2>4 DEF Next
<1> QED BY Inductive, <1>1, PTL DEF Spec, NeverOverrun

=============================================================================
