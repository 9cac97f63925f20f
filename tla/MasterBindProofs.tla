-------------------------- MODULE MasterBindProofs --------------------------
(***************************************************************************)
(* For any number of invocations with any wait arguments, the lock keeps   *)
(* the check and the write of the bind file to one invocation, is left     *)
(* behind only by a killed one, and exit 0 means that the switch is bound. *)
(***************************************************************************)
EXTENDS MasterBind, TLAPS

(* Only the C board gets past the identity checks, and an invocation that  *)
(* exits with 0, or is about to, has seen the driver bound.                *)
OkInv ==
    \A p \in Proc :
        /\ pc[p] \notin {"idle", "stopped"} => native
        /\ pc[p] = "ok" \/ (pc[p] = "leave" /\ code[p] = "ok") => driver = "realtek"

IInv == TypeOK /\ HolderOwnsLock /\ StaleOnlyAfterKill /\ OkInv

USE DEF Master, Mdio, Driver, Trapped, Holding, Outcome, Finished, Stage

----------------------------------------------------------------------------
(* Initial states *)

LEMMA InitIInv == Init => IInv
  BY ProcAssumption, LimitAssumption
     DEF Init, IInv, TypeOK, HolderOwnsLock, StaleOnlyAfterKill, OkInv

----------------------------------------------------------------------------
(* Types: one step per action *)

LEMMA TypeStep == TypeOK /\ [Next]_vars => TypeOK'
  <1> SUFFICES ASSUME TypeOK, [Next]_vars PROVE TypeOK'
    OBVIOUS
  <1> USE ProcAssumption, LimitAssumption DEF TypeOK, Goto, Exit, Devices, Budget
  <1>1. ASSUME NEW p \in Proc, Start(p) PROVE TypeOK'
    BY <1>1 DEF Start
  <1>2. ASSUME NEW p \in Proc, PollMaster(p) \/ LockDir(p) PROVE TypeOK'
    BY <1>2 DEF PollMaster, LockDir
  <1>3. ASSUME NEW p \in Proc, PollMdio(p) PROVE TypeOK'
    BY <1>3 DEF PollMdio
  <1>4. ASSUME NEW p \in Proc, Contend(p) PROVE TypeOK'
    BY <1>4 DEF Contend
  <1>5. ASSUME NEW p \in Proc, Trap(p) PROVE TypeOK'
    BY <1>5 DEF Trap
  <1>6. ASSUME NEW p \in Proc, AgainMaster(p) \/ AgainMdio(p) PROVE TypeOK'
    BY <1>6 DEF AgainMaster, AgainMdio
  <1>7. ASSUME NEW p \in Proc, Look(p) \/ Verify(p) PROVE TypeOK'
    BY <1>7 DEF Look, Verify
  <1>8. ASSUME NEW p \in Proc, Write(p) PROVE TypeOK'
    BY <1>8 DEF Write
  <1>9. ASSUME NEW p \in Proc, Leave(p) PROVE TypeOK'
    BY <1>9 DEF Leave
  <1>10. ASSUME NEW p \in Proc, Signal(p) \/ Kill(p) PROVE TypeOK'
    BY <1>10 DEF Signal, Kill
  <1>11. CASE Change \/ KernelBinds \/ BootMakes
    BY <1>11 DEF Change, KernelBinds, BootMakes
  <1>12. CASE UNCHANGED vars
    BY <1>12 DEF vars
  <1> QED
    BY <1>1, <1>2, <1>3, <1>4, <1>5, <1>6, <1>7, <1>8, <1>9, <1>10, <1>11, <1>12
       DEF Next, Step

----------------------------------------------------------------------------
(* The lock *)

Locking == HolderOwnsLock /\ StaleOnlyAfterKill

LEMMA LockStep == TypeOK /\ Locking /\ [Next]_vars => Locking'
  <1> SUFFICES ASSUME TypeOK, Locking, [Next]_vars PROVE Locking'
    OBVIOUS
  <1> USE ProcAssumption
      DEF TypeOK, Locking, HolderOwnsLock, StaleOnlyAfterKill, Goto, Exit, Devices, Budget
  <1>1. ASSUME NEW p \in Proc, Start(p) PROVE Locking'
    BY <1>1 DEF Start
  <1>2. ASSUME NEW p \in Proc, PollMaster(p) \/ LockDir(p) PROVE Locking'
    BY <1>2 DEF PollMaster, LockDir
  <1>3. ASSUME NEW p \in Proc, PollMdio(p) PROVE Locking'
    BY <1>3 DEF PollMdio
  <1>4. ASSUME NEW p \in Proc, Contend(p) PROVE Locking'
    BY <1>4 DEF Contend
  <1>5. ASSUME NEW p \in Proc, Trap(p) PROVE Locking'
    BY <1>5 DEF Trap
  <1>6. ASSUME NEW p \in Proc, AgainMaster(p) \/ AgainMdio(p) PROVE Locking'
    BY <1>6 DEF AgainMaster, AgainMdio
  <1>7. ASSUME NEW p \in Proc, Look(p) \/ Verify(p) PROVE Locking'
    BY <1>7 DEF Look, Verify
  <1>8. ASSUME NEW p \in Proc, Write(p) PROVE Locking'
    BY <1>8 DEF Write
  <1>9. ASSUME NEW p \in Proc, Leave(p) PROVE Locking'
    BY <1>9 DEF Leave
  <1>10. ASSUME NEW p \in Proc, Signal(p) \/ Kill(p) PROVE Locking'
    BY <1>10 DEF Signal, Kill
  <1>11. CASE Change \/ KernelBinds \/ BootMakes
    BY <1>11 DEF Change, KernelBinds, BootMakes
  <1>12. CASE UNCHANGED vars
    BY <1>12 DEF vars
  <1> QED
    BY <1>1, <1>2, <1>3, <1>4, <1>5, <1>6, <1>7, <1>8, <1>9, <1>10, <1>11, <1>12
       DEF Next, Step

----------------------------------------------------------------------------
(* Exit codes *)

LEMMA OkStep == TypeOK /\ OkInv /\ [Next]_vars => OkInv'
  <1> SUFFICES ASSUME TypeOK, OkInv, [Next]_vars PROVE OkInv'
    OBVIOUS
  <1> USE DEF TypeOK, OkInv, Goto, Exit, Devices, Budget
  <1>1. ASSUME NEW p \in Proc, Start(p) PROVE OkInv'
    BY <1>1 DEF Start
  <1>2. ASSUME NEW p \in Proc, PollMaster(p) \/ LockDir(p) PROVE OkInv'
    BY <1>2 DEF PollMaster, LockDir
  <1>3. ASSUME NEW p \in Proc, PollMdio(p) PROVE OkInv'
    BY <1>3 DEF PollMdio
  <1>4. ASSUME NEW p \in Proc, Contend(p) PROVE OkInv'
    BY <1>4 DEF Contend
  <1>5. ASSUME NEW p \in Proc, Trap(p) PROVE OkInv'
    BY <1>5 DEF Trap
  <1>6. ASSUME NEW p \in Proc, AgainMaster(p) \/ AgainMdio(p) PROVE OkInv'
    BY <1>6 DEF AgainMaster, AgainMdio
  <1>7. ASSUME NEW p \in Proc, Look(p) \/ Verify(p) PROVE OkInv'
    BY <1>7 DEF Look, Verify
  <1>8. ASSUME NEW p \in Proc, Write(p) PROVE OkInv'
    BY <1>8 DEF Write
  <1>9. ASSUME NEW p \in Proc, Leave(p) PROVE OkInv'
    BY <1>9 DEF Leave
  <1>10. ASSUME NEW p \in Proc, Signal(p) \/ Kill(p) PROVE OkInv'
    BY <1>10 DEF Signal, Kill
  <1>11. CASE Change \/ KernelBinds \/ BootMakes
    BY <1>11 DEF Change, KernelBinds, BootMakes
  <1>12. CASE UNCHANGED vars
    BY <1>12 DEF vars
  <1> QED
    BY <1>1, <1>2, <1>3, <1>4, <1>5, <1>6, <1>7, <1>8, <1>9, <1>10, <1>11, <1>12
       DEF Next, Step

----------------------------------------------------------------------------
(* Theorems *)

LEMMA Invariance == Spec => []IInv
  <1>1. Init => IInv
    BY InitIInv
  <1>2. IInv /\ [Next]_vars => IInv'
    BY TypeStep, LockStep, OkStep DEF IInv, Locking
  <1> QED
    BY <1>1, <1>2, PTL DEF Spec

(* Every variable of the script stays in its set of values, and no wait    *)
(* exceeds its argument.                                                   *)
THEOREM TypeCorrect == Spec => []TypeOK
  <1>1. IInv => TypeOK
    BY DEF IInv
  <1> QED
    BY <1>1, Invariance, PTL

(* Two invocations are never both between the final check and the end of   *)
(* the bind write.                                                         *)
THEOREM BindWriteSerialized == Spec => []OneWriter
  <1>1. IInv => OneWriter
    BY DEF IInv, HolderOwnsLock, OneWriter
  <1> QED
    BY <1>1, Invariance, PTL

(* The lock directory is left behind by killed invocations only.           *)
THEOREM LockLeftByKilledOnly == Spec => []StaleOnlyAfterKill
  <1>1. IInv => StaleOnlyAfterKill
    BY DEF IInv
  <1> QED
    BY <1>1, Invariance, PTL

(* An invocation that exits with 0 leaves the switch bound to realtek-mdio.*)
THEOREM OkIsBound == Spec => []OkMeansBound
  <1>1. IInv => OkMeansBound
    BY DEF IInv, OkInv, OkMeansBound
  <1> QED
    BY <1>1, Invariance, PTL

----------------------------------------------------------------------------
(* How long an invocation runs *)

(* Seconds of the wait argument that are left. *)
WaitLeft(p) == Limit[p] - elapsed[p]

(* Steps it can still take: a second buys one more look at both devices,   *)
(* or one more mkdir.                                                      *)
StepsLeft(p) ==
    CASE pc[p] = "idle" -> 12 + 2 * WaitLeft(p)
      [] pc[p] = "master" -> 11 + 2 * WaitLeft(p)
      [] pc[p] = "mdio" -> 10 + 2 * WaitLeft(p)
      [] pc[p] = "dir" -> 9 + WaitLeft(p)
      [] pc[p] = "lock" -> 8 + WaitLeft(p)
      [] pc[p] = "trap" -> 7
      [] pc[p] = "again" -> 6
      [] pc[p] = "againMdio" -> 5
      [] pc[p] = "look" -> 4
      [] pc[p] = "write" -> 3
      [] pc[p] = "verify" -> 2
      [] pc[p] = "leave" -> 1
      [] OTHER -> 0

(* The script's loops are bounded by its argument alone: every step of an  *)
(* invocation, or signal to it, brings it nearer to its end, whatever the  *)
(* devices and the other invocations do, so it writes the bind file once   *)
(* at most and holds the lock for seven steps at most.                     *)
OnlyForward ==
    /\ [](\A p \in Proc : StepsLeft(p) \in 0 .. 2 * Limit[p] + 12)
    /\ [][\A p \in Proc :
             /\ Start(p) \/ Step(p) \/ Signal(p) \/ Kill(p) => StepsLeft(p)' < StepsLeft(p)
             /\ StepsLeft(p)' <= StepsLeft(p)]_vars

Staged(p) ==
    /\ pc[p] = "idle" => StepsLeft(p) = 12 + 2 * WaitLeft(p)
    /\ pc[p] = "master" => StepsLeft(p) = 11 + 2 * WaitLeft(p)
    /\ pc[p] = "mdio" => StepsLeft(p) = 10 + 2 * WaitLeft(p)
    /\ pc[p] = "dir" => StepsLeft(p) = 9 + WaitLeft(p)
    /\ pc[p] = "lock" => StepsLeft(p) = 8 + WaitLeft(p)
    /\ pc[p] = "trap" => StepsLeft(p) = 7
    /\ pc[p] = "again" => StepsLeft(p) = 6
    /\ pc[p] = "againMdio" => StepsLeft(p) = 5
    /\ pc[p] = "look" => StepsLeft(p) = 4
    /\ pc[p] = "write" => StepsLeft(p) = 3
    /\ pc[p] = "verify" => StepsLeft(p) = 2
    /\ pc[p] = "leave" => StepsLeft(p) = 1
    /\ pc[p] \in Finished => StepsLeft(p) = 0

LEMMA LeftAt == ASSUME NEW p \in Proc PROVE Staged(p)
  <1>1. ASSUME pc[p] = "idle" PROVE StepsLeft(p) = 12 + 2 * WaitLeft(p)
    BY <1>1 DEF StepsLeft
  <1>2. ASSUME pc[p] = "master" PROVE StepsLeft(p) = 11 + 2 * WaitLeft(p)
    BY <1>2 DEF StepsLeft
  <1>3. ASSUME pc[p] = "mdio" PROVE StepsLeft(p) = 10 + 2 * WaitLeft(p)
    BY <1>3 DEF StepsLeft
  <1>4. ASSUME pc[p] = "lock" PROVE StepsLeft(p) = 8 + WaitLeft(p)
    BY <1>4 DEF StepsLeft
  <1>5. ASSUME pc[p] = "trap" PROVE StepsLeft(p) = 7
    BY <1>5 DEF StepsLeft
  <1>6. ASSUME pc[p] = "again" PROVE StepsLeft(p) = 6
    BY <1>6 DEF StepsLeft
  <1>7. ASSUME pc[p] = "againMdio" PROVE StepsLeft(p) = 5
    BY <1>7 DEF StepsLeft
  <1>8. ASSUME pc[p] = "look" PROVE StepsLeft(p) = 4
    BY <1>8 DEF StepsLeft
  <1>9. ASSUME pc[p] = "write" PROVE StepsLeft(p) = 3
    BY <1>9 DEF StepsLeft
  <1>10. ASSUME pc[p] = "verify" PROVE StepsLeft(p) = 2
    BY <1>10 DEF StepsLeft
  <1>11. ASSUME pc[p] = "leave" PROVE StepsLeft(p) = 1
    BY <1>11 DEF StepsLeft
  <1>12. ASSUME pc[p] \in Finished PROVE StepsLeft(p) = 0
    BY <1>12 DEF StepsLeft
  <1>13. ASSUME pc[p] = "dir" PROVE StepsLeft(p) = 9 + WaitLeft(p)
    BY <1>13 DEF StepsLeft
  <1> QED
    BY <1>1, <1>2, <1>3, <1>4, <1>5, <1>6, <1>7, <1>8, <1>9, <1>10, <1>11, <1>12, <1>13
       DEF Staged

AllStaged == \A p \in Proc : Staged(p)

LEMMA LeftAtNext == AllStaged'
  <1>1. AllStaged
    BY LeftAt DEF AllStaged
  <1> QED
    BY <1>1, PTL

LEMMA WaitTyped ==
    ASSUME TypeOK, NEW p \in Proc
    PROVE  WaitLeft(p) \in 0 .. Limit[p] /\ Limit[p] \in Nat
  BY LimitAssumption DEF TypeOK, WaitLeft

LEMMA LeftBounded ==
    ASSUME TypeOK, NEW p \in Proc
    PROVE  StepsLeft(p) \in 0 .. 2 * Limit[p] + 12
  <1>1. pc[p] \in Stage
    BY DEF TypeOK
  <1> QED
    BY <1>1, WaitTyped, LeftAt DEF Staged

Bounded == \A p \in Proc : StepsLeft(p) \in 0 .. 2 * Limit[p] + 12

LEMMA BoundedNext == IInv' => Bounded'
  <1>1. IInv => Bounded
    BY LeftBounded DEF IInv, Bounded
  <1> QED
    BY <1>1, PTL

(* The wait loop and the contention spend a second each time round. *)
LEMMA BudgetSpent ==
    ASSUME TypeOK, NEW p \in Proc, NEW s, Budget(p, s)
    PROVE  \/ pc'[p] = s /\ WaitLeft(p)' = WaitLeft(p) - 1
           \/ pc'[p] = "stopped"
  BY LimitAssumption DEF TypeOK, Budget, Goto, WaitLeft

LEMMA Nearer ==
    ASSUME TypeOK, NEW p \in Proc, Start(p) \/ Step(p) \/ Signal(p) \/ Kill(p)
    PROVE  StepsLeft(p)' < StepsLeft(p)
  <1> USE WaitTyped, LeftAt, LeftAtNext DEF AllStaged, Staged
  <1>1. CASE Start(p)
    <2>1. (pc'[p] = "master" \/ pc'[p] = "stopped") /\ WaitLeft(p)' = WaitLeft(p)
      BY <1>1 DEF Start, Goto, TypeOK, WaitLeft
    <2> QED
      BY <1>1, <2>1 DEF Start
  <1>2. CASE PollMaster(p)
    <2>1. (pc'[p] = "mdio" \/ pc'[p] = "stopped") /\ WaitLeft(p)' = WaitLeft(p)
      BY <1>2 DEF PollMaster, Goto, TypeOK, WaitLeft
    <2> QED
      BY <1>2, <2>1 DEF PollMaster
  <1>3. CASE PollMdio(p)
    <2>1. \/ pc'[p] = "stopped"
          \/ pc'[p] = "dir" /\ WaitLeft(p)' = WaitLeft(p)
          \/ pc'[p] = "master" /\ WaitLeft(p)' = WaitLeft(p) - 1
      BY <1>3, BudgetSpent DEF PollMdio, Goto, TypeOK, WaitLeft
    <2> QED
      BY <1>3, <2>1 DEF PollMdio
  <1>4. CASE Contend(p)
    <2>1. \/ pc'[p] \in {"stopped", "trap"}
          \/ pc'[p] = "lock" /\ WaitLeft(p)' = WaitLeft(p) - 1
      BY <1>4, BudgetSpent DEF Contend, Goto, TypeOK
    <2> QED
      BY <1>4, <2>1 DEF Contend
  <1>5. CASE Trap(p) \/ AgainMaster(p) \/ AgainMdio(p)
    <2>1. \/ pc[p] = "trap" /\ pc'[p] = "again"
          \/ pc[p] = "again" /\ pc'[p] \in {"againMdio", "leave"}
          \/ pc[p] = "againMdio" /\ pc'[p] \in {"look", "leave"}
      BY <1>5 DEF Trap, AgainMaster, AgainMdio, Goto, Exit, TypeOK
    <2> QED
      BY <2>1
  <1>6. CASE Look(p) \/ Write(p) \/ Verify(p)
    <2>1. \/ pc[p] = "look" /\ pc'[p] \in {"write", "leave"}
          \/ pc[p] = "write" /\ pc'[p] \in {"verify", "leave"}
          \/ pc[p] = "verify" /\ pc'[p] = "leave"
      BY <1>6 DEF Look, Write, Verify, Goto, Exit, TypeOK
    <2> QED
      BY <2>1
  <1>7. CASE Leave(p)
    <2>1. pc[p] = "leave" /\ pc'[p] \in Finished
      BY <1>7 DEF Leave, Goto, TypeOK
    <2> QED
      BY <2>1
  <1>8. CASE Signal(p)
    <2>1. \/ pc[p] \in Trapped \ {"leave"} /\ pc'[p] = "leave"
          \/ pc[p] \in {"master", "mdio", "dir", "lock", "trap"} /\ pc'[p] = "killed"
      BY <1>8 DEF Signal, Goto, Exit, TypeOK
    <2> QED
      BY <2>1
  <1>9. CASE Kill(p)
    <2>1. pc[p] \in Stage \ (Finished \cup {"idle"}) /\ pc'[p] = "killed"
      BY <1>9 DEF Kill, Goto, TypeOK
    <2> QED
      BY <2>1
  <1>10. CASE LockDir(p)
    <2>1. (pc'[p] = "lock" \/ pc'[p] = "stopped") /\ WaitLeft(p)' = WaitLeft(p)
      BY <1>10 DEF LockDir, Goto, TypeOK, WaitLeft
    <2> QED
      BY <1>10, <2>1 DEF LockDir
  <1> QED
    BY <1>1, <1>2, <1>3, <1>4, <1>5, <1>6, <1>7, <1>8, <1>9, <1>10 DEF Step

(* Nobody else takes an invocation anywhere. *)
LEMMA OthersLeave ==
    ASSUME TypeOK, [Next]_vars, NEW p \in Proc, ~(Start(p) \/ Step(p) \/ Signal(p) \/ Kill(p))
    PROVE  StepsLeft(p)' = StepsLeft(p)
  <1>1. pc'[p] = pc[p] /\ elapsed'[p] = elapsed[p]
    <2>1. ASSUME NEW q \in Proc, Start(q) \/ Step(q) \/ Signal(q) \/ Kill(q), q # p
          PROVE  pc'[p] = pc[p] /\ elapsed'[p] = elapsed[p]
      <3> USE <2>1 DEF TypeOK, Goto, Exit, Budget, Devices
      <3>1. CASE Start(q) \/ PollMaster(q) \/ Trap(q) \/ AgainMaster(q) \/ AgainMdio(q)
        BY <3>1 DEF Start, PollMaster, Trap, AgainMaster, AgainMdio
      <3>2. CASE PollMdio(q) \/ LockDir(q) \/ Contend(q)
        BY <3>2 DEF PollMdio, LockDir, Contend
      <3>3. CASE Look(q) \/ Write(q) \/ Verify(q) \/ Leave(q) \/ Signal(q) \/ Kill(q)
        BY <3>3 DEF Look, Write, Verify, Leave, Signal, Kill
      <3> QED
        BY <3>1, <3>2, <3>3 DEF Step
    <2>2. CASE Change \/ KernelBinds \/ BootMakes \/ UNCHANGED vars
      BY <2>2 DEF Change, KernelBinds, BootMakes, vars
    <2> QED
      BY <2>1, <2>2 DEF Next
  <1> QED
    BY <1>1 DEF StepsLeft, WaitLeft

(* S19 and every hotplug event come to an end by themselves, also while    *)
(* another invocation, alive or dead, keeps the lock directory.            *)
THEOREM InvocationsEnd == Spec => OnlyForward
  <1>1. IInv => \A p \in Proc : StepsLeft(p) \in 0 .. 2 * Limit[p] + 12
    BY LeftBounded DEF IInv
  <1>2. IInv /\ IInv' /\ [Next]_vars =>
          [\A p \in Proc :
             /\ Start(p) \/ Step(p) \/ Signal(p) \/ Kill(p) => StepsLeft(p)' < StepsLeft(p)
             /\ StepsLeft(p)' <= StepsLeft(p)]_vars
    <2> SUFFICES ASSUME IInv, IInv', [Next]_vars, NEW p \in Proc
                 PROVE  /\ Start(p) \/ Step(p) \/ Signal(p) \/ Kill(p)
                              => StepsLeft(p)' < StepsLeft(p)
                        /\ StepsLeft(p)' <= StepsLeft(p)
      OBVIOUS
    <2>1. StepsLeft(p) \in Int
      BY <1>1
    <2>2. StepsLeft(p)' \in Int
      <3>1. StepsLeft(p)' \in (0 .. 2 * Limit[p] + 12)'
        BY BoundedNext DEF Bounded
      <3> QED
        BY <3>1
    <2>3. CASE Start(p) \/ Step(p) \/ Signal(p) \/ Kill(p)
      BY <2>1, <2>2, <2>3, Nearer DEF IInv
    <2>4. CASE ~(Start(p) \/ Step(p) \/ Signal(p) \/ Kill(p))
      BY <2>1, <2>4, OthersLeave DEF IInv
    <2> QED
      BY <2>3, <2>4
  <1> QED
    BY <1>1, <1>2, Invariance, PTL DEF Spec, OnlyForward

=============================================================================
