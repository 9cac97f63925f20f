-------------------------- MODULE SlotSwitchProofs --------------------------
(***************************************************************************)
(* The switch of the boot slot, from the verification of the target to the *)
(* next boot, for every content of the slots and every block of the copies *)
(* of the selector.  What is known of rt3bcwrite, step by step, is taken   *)
(* from BootSelectorProofs.                                                *)
(***************************************************************************)
EXTENDS SlotSwitch, SequenceTheorems, TLAPS

W == INSTANCE BootSelectorProofs

----------------------------------------------------------------------------
(* rt3release *)

IsVolume(v, B) == v.data \in Seq(B) /\ v.pad \in Nat /\ v.fit \in Nat
IsManifest(m, B) == m.kernel \in Seq(B) /\ m.rootfs \in Seq(B) /\ m.size \in Nat
HoldsBytes(c, B) == IsVolume(c.kernel, B) /\ IsVolume(c.rootfs, B) /\ IsManifest(c.manifest, B)

LEMMA BytesTyped ==
    ASSUME NEW B, Pad \in B, NEW v, IsVolume(v, B)
    PROVE  /\ Bytes(v) \in Seq(B)
           /\ Len(Bytes(v)) \in Nat
           /\ Len(Bytes(v)) = Len(v.data) + v.pad
           /\ \A i \in 1 .. Len(v.data) : Bytes(v)[i] = v.data[i]
  <1>. DEFINE tail == [b \in 1 .. v.pad |-> Pad]
  <1>1. tail \in Seq(B) /\ Len(tail) = v.pad
    BY DEF IsVolume
  <1>2. v.data \in Seq(B) /\ Len(v.data) \in Nat /\ v.pad \in Nat
    BY DEF IsVolume
  <1>. HIDE DEF tail
  <1>3. /\ v.data \o tail \in Seq(B)
        /\ Len(v.data \o tail) = Len(v.data) + Len(tail)
        /\ \A i \in 1 .. Len(v.data) + Len(tail) :
              (v.data \o tail)[i] = IF i <= Len(v.data) THEN v.data[i] ELSE tail[i - Len(v.data)]
    BY <1>1, <1>2, ConcatProperties
  <1>4. Bytes(v) = v.data \o tail
    BY DEF Bytes, tail
  <1>5. \A i \in 1 .. Len(v.data) : i \in 1 .. Len(v.data) + Len(tail) /\ i <= Len(v.data)
    BY <1>1, <1>2
  <1>. QED
    BY <1>1, <1>3, <1>4, <1>5

(* The first n bytes of a sequence that has them. *)
LEMMA Prefix ==
    ASSUME NEW B, NEW s \in Seq(B), NEW n \in Nat, n <= Len(s)
    PROVE  /\ SubSeq(s, 1, n) \in Seq(B)
           /\ Len(SubSeq(s, 1, n)) = n
           /\ \A i \in 1 .. n : SubSeq(s, 1, n)[i] = s[i]
  <1>1. \A i \in 1 .. n : s[i] \in B
    BY ElementOfSeq
  <1>2. /\ SubSeq(s, 1, n) \in Seq(B)
        /\ Len(SubSeq(s, 1, n)) = IF 1 <= n THEN n - 1 + 1 ELSE 0
        /\ \A i \in 1 .. n - 1 + 1 : SubSeq(s, 1, n)[i] = s[1 + i - 1]
    BY <1>1, SubSeqProperties
  <1>. QED
    BY <1>2

LEMMA HashedIsHeld ==
    ASSUME NEW B, Pad \in B, NEW v, IsVolume(v, B), NEW n \in Nat
    PROVE  Holds(v, HashRegion(v, n))
  <1>1. Bytes(v) \in Seq(B) /\ Len(Bytes(v)) \in Nat
    BY BytesTyped
  <1>2. CASE n = 0 \/ n >= Len(Bytes(v))
    <2>1. HashRegion(v, n) = Bytes(v)
      BY <1>2 DEF HashRegion
    <2>2. SubSeq(Bytes(v), 1, Len(Bytes(v))) = Bytes(v)
      BY <1>1, SubSeqFull
    <2>. QED
      BY <1>1, <2>1, <2>2 DEF Holds
  <1>3. CASE n # 0 /\ n < Len(Bytes(v))
    <2>1. HashRegion(v, n) = SubSeq(Bytes(v), 1, n)
      BY <1>1, <1>3 DEF HashRegion
    <2>2. Len(SubSeq(Bytes(v), 1, n)) = n
      BY <1>1, <1>3, Prefix
    <2>. QED
      BY <1>1, <1>3, <2>1, <2>2 DEF Holds
  <1>. QED
    BY <1>1, <1>2, <1>3

(* What rt3release accepts holds what its manifest records. *)
LEMMA VerifiedIsGenuine ==
    ASSUME NEW B, Pad \in B, NEW m, NEW k, NEW r,
           IsManifest(m, B), IsVolume(k, B), IsVolume(r, B), Verify(m, k, r) = EX_OK
    PROVE  Genuine(m, k, r)
  <1>1. m.loads /\ m.machineB /\ KernelMatch(m, k) /\ RootfsMatch(m, r)
    BY DEF Verify, EX_OK, EX_NOMAN, EX_HW, EX_MISMATCH
  <1>2. Holds(k, m.kernel)
    BY <1>1, HashedIsHeld DEF KernelMatch, HashKernel, IsVolume
  <1>3. CASE m.rootfs = NoHash
    <2>1. Len(Bytes(r)) \in Nat /\ Bytes(r) \in Seq(B)
      BY BytesTyped
    <2>2. SubSeq(Bytes(r), 1, 0) = <<>>
      BY SubSeqEmpty
    <2>3. Holds(r, m.rootfs)
      BY <1>3, <2>1, <2>2 DEF Holds, NoHash
    <2>. QED
      BY <1>1, <1>2, <2>3 DEF Genuine
  <1>4. CASE HashRegion(r, m.size) = m.rootfs
    BY <1>1, <1>2, <1>4, HashedIsHeld DEF Genuine, IsManifest
  <1>. QED
    BY <1>1, <1>3, <1>4 DEF RootfsMatch

(* A region of the length that was recorded is what was recorded. *)
LEMMA BuiltHashes ==
    ASSUME NEW B, Pad \in B, NEW v, IsVolume(v, B), v.data # <<>>
    PROVE  HashRegion(v, Len(v.data)) = v.data
  <1>0. v.data \in Seq(B) /\ v.pad \in Nat /\ Len(v.data) \in Nat
    BY LenProperties DEF IsVolume
  <1>1. /\ Bytes(v) \in Seq(B)
        /\ Len(Bytes(v)) = Len(v.data) + v.pad
        /\ \A i \in 1 .. Len(v.data) : Bytes(v)[i] = v.data[i]
    BY BytesTyped
  <1>2. Len(v.data) # 0
    BY <1>0, <1>1, EmptySeq
  <1>3. CASE v.pad = 0
    <2>1. Len(Bytes(v)) = Len(v.data)
      BY <1>0, <1>1, <1>3
    <2>2. Bytes(v) = v.data
      BY <1>0, <1>1, <2>1, SeqEqual
    <2>. QED
      BY <1>0, <1>1, <2>1, <2>2 DEF HashRegion
  <1>4. CASE v.pad > 0
    <2>1. ~(Len(v.data) >= Len(Bytes(v))) /\ Len(v.data) <= Len(Bytes(v))
      BY <1>0, <1>1, <1>4
    <2>2. HashRegion(v, Len(v.data)) = SubSeq(Bytes(v), 1, Len(v.data))
      BY <1>2, <2>1 DEF HashRegion
    <2>3. SubSeq(Bytes(v), 1, Len(v.data)) = v.data
      <3>1. /\ SubSeq(Bytes(v), 1, Len(v.data)) \in Seq(B)
            /\ Len(SubSeq(Bytes(v), 1, Len(v.data))) = Len(v.data)
            /\ \A i \in 1 .. Len(v.data) : SubSeq(Bytes(v), 1, Len(v.data))[i] = Bytes(v)[i]
        BY <1>0, <1>1, <2>1, Prefix
      <3>. QED
        BY <1>0, <1>1, <3>1, SeqEqual
    <2>. QED
      BY <2>2, <2>3
  <1>. QED
    BY <1>0, <1>1, <1>3, <1>4

(* rt3release accepts what the build made. *)
LEMMA BuiltVerifies ==
    ASSUME NEW B, Pad \in B, NEW m, NEW k, NEW r,
           IsManifest(m, B), IsVolume(k, B), IsVolume(r, B), AsBuilt(m, k, r), m.kernel # NoHash
    PROVE  Verify(m, k, r) = EX_OK
  <1>1. KernelMatch(m, k)
    <2>1. HashRegion(k, Len(k.data)) = k.data
      BY BuiltHashes DEF AsBuilt, NoHash
    <2>. QED
      BY <2>1 DEF AsBuilt, KernelMatch, HashKernel
  <1>2. RootfsMatch(m, r)
    <2>1. m.rootfs # NoHash => HashRegion(r, Len(r.data)) = r.data
      BY BuiltHashes DEF AsBuilt, NoHash
    <2>. QED
      BY <2>1 DEF AsBuilt, RootfsMatch
  <1>. QED
    BY <1>1, <1>2 DEF Verify, AsBuilt

----------------------------------------------------------------------------
(* The writer.  W brings what is proved of it; its steps are those of the  *)
(* specification, definition by definition.                                *)

LEMMA SameSteps ==
    ASSUME NEW p
    PROVE  Writer!Step(p) <=> W!Step(p)
  BY DEF Writer!Step, W!Step, Writer!Pre, W!Pre, Writer!Decide, W!Decide,
         Writer!Load, W!Load, Writer!Erase, W!Erase, Writer!Head, W!Head,
         Writer!Tail, W!Tail, Writer!Readback, W!Readback,
         Writer!Post, W!Post, Writer!Confirm, W!Confirm,
         Writer!Done, W!Done, Writer!Restart, W!Restart,
         Writer!ReadStruct, W!ReadStruct,
         Writer!ReadStructRefuses, W!ReadStructRefuses,
         Writer!ReadStructFails, W!ReadStructFails, Writer!Goto, W!Goto,
         Writer!Finish, W!Finish, Writer!NextCopy, W!NextCopy,
         Writer!TxnStatus, W!TxnStatus, Writer!TxnPassed, W!TxnPassed,
         Writer!TxnFailed, W!TxnFailed, Writer!SetMedia, W!SetMedia,
         Writer!Patch, W!Patch, Writer!HeadOnly, W!HeadOnly,
         Writer!Verified, W!Verified, Writer!Mismatch, W!Mismatch,
         Writer!BothAtTarget, W!BothAtTarget, Writer!Copy, W!Copy,
         Writer!Block, W!Block, Writer!Erased, W!Erased,
         Writer!NoOp, W!NoOp, Writer!EX_OK, W!EX_OK,
         Writer!EX_STRUCT, W!EX_STRUCT, Writer!EX_IO, W!EX_IO,
         Writer!EX_WRITE1, W!EX_WRITE1, Writer!EX_WRITE2, W!EX_WRITE2,
         Writer!EX_VERIFY1, W!EX_VERIFY1, Writer!EX_VERIFY2, W!EX_VERIFY2,
         Writer!NoCode, W!NoCode

LEMMA SameStart ==
    ASSUME NEW p, NEW o
    PROVE  Writer!Start(p, o) <=> W!Start(p, o)
  BY DEF Writer!Start, W!Start, Writer!Goto, W!Goto,
         Writer!Finish, W!Finish, Writer!EX_IO, W!EX_IO

LEMMA SameEnds ==
    /\ \A p : Writer!Reap(p) <=> W!Reap(p)
    /\ Writer!Restart <=> W!Restart
    /\ Writer!Init <=> W!Init
    /\ Writer!Op = W!Op /\ Writer!Copy = W!Copy /\ Writer!EX_OK = W!EX_OK
  BY DEF Writer!Reap, W!Reap, Writer!Restart, W!Restart,
         Writer!Init, W!Init, Writer!Op, W!Op, Writer!Copy, W!Copy,
         Writer!Block, W!Block, Writer!Erased, W!Erased,
         Writer!NoOp, W!NoOp, Writer!NoCode, W!NoCode, Writer!Goto, W!Goto,
         Writer!EX_OK, W!EX_OK

LEMMA Serial ==
    ASSUME Exclusive, W!Known, W!Next
    PROVE  W!Known'
  BY W!KnownStep, SelectorAssumption, RestAssumption, ExclusiveAssumption

LEMMA KnownKept ==
    ASSUME W!Known, UNCHANGED <<media, pc, op, cur, sel, img, code, wrote, base, hurt>>
    PROVE  W!Known'
  BY DEF W!Known, W!TypeOK, W!Safe, W!Alone, W!OneCopyValid, W!Reading, W!Writing, W!Through,
     W!Succeeded, W!SameRest, W!Holds, W!Faithful, W!Convergeable, W!BothAtTarget, W!HeadOnly

LEMMA StartFacts ==
    ASSUME Exclusive, W!Known, NEW p \in Proc, NEW o \in W!Op, Writer!Start(p, o)
    PROVE  /\ W!Known'
           /\ media' = media /\ op'[p] = o /\ base'[p] = media
           /\ pc[p] = "idle" /\ pc'[p] \in {"pre", "exit"}
           /\ \A q \in Proc \ {p} : pc'[q] = pc[q]
  <1>1. W!Start(p, o)
    BY SameStart
  <1>2. W!Known'
    BY <1>1, Serial DEF W!Next
  <1>. QED
    BY <1>1, <1>2 DEF W!Start, W!Goto, W!Finish, W!Known, W!TypeOK

LEMMA ReapFacts ==
    ASSUME Exclusive, W!Known, NEW p \in Proc, Writer!Reap(p)
    PROVE  /\ W!Known'
           /\ media' = media /\ pc[p] = "exit" /\ pc'[p] = "idle"
           /\ \A q \in Proc \ {p} : pc'[q] = pc[q]
  <1>1. W!Reap(p)
    BY SameEnds
  <1>2. W!Known'
    BY <1>1, Serial DEF W!Next
  <1>. QED
    BY <1>1, <1>2 DEF W!Reap, W!Goto, W!Known, W!TypeOK

LEMMA RestartFacts ==
    ASSUME W!Known, Writer!Restart
    PROVE  W!Known' /\ media' = media /\ \A p \in Proc : pc'[p] = "idle"
  <1>1. W!Restart
    BY SameEnds
  <1>2. W!Known'
    BY <1>1, W!RestartKeeps, SelectorAssumption, RestAssumption, ExclusiveAssumption
  <1>. QED
    BY <1>1, <1>2 DEF W!Restart

(* The step of an invocation that will not restart the board.              *)
LEMMA StepFacts ==
    ASSUME Exclusive, W!Known, NEW p \in Proc, Writer!Step(p), ~op[p].reboot
    PROVE  /\ W!Known'
           /\ UNCHANGED <<op, base>> /\ pc[p] \notin {"idle", "exit"} /\ pc'[p] # "idle"
           /\ \A q \in Proc \ {p} : pc'[q] = pc[q]
           /\ ~op[p].set /\ pc[p] \in {"pre", "decide"} =>
                 media' = media /\ pc'[p] \in {"pre", "decide", "exit"}
  <1>1. W!Step(p) /\ W!TypeOK
    BY SameSteps DEF W!Known
  <1>2. W!Known'
    BY <1>1, Serial DEF W!Next
  <1>3. /\ UNCHANGED <<op, base>> /\ pc[p] \notin {"idle", "exit"} /\ pc'[p] # "idle"
        /\ \A q \in Proc \ {p} : pc'[q] = pc[q]
    BY <1>1, W!Persists, SelectorAssumption, RestAssumption, ExclusiveAssumption
  <1>4. ~op[p].set /\ pc[p] \in {"pre", "decide"} =>
            media' = media /\ pc'[p] \in {"pre", "decide", "exit"}
    BY <1>1, W!OnlyLooks, SelectorAssumption, RestAssumption, ExclusiveAssumption
  <1>. QED
    BY <1>2, <1>3, <1>4

LEMMA CommandTyped ==
    ASSUME NEW t \in Target, NEW b \in BOOLEAN
    PROVE  /\ Command(b, t) \in W!Op
           /\ Command(b, t).set = b /\ Command(b, t).want = Want(t)
           /\ ~Command(b, t).reboot
  BY DEF Command, Target, Want, W!Op

----------------------------------------------------------------------------
(* The session *)

Typed ==
    /\ stage \in [Proc -> Stage]
    /\ goal \in [Proc -> Target]
    /\ reb \in [Proc -> BOOLEAN]
    /\ slot \in [Mtd -> Slot15 \cup Slot16]
    /\ up \in Mtd \cup {OEM, "off"}
    /\ passed \in Target \cup {"none"}

(* One thing at a time is done about the selector. *)
One == \A p, q \in Proc : stage[p] # "idle" /\ stage[q] # "idle" => p = q

AtTarget(t) == \A c \in W!Copy : media[c].ok /\ media[c].sel = Want(t)

(* The invocation of rt3bcwrite that a session waits for is its own; the   *)
(* second one finds the copies as the first one has left them.             *)
Tied(p) ==
    /\ pc[p] # "idle" => stage[p] \in {"set", "check", "manual"} /\ ~op[p].reboot
    /\ stage[p] = "set" => pc[p] # "idle" /\ op[p] = Command(TRUE, goal[p])
    /\ stage[p] = "check" =>
          /\ AtTarget(goal[p])
          /\ pc[p] # "idle" =>
                /\ op[p] = Command(FALSE, goal[p]) /\ base[p] = media
                /\ pc[p] \in {"pre", "decide", "exit"}

(* The target has been verified, in the slot itself.                       *)
Proven(p) ==
    /\ stage[p] \notin {"idle", "manual"} => up \in Mtd
    /\ stage[p] \in {"identity", "sync", "set", "check", "final"} => Suitable(goal[p])

(* Nothing stands against the session so far.                              *)
Blameless(p) ==
    sound =>
        /\ stage[p] \in {"verify", "identity", "sync"} =>
              /\ Healthy /\ Impeccable(goal[p])
              /\ goal[p] = "qsdk" => up = "mtd16"
        /\ stage[p] = "set" => W!Convergeable(p)

Per(p) == Tied(p) /\ Proven(p) /\ Blameless(p)

(* Whoever writes the selector takes the report of the last PASS back.     *)
Decided ==
    passed # "none" => AtTarget(passed) /\ \A p \in Proc : stage[p] \notin {"set", "manual"}

Inv == /\ W!Known /\ Typed /\ One /\ Decided /\ RefusedForAReason
       /\ \A p \in Proc : Per(p)

(* The others have nothing under way when p does something.                *)
LEMMA Others ==
    ASSUME One, \A q \in Proc : Per(q), NEW p \in Proc,
           stage[p] # "idle" \/ \A q \in Proc : stage[q] = "idle",
           \A q \in Proc \ {p} : stage'[q] = stage[q] /\ pc'[q] = pc[q]
    PROVE  /\ \A q \in Proc \ {p} : stage'[q] = "idle" /\ Per(q)'
           /\ One'
  <1>1. \A q \in Proc \ {p} : stage'[q] = "idle"
    BY DEF One
  <1>2. \A q \in Proc \ {p} : pc'[q] = "idle"
    BY <1>1 DEF Per, Tied
  <1>. QED
    BY <1>1, <1>2 DEF One, Per, Tied, Proven, Blameless

LEMMA MoveFacts ==
    ASSUME Typed, NEW p \in Proc, NEW s \in Stage, Move(p, s)
    PROVE  /\ stage' \in [Proc -> Stage] /\ stage'[p] = s
           /\ \A q \in Proc \ {p} : stage'[q] = stage[q]
           /\ UNCHANGED <<goal, reb>>
  BY DEF Typed, Move

LEMMA FinishFacts ==
    ASSUME Typed, NEW p \in Proc, NEW how, Finish(p, how)
    PROVE  /\ stage' \in [Proc -> Stage] /\ stage'[p] = "idle"
           /\ goal' \in [Proc -> Target] /\ reb' \in [Proc -> BOOLEAN]
           /\ \A q \in Proc \ {p} : stage'[q] = stage[q]
           /\ ended' = how
           /\ how # "PASS" => passed' = passed
           /\ how = "PASS" => passed' = goal[p]
  BY DEF Typed, Finish, Stage, Target

(* A session that ends while the writer is at rest leaves nothing to say.  *)
LEMMA Rested ==
    ASSUME NEW p \in Proc, stage'[p] = "idle", pc'[p] = "idle"
    PROVE  Per(p)'
  BY DEF Per, Tied, Proven, Blameless

(* The system without the writer is as it was.                             *)
LEMMA Same ==
    ASSUME UNCHANGED <<media, slot, up>>
    PROVE  /\ \A t : AtTarget(t)' <=> AtTarget(t)
           /\ \A t : Suitable(t)' <=> Suitable(t)
           /\ \A t : Impeccable(t)' <=> Impeccable(t)
           /\ Healthy' <=> Healthy
  BY DEF AtTarget, Suitable, Impeccable, Healthy, Writer!Copy

----------------------------------------------------------------------------
(* Verification accepts what is suitable and refuses nothing impeccable.   *)

LEMMA TargetFacts ==
    ASSUME NEW B, Pad \in B, \A c \in Slot15 \cup Slot16 : HoldsBytes(c, B),
           Typed, up \in Mtd, NEW t \in Target
    PROVE  /\ TargetVerified(t) => Suitable(t)
           /\ Impeccable(t) /\ (t = "qsdk" => up = "mtd16") => TargetVerified(t)
  <1>1. \A m \in Mtd : slot[m] \in Slot15 \cup Slot16 /\ HoldsBytes(slot[m], B)
    BY DEF Typed
  <1>2. CASE t = "oem"
    <2>1. Label("mtd15") \in {"rootfs", "oem_rootfs"}
      BY DEF Label
    <2>. QED
      BY <1>2, <2>1 DEF TargetVerified, VerifyOem, Suitable, Impeccable
  <1>3. CASE t = "qsdk"
    <2>. DEFINE c == slot["mtd16"]
    <2>0. c \in Slot15 \cup Slot16 /\ HoldsBytes(c, B)
      BY <1>1 DEF Mtd
    <2>1. Mtd16Label <=> up = "mtd16"
      BY DEF Mtd16Label, Label
    <2>2. ASSUME TargetVerified(t) PROVE Suitable(t)
      <3>1. c.ubi /\ Verify(c.manifest, c.kernel, c.rootfs) = EX_OK
        BY <1>3, <2>1, <2>2 DEF TargetVerified, VerifyQsdk, Identity
      <3>2. Genuine(c.manifest, c.kernel, c.rootfs)
        BY <2>0, <3>1, VerifiedIsGenuine DEF HoldsBytes
      <3>. QED
        BY <1>3, <3>1, <3>2 DEF Suitable
    <2>3. ASSUME Impeccable(t), up = "mtd16" PROVE TargetVerified(t)
      <3>1. c.ubi /\ AsBuilt(c.manifest, c.kernel, c.rootfs)
        BY <1>3, <2>3 DEF Impeccable, Suitable
      <3>2. c.manifest.kernel # NoHash
        BY <2>0, <3>1, SlotAssumption DEF IsContent, AsBuilt
      <3>3. Verify(c.manifest, c.kernel, c.rootfs) = EX_OK
        BY <2>0, <3>1, <3>2, BuiltVerifies DEF HoldsBytes
      <3>. QED
        BY <1>3, <2>1, <2>3, <3>1, <3>3 DEF TargetVerified, VerifyQsdk, Identity
    <2>. QED
      BY <1>3, <2>2, <2>3
  <1>. QED
    BY <1>2, <1>3 DEF Target

----------------------------------------------------------------------------
(* Step by step *)

LEMMA BeginStep ==
    ASSUME Inv, NEW p \in Proc, NEW t \in Target, NEW r \in BOOLEAN, Begin(p, t, r)
    PROVE  Inv'
  <1>1. /\ UNCHANGED <<media, pc, op, cur, sel, img, code, wrote, base, hurt, slot, up, passed>>
        /\ up \in Mtd /\ ended' = "none"
        /\ \A q \in Proc : stage[q] = "idle"
        /\ sound' = (Healthy /\ Impeccable(t) /\ ~(t = "qsdk" /\ up = "mtd15"))
    BY DEF Begin, writerVars
  <1>2. W!Known'
    BY <1>1, KnownKept DEF Inv
  <1>3. /\ stage' \in [Proc -> Stage] /\ stage'[p] = "verify" /\ goal'[p] = t
        /\ goal' \in [Proc -> Target] /\ reb' \in [Proc -> BOOLEAN]
        /\ \A q \in Proc \ {p} : stage'[q] = stage[q] /\ pc'[q] = pc[q]
    BY <1>1 DEF Inv, Typed, Begin, Stage
  <1>4. (\A q \in Proc \ {p} : stage'[q] = "idle" /\ Per(q)') /\ One'
    BY <1>1, <1>3, Others DEF Inv
  <1>5. pc'[p] = "idle"
    BY <1>1 DEF Inv, Per, Tied
  <1>6. Blameless(p)'
    <2>1. sound' => Healthy' /\ Impeccable(t)' /\ (t = "qsdk" => up' = "mtd16")
      BY <1>1, Same DEF Mtd
    <2>. QED
      BY <1>3, <2>1 DEF Blameless
  <1>7. Per(p)'
    BY <1>1, <1>3, <1>5, <1>6 DEF Per, Tied, Proven
  <1>8. Decided'
    BY <1>1, <1>3, <1>4, Same DEF Inv, Decided
  <1>. QED
    BY <1>1, <1>2, <1>3, <1>4, <1>7, <1>8 DEF Inv, Typed, RefusedForAReason

(* A step of p beside the writer. *)
LEMMA Beside ==
    ASSUME Inv, NEW p \in Proc, stage[p] # "idle",
           UNCHANGED <<media, pc, op, cur, sel, img, code, wrote, base, hurt, slot, up, sound>>,
           stage' \in [Proc -> Stage], goal' \in [Proc -> Target], reb' \in [Proc -> BOOLEAN],
           passed' = passed,
           \A q \in Proc \ {p} : stage'[q] = stage[q],
           stage'[p] \notin {"set", "manual"},
           Per(p)', RefusedForAReason'
    PROVE  Inv'
  <1>1. W!Known'
    BY KnownKept DEF Inv
  <1>2. (\A q \in Proc \ {p} : stage'[q] = "idle" /\ Per(q)') /\ One'
    BY Others DEF Inv
  <1>3. Decided'
    BY <1>2, Same DEF Inv, Decided
  <1>. QED
    BY <1>1, <1>2, <1>3 DEF Inv, Typed

LEMMA VerifyStep ==
    ASSUME Inv, NEW p \in Proc, VerifyTarget(p),
           NEW B, Pad \in B, \A c \in Slot15 \cup Slot16 : HoldsBytes(c, B)
    PROVE  Inv'
  <1>1. /\ UNCHANGED <<media, pc, op, cur, sel, img, code, wrote, base, hurt, slot, up, sound>>
        /\ stage[p] = "verify"
    BY DEF VerifyTarget, writerVars
  <1>2. pc[p] = "idle" /\ up \in Mtd /\ goal[p] \in Target /\ Typed /\ Blameless(p) /\ RefusedForAReason
    BY <1>1 DEF Inv, Per, Tied, Proven, Typed
  <1>3. CASE TargetVerified(goal[p]) /\ Move(p, IF goal[p] = "oem" THEN "sync" ELSE "identity")
               /\ UNCHANGED <<ended, passed, troubled>>
    <2>1. /\ stage' \in [Proc -> Stage] /\ stage'[p] \in {"sync", "identity"} /\ UNCHANGED <<goal, reb>>
          /\ \A q \in Proc \ {p} : stage'[q] = stage[q]
      BY <1>2, <1>3, MoveFacts DEF Stage
    <2>2. Suitable(goal[p])
      BY <1>2, <1>3, TargetFacts
    <2>3. Per(p)'
      BY <1>1, <1>2, <2>1, <2>2, Same DEF Per, Tied, Proven, Blameless
    <2>4. RefusedForAReason'
      BY <1>1, <1>2, <1>3 DEF RefusedForAReason
    <2>. QED
      BY <1>1, <1>2, <1>3, <2>1, <2>3, <2>4, Beside DEF Typed
  <1>4. CASE Finish(p, "FAIL") /\ (TargetVerified(goal[p]) => troubled')
    <2>1. /\ stage' \in [Proc -> Stage] /\ stage'[p] = "idle" /\ goal' \in [Proc -> Target]
          /\ reb' \in [Proc -> BOOLEAN] /\ passed' = passed
          /\ \A q \in Proc \ {p} : stage'[q] = stage[q]
      BY <1>2, <1>4, FinishFacts
    <2>2. Per(p)'
      BY <1>1, <1>2, <2>1, Rested
    <2>3. RefusedForAReason'
      <3>1. sound => TargetVerified(goal[p])
        BY <1>1, <1>2, TargetFacts DEF Blameless
      <3>. QED
        BY <1>1, <1>4, <3>1 DEF RefusedForAReason
    <2>. QED
      BY <1>1, <2>1, <2>2, <2>3, Beside
  <1>. QED
    BY <1>3, <1>4 DEF VerifyTarget

LEMMA DependsStep ==
    ASSUME Inv, NEW p \in Proc, Depends(p)
    PROVE  Inv'
  <1>1. /\ UNCHANGED <<media, pc, op, cur, sel, img, code, wrote, base, hurt, slot, up, sound>>
        /\ stage[p] = "identity"
    BY DEF Depends, writerVars
  <1>2. pc[p] = "idle" /\ Typed /\ Per(p) /\ RefusedForAReason
    BY <1>1 DEF Inv, Per, Tied
  <1>3. CASE Move(p, "sync") /\ UNCHANGED <<ended, passed, troubled>>
    <2>1. /\ stage' \in [Proc -> Stage] /\ stage'[p] = "sync" /\ UNCHANGED <<goal, reb>>
          /\ \A q \in Proc \ {p} : stage'[q] = stage[q]
      BY <1>2, <1>3, MoveFacts DEF Stage
    <2>2. Per(p)'
      BY <1>1, <1>2, <2>1, Same DEF Per, Tied, Proven, Blameless
    <2>3. RefusedForAReason'
      BY <1>1, <1>2, <1>3 DEF RefusedForAReason
    <2>. QED
      BY <1>1, <1>2, <1>3, <2>1, <2>2, <2>3, Beside DEF Typed
  <1>4. CASE Finish(p, "FAIL") /\ troubled' = TRUE
    <2>1. /\ stage' \in [Proc -> Stage] /\ stage'[p] = "idle" /\ goal' \in [Proc -> Target]
          /\ reb' \in [Proc -> BOOLEAN] /\ passed' = passed
          /\ \A q \in Proc \ {p} : stage'[q] = stage[q]
      BY <1>2, <1>4, FinishFacts
    <2>2. Per(p)'
      BY <1>1, <1>2, <2>1, Rested
    <2>3. RefusedForAReason'
      BY <1>4 DEF RefusedForAReason
    <2>. QED
      BY <1>1, <2>1, <2>2, <2>3, Beside
  <1>. QED
    BY <1>3, <1>4 DEF Depends

LEMMA SetStep ==
    ASSUME Exclusive, Inv, NEW p \in Proc, Set(p)
    PROVE  Inv'
  <1>1. UNCHANGED <<slot, up, sound>> /\ stage[p] = "sync"
    BY DEF Set
  <1>2. pc[p] = "idle" /\ Typed /\ Per(p) /\ RefusedForAReason /\ goal[p] \in Target
    BY <1>1 DEF Inv, Per, Tied, Typed
  <1>3. CASE /\ Writer!Start(p, Command(TRUE, goal[p])) /\ Move(p, "set") /\ passed' = "none"
             /\ UNCHANGED <<ended, troubled>>
    <2>1. /\ W!Known' /\ media' = media /\ op'[p] = Command(TRUE, goal[p]) /\ base'[p] = media
          /\ pc'[p] \in {"pre", "exit"} /\ \A q \in Proc \ {p} : pc'[q] = pc[q]
      BY <1>2, <1>3, CommandTyped, StartFacts DEF Inv
    <2>2. /\ stage' \in [Proc -> Stage] /\ stage'[p] = "set" /\ UNCHANGED <<goal, reb>>
          /\ \A q \in Proc \ {p} : stage'[q] = stage[q]
      BY <1>2, <1>3, MoveFacts DEF Stage
    <2>3. (\A q \in Proc \ {p} : stage'[q] = "idle" /\ Per(q)') /\ One'
      BY <1>1, <2>1, <2>2, Others DEF Inv
    <2>4. sound => W!Convergeable(p)'
      <3>1. sound => Healthy
        BY <1>1, <1>2 DEF Per, Blameless
      <3>2. op'[p].set
        BY <1>2, <2>1, CommandTyped
      <3>. QED
        BY <2>1, <3>1, <3>2 DEF Healthy, W!Convergeable, Writer!Copy, W!Copy
    <2>5. Tied(p)'
      BY <1>2, <2>1, <2>2, CommandTyped DEF Tied
    <2>6. Proven(p)'
      BY <1>1, <1>2, <2>1, <2>2, Same DEF Per, Proven
    <2>7. Blameless(p)'
      BY <1>1, <2>2, <2>4 DEF Blameless
    <2>8. Decided' /\ RefusedForAReason' /\ Typed'
      BY <1>1, <1>2, <1>3, <2>2 DEF Decided, RefusedForAReason, Typed
    <2>. QED
      BY <2>1, <2>3, <2>5, <2>6, <2>7, <2>8 DEF Inv, Per
  <1>4. CASE Finish(p, "FAIL") /\ troubled' = TRUE /\ UNCHANGED writerVars
    <2>1. /\ stage' \in [Proc -> Stage] /\ stage'[p] = "idle" /\ goal' \in [Proc -> Target]
          /\ reb' \in [Proc -> BOOLEAN] /\ passed' = passed
          /\ \A q \in Proc \ {p} : stage'[q] = stage[q]
      BY <1>2, <1>4, FinishFacts
    <2>2. UNCHANGED <<media, pc, op, cur, sel, img, code, wrote, base, hurt>>
      BY <1>4 DEF writerVars
    <2>3. Per(p)'
      BY <1>2, <2>1, <2>2, Rested
    <2>4. RefusedForAReason'
      BY <1>4 DEF RefusedForAReason
    <2>. QED
      BY <1>1, <2>1, <2>2, <2>3, <2>4, Beside
  <1>. QED
    BY <1>3, <1>4 DEF Set

(* The status of the first rt3bcwrite. *)
LEMMA SetDoneStep ==
    ASSUME Exclusive, Inv, NEW p \in Proc, SetDone(p)
    PROVE  Inv'
  <1>1. UNCHANGED <<slot, up, sound>> /\ stage[p] = "set" /\ pc[p] = "exit" /\ passed = "none"
    BY DEF SetDone, Inv, Decided
  <1>0. ~troubled' => ~troubled /\ p \notin hurt
    <2>1. troubled' = (troubled \/ p \in hurt)
      BY DEF SetDone
    <2>. QED
      BY <2>1, Zenon
  <1>2. Typed /\ Per(p) /\ RefusedForAReason /\ goal[p] \in Target
    BY DEF Inv, Typed
  <1>3. /\ W!Known' /\ media' = media /\ pc'[p] = "idle"
        /\ \A q \in Proc \ {p} : pc'[q] = pc[q]
    BY ReapFacts DEF Inv, SetDone
  <1>4. \A q \in Proc \ {p} : stage'[q] = stage[q]
    BY <1>2, MoveFacts, FinishFacts DEF SetDone, Stage
  <1>5. (\A q \in Proc \ {p} : stage'[q] = "idle" /\ Per(q)') /\ One'
    BY <1>1, <1>3, <1>4, Others DEF Inv
  <1>6. op[p] = Command(TRUE, goal[p]) /\ op[p].want = Want(goal[p]) /\ op[p].set
    BY <1>1, <1>2, CommandTyped DEF Per, Tied
  <1>7. CASE code[p] = Writer!EX_OK
    <2>1. Move(p, "check") /\ UNCHANGED <<ended, passed>>
      BY <1>7 DEF SetDone
    <2>2. stage' \in [Proc -> Stage] /\ stage'[p] = "check" /\ UNCHANGED <<goal, reb>>
      BY <1>2, <2>1, MoveFacts DEF Stage
    <2>3. AtTarget(goal[p])
      BY <1>1, <1>6, <1>7, SameEnds DEF Inv, W!Known, W!Safe, W!Through, W!Succeeded, W!Holds, AtTarget
    <2>4. Per(p)'
      BY <1>1, <1>2, <1>3, <2>2, <2>3, Same DEF Per, Tied, Proven, Blameless
    <2>5. Decided' /\ Typed'
      BY <1>1, <1>2, <2>1, <2>2 DEF Decided, Typed
    <2>6. RefusedForAReason'
      BY <1>0, <1>1, <1>2, <2>1 DEF RefusedForAReason
    <2>. QED
      BY <1>3, <1>5, <2>4, <2>5, <2>6 DEF Inv
  <1>8. CASE code[p] # Writer!EX_OK
    <2>1. Finish(p, "FAIL")
      BY <1>8 DEF SetDone
    <2>2. /\ stage' \in [Proc -> Stage] /\ stage'[p] = "idle" /\ goal' \in [Proc -> Target]
          /\ reb' \in [Proc -> BOOLEAN] /\ passed' = passed
      BY <1>2, <2>1, FinishFacts
    <2>3. Per(p)'
      BY <1>3, <2>2, Rested
    <2>4. Decided' /\ Typed'
      BY <1>1, <1>2, <2>2 DEF Decided, Typed
    <2>5. sound => p \in hurt
      <3>1. sound => W!Convergeable(p)
        BY <1>1, <1>2 DEF Per, Blameless
      <3>. QED
        BY <1>1, <1>8, <3>1, SameEnds DEF Inv, W!Known, W!Faithful
    <2>6. RefusedForAReason'
      BY <1>0, <1>1, <2>5 DEF RefusedForAReason
    <2>. QED
      BY <1>3, <1>5, <2>3, <2>4, <2>6 DEF Inv
  <1>. QED
    BY <1>7, <1>8

LEMMA CheckStep ==
    ASSUME Exclusive, Inv, NEW p \in Proc, Check(p)
    PROVE  Inv'
  <1>1. UNCHANGED <<stage, goal, reb, slot, up, ended, passed, sound, troubled>> /\ stage[p] = "check"
    BY DEF Check, slotVars
  <1>2. Typed /\ Per(p) /\ goal[p] \in Target
    BY DEF Inv, Typed
  <1>3. /\ W!Known' /\ media' = media /\ op'[p] = Command(FALSE, goal[p]) /\ base'[p] = media
        /\ pc'[p] \in {"pre", "exit"} /\ \A q \in Proc \ {p} : pc'[q] = pc[q]
    BY <1>2, CommandTyped, StartFacts DEF Check, Inv
  <1>4. (\A q \in Proc \ {p} : stage'[q] = "idle" /\ Per(q)') /\ One'
    BY <1>1, <1>3, Others DEF Inv
  <1>5. Tied(p)'
    BY <1>1, <1>2, <1>3, CommandTyped, Same DEF Per, Tied
  <1>6. Proven(p)' /\ Blameless(p)'
    BY <1>1, <1>2, <1>3, Same DEF Per, Proven, Blameless
  <1>7. Decided' /\ Typed' /\ RefusedForAReason'
    BY <1>1, <1>3, Same DEF Inv, Decided, Typed, RefusedForAReason
  <1>. QED
    BY <1>3, <1>4, <1>5, <1>6, <1>7 DEF Inv, Per

(* The status of the second rt3bcwrite. *)
LEMMA CheckDoneStep ==
    ASSUME Exclusive, Inv, NEW p \in Proc, CheckDone(p)
    PROVE  Inv'
  <1>1. UNCHANGED <<slot, up, sound>> /\ stage[p] = "check" /\ pc[p] = "exit"
    BY DEF CheckDone
  <1>0. ~troubled' => ~troubled /\ p \notin hurt
    <2>1. troubled' = (troubled \/ p \in hurt)
      BY DEF CheckDone
    <2>. QED
      BY <2>1, Zenon
  <1>2. Typed /\ Per(p) /\ RefusedForAReason /\ goal[p] \in Target /\ AtTarget(goal[p])
    BY <1>1 DEF Inv, Typed, Per, Tied
  <1>3. /\ W!Known' /\ media' = media /\ pc'[p] = "idle"
        /\ \A q \in Proc \ {p} : pc'[q] = pc[q]
    BY ReapFacts DEF Inv, CheckDone
  <1>4. /\ stage' \in [Proc -> Stage] /\ stage'[p] \in {"idle", "final"}
        /\ goal' \in [Proc -> Target] /\ reb' \in [Proc -> BOOLEAN]
        /\ (stage'[p] = "final" => goal' = goal)
        /\ \A q \in Proc \ {p} : stage'[q] = stage[q]
    <2>1. Move(p, "final") \/ \E how \in {"PASS", "FAIL"} : Finish(p, how)
      BY DEF CheckDone
    <2>2. "final" \in Stage
      BY DEF Stage
    <2>3. CASE Move(p, "final")
      BY <1>2, <2>2, <2>3, MoveFacts DEF Typed
    <2>. QED
      BY <1>2, <2>1, <2>3, FinishFacts
  <1>5. (\A q \in Proc \ {p} : stage'[q] = "idle" /\ Per(q)') /\ One'
    BY <1>1, <1>3, <1>4, Others DEF Inv
  <1>6. Per(p)'
    BY <1>1, <1>2, <1>3, <1>4, Same DEF Per, Tied, Proven, Blameless
  <1>7. passed' \in {passed, goal[p]}
    BY <1>2, FinishFacts DEF CheckDone
  <1>8. Decided' /\ Typed'
    <2>1. \A q \in Proc : stage'[q] \notin {"set", "manual"}
      BY <1>4, <1>5
    <2>2. passed' # "none" => AtTarget(passed')
      BY <1>2, <1>7 DEF Inv, Decided
    <2>3. passed' # "none" => AtTarget(passed)'
      BY <1>1, <1>3, <2>2 DEF AtTarget
    <2>. QED
      BY <1>1, <1>2, <1>4, <1>7, <2>1, <2>3 DEF Decided, Typed
  <1>9. code[p] # Writer!EX_OK => p \in hurt
    <2>1. /\ op[p] = Command(FALSE, goal[p]) /\ base[p] = media
          /\ ~op[p].set /\ op[p].want = Want(goal[p])
      BY <1>1, <1>2, CommandTyped DEF Per, Tied
    <2>2. W!Convergeable(p)
      BY <1>2, <2>1 DEF W!Convergeable, AtTarget
    <2>. QED
      BY <1>1, <2>2, SameEnds DEF Inv, W!Known, W!Faithful
  <1>10. RefusedForAReason'
    <2>1. CASE code[p] # Writer!EX_OK
      BY <1>0, <1>9, <2>1 DEF RefusedForAReason
    <2>2. CASE code[p] = Writer!EX_OK /\ ~reb[p]
      BY <1>2, <2>2, FinishFacts DEF CheckDone, RefusedForAReason
    <2>3. CASE code[p] = Writer!EX_OK /\ reb[p]
      BY <1>0, <1>1, <1>2, <2>3 DEF CheckDone, RefusedForAReason
    <2>. QED
      BY <2>1, <2>2, <2>3
  <1>. QED
    BY <1>3, <1>5, <1>6, <1>8, <1>10 DEF Inv

LEMMA DownStep ==
    ASSUME Inv, NEW s \in [Mtd -> Slot15 \cup Slot16], Down(s)
    PROVE  Inv'
  <1>1. W!Known' /\ media' = media /\ \A p \in Proc : pc'[p] = "idle"
    BY RestartFacts DEF Inv, Down
  <1>2. /\ stage' = [p \in Proc |-> "idle"] /\ goal' = [p \in Proc |-> "oem"]
        /\ reb' = [p \in Proc |-> FALSE]
        /\ slot' = s /\ up' = "off" /\ ended' = "none" /\ passed' = passed
    BY DEF Down
  <1>3. \A p \in Proc : Per(p)'
    BY <1>1, <1>2, Rested
  <1>4. Typed'
    BY <1>2 DEF Inv, Typed, Stage, Target
  <1>5. Decided'
    BY <1>1, <1>2 DEF Inv, Decided, AtTarget
  <1>. QED
    BY <1>1, <1>2, <1>3, <1>4, <1>5 DEF Inv, One, RefusedForAReason

LEMMA FinalStep ==
    ASSUME Inv, NEW p \in Proc, Final(p)
    PROVE  Inv'
  <1>1. CASE Down(slot)
    BY <1>1, DownStep DEF Inv, Typed
  <1>2. CASE /\ Finish(p, "FAIL") /\ troubled' = TRUE
             /\ UNCHANGED writerVars /\ UNCHANGED <<slot, up, sound>>
    <2>1. stage[p] = "final" /\ Typed /\ pc[p] = "idle"
      BY DEF Final, Inv, Per, Tied
    <2>2. /\ stage' \in [Proc -> Stage] /\ stage'[p] = "idle" /\ goal' \in [Proc -> Target]
          /\ reb' \in [Proc -> BOOLEAN] /\ passed' = passed
          /\ \A q \in Proc \ {p} : stage'[q] = stage[q]
      BY <1>2, <2>1, FinishFacts
    <2>3. UNCHANGED <<media, pc, op, cur, sel, img, code, wrote, base, hurt>>
      BY <1>2 DEF writerVars
    <2>4. Per(p)'
      BY <2>1, <2>2, <2>3, Rested
    <2>5. RefusedForAReason'
      BY <1>2 DEF RefusedForAReason
    <2>. QED
      BY <1>2, <2>1, <2>2, <2>3, <2>4, <2>5, Beside
  <1>. QED
    BY <1>1, <1>2 DEF Final

LEMMA WriterStepStep ==
    ASSUME Exclusive, Inv, NEW p \in Proc, WriterStep(p)
    PROVE  Inv'
  <1>1. UNCHANGED <<stage, goal, reb, slot, up, ended, passed, sound, troubled>>
    BY DEF WriterStep, slotVars
  <1>2. Typed /\ Per(p) /\ goal[p] \in Target
    BY DEF Inv, Typed
  <1>3. pc[p] # "idle" /\ ~op[p].reboot
    <2>1. pc[p] # "idle"
      BY SameSteps DEF WriterStep, W!Step, W!Pre, W!Decide, W!Load, W!Erase, W!Head, W!Tail,
         W!Readback, W!Post, W!Confirm, W!Done
    <2>. QED
      BY <1>2, <2>1 DEF Per, Tied
  <1>4. /\ W!Known' /\ UNCHANGED <<op, base>> /\ pc'[p] # "idle"
        /\ \A q \in Proc \ {p} : pc'[q] = pc[q]
        /\ ~op[p].set /\ pc[p] \in {"pre", "decide"} =>
              media' = media /\ pc'[p] \in {"pre", "decide", "exit"}
        /\ pc[p] # "exit"
    BY <1>3, StepFacts DEF Inv, WriterStep
  <1>5. stage[p] \in {"set", "check", "manual"}
    BY <1>2, <1>3 DEF Per, Tied
  <1>6. (\A q \in Proc \ {p} : stage'[q] = "idle" /\ Per(q)') /\ One'
    BY <1>1, <1>4, <1>5, Others DEF Inv
  <1>7. stage[p] = "check" => media' = media /\ pc'[p] \in {"pre", "decide", "exit"}
    BY <1>2, <1>3, <1>4, CommandTyped DEF Per, Tied
  <1>8. Tied(p)'
    <2>1. /\ stage'[p] = stage[p] /\ goal'[p] = goal[p] /\ op'[p] = op[p]
          /\ pc'[p] # "idle" /\ ~op'[p].reboot
      BY <1>1, <1>3, <1>4
    <2>2. CASE stage[p] = "set"
      BY <1>2, <2>1, <2>2 DEF Per, Tied
    <2>3. CASE stage[p] = "manual"
      BY <1>2, <2>1, <2>3 DEF Per, Tied
    <2>4. CASE stage[p] = "check"
      <3>1. /\ AtTarget(goal[p]) /\ op[p] = Command(FALSE, goal[p]) /\ base[p] = media
            /\ media' = media /\ base' = base /\ pc'[p] \in {"pre", "decide", "exit"}
        BY <1>2, <1>3, <1>4, <1>7, <2>4 DEF Per, Tied
      <3>2. AtTarget(goal[p])'
        BY <1>1, <3>1 DEF AtTarget
      <3>. QED
        BY <2>1, <2>4, <3>1, <3>2 DEF Tied, Command, Want
    <2>. QED
      BY <1>5, <2>2, <2>3, <2>4
  <1>9. Proven(p)'
    BY <1>1, <1>2 DEF Per, Proven, Suitable
  <1>10. Blameless(p)'
    <2>1. W!Convergeable(p)' <=> W!Convergeable(p)
      BY <1>4 DEF W!Convergeable
    <2>. QED
      BY <1>1, <1>2, <1>5, <2>1 DEF Per, Blameless
  <1>11. Decided'
    BY <1>1, <1>5, <1>7, Same DEF Inv, Decided
  <1>. QED
    BY <1>1, <1>4, <1>6, <1>8, <1>9, <1>10, <1>11 DEF Inv, Per, Typed, RefusedForAReason

LEMMA ManualStep ==
    ASSUME Exclusive, Inv, NEW p \in Proc, Manual(p)
    PROVE  Inv'
  <1>1. PICK o \in Writer!Op : o.set /\ ~o.reboot /\ Writer!Start(p, o)
    BY DEF Manual
  <1>2. /\ UNCHANGED <<slot, up, sound, troubled>> /\ passed' = "none" /\ ended' = "none"
        /\ Move(p, "manual") /\ \A q \in Proc : stage[q] = "idle"
    BY DEF Manual
  <1>3. /\ W!Known' /\ op'[p] = o /\ \A q \in Proc \ {p} : pc'[q] = pc[q]
    BY <1>1, SameEnds, StartFacts DEF Inv
  <1>4. /\ stage' \in [Proc -> Stage] /\ stage'[p] = "manual" /\ UNCHANGED <<goal, reb>>
        /\ \A q \in Proc \ {p} : stage'[q] = stage[q]
    BY <1>2, MoveFacts DEF Inv, Stage
  <1>5. (\A q \in Proc \ {p} : stage'[q] = "idle" /\ Per(q)') /\ One'
    BY <1>2, <1>3, <1>4, Others DEF Inv
  <1>6. Per(p)'
    BY <1>1, <1>3, <1>4 DEF Per, Tied, Proven, Blameless
  <1>. QED
    BY <1>2, <1>3, <1>4, <1>5, <1>6 DEF Inv, Typed, Decided, RefusedForAReason

LEMMA ManualDoneStep ==
    ASSUME Exclusive, Inv, NEW p \in Proc, ManualDone(p)
    PROVE  Inv'
  <1>1. /\ UNCHANGED <<slot, up, ended, passed, sound, troubled>> /\ stage[p] = "manual"
        /\ Move(p, "idle") /\ passed = "none"
    BY DEF ManualDone, Inv, Decided
  <1>2. /\ W!Known' /\ pc'[p] = "idle" /\ \A q \in Proc \ {p} : pc'[q] = pc[q]
    BY ReapFacts DEF Inv, ManualDone
  <1>3. /\ stage' \in [Proc -> Stage] /\ stage'[p] = "idle" /\ UNCHANGED <<goal, reb>>
        /\ \A q \in Proc \ {p} : stage'[q] = stage[q]
    BY <1>1, MoveFacts DEF Inv, Stage
  <1>4. (\A q \in Proc \ {p} : stage'[q] = "idle" /\ Per(q)') /\ One'
    BY <1>1, <1>2, <1>3, Others DEF Inv
  <1>5. Per(p)'
    BY <1>2, <1>3, Rested
  <1>. QED
    BY <1>1, <1>2, <1>3, <1>4, <1>5 DEF Inv, Typed, Decided, RefusedForAReason

(* What happens between boots, while no session is under way.              *)
LEMMA BoardStep ==
    ASSUME Inv, Install \/ Boot \/ UNCHANGED vars
    PROVE  Inv'
  <1>1. /\ UNCHANGED <<media, pc, op, cur, sel, img, code, wrote, base, hurt,
                       stage, goal, reb, ended, passed, sound, troubled>>
        /\ W!Known'
    <2>1. UNCHANGED <<media, pc, op, cur, sel, img, code, wrote, base, hurt,
                      stage, goal, reb, ended, passed, sound, troubled>>
      BY DEF Install, Boot, writerVars, vars
    <2>. QED
      BY <2>1, KnownKept DEF Inv
  <1>2. Decided' /\ One' /\ RefusedForAReason'
    BY <1>1 DEF Inv, Decided, One, RefusedForAReason, AtTarget
  <1>3. \A p \in Proc : Tied(p)'
    BY <1>1 DEF Inv, Per, Tied, AtTarget
  <1>4. Typed'
    <2>1. slot' \in [Mtd -> Slot15 \cup Slot16]
      BY DEF Inv, Typed, Install, Boot, vars
    <2>2. up' \in Mtd \cup {OEM, "off"}
      BY DEF Inv, Typed, Install, Boot, Selected, Mtd, vars
    <2>. QED
      BY <1>1, <2>1, <2>2 DEF Inv, Typed
  <1>5. \A p \in Proc : Proven(p)' /\ Blameless(p)'
    <2>1. CASE Install \/ Boot
      <3>1. up \notin Mtd
        BY <2>1, OemAssumption DEF Install, Boot, Mtd
      <3>2. \A p \in Proc : stage'[p] \in {"idle", "manual"}
        BY <1>1, <3>1 DEF Inv, Per, Proven
      <3>. QED
        BY <3>2 DEF Proven, Blameless
    <2>2. CASE UNCHANGED vars
      <3>1. UNCHANGED <<slot, up>>
        BY <2>2 DEF vars
      <3>. QED
        BY <1>1, <3>1, Same DEF Inv, Per, Proven, Blameless, W!Convergeable
    <2>. QED
      BY <2>1, <2>2
  <1>. QED
    BY <1>1, <1>2, <1>3, <1>4, <1>5 DEF Inv, Per

LEMMA InitInv == Init => Inv
  <1>. SUFFICES ASSUME Init PROVE Inv
    OBVIOUS
  <1>1. W!Known
    BY SameEnds, W!InitKnown, SelectorAssumption, RestAssumption, ExclusiveAssumption DEF Init
  <1>2. \A p \in Proc : stage[p] = "idle" /\ pc[p] = "idle"
    BY SameEnds DEF Init, W!Init
  <1>3. Typed
    BY DEF Init, Typed, Stage, Target
  <1>4. \A p \in Proc : Per(p)
    BY <1>2 DEF Per, Tied, Proven, Blameless
  <1>. QED
    BY <1>1, <1>2, <1>3, <1>4 DEF Init, Inv, One, Decided, RefusedForAReason

LEMMA NextInv ==
    ASSUME Exclusive, Inv, [Next]_vars,
           NEW B, Pad \in B, \A c \in Slot15 \cup Slot16 : HoldsBytes(c, B)
    PROVE  Inv'
  <1>1. ASSUME Upgrade PROVE Inv'
    <2>1. PICK c \in Slot15 \cup Slot16 : Down([slot EXCEPT ![up] = c])
      BY <1>1 DEF Upgrade
    <2>2. [slot EXCEPT ![up] = c] \in [Mtd -> Slot15 \cup Slot16]
      BY <1>1 DEF Inv, Typed
    <2>. QED
      BY <2>1, <2>2, DownStep
  <1>2. ASSUME PowerCut PROVE Inv'
    BY <1>2, DownStep DEF PowerCut, Inv, Typed
  <1>. QED
    BY <1>1, <1>2, BeginStep, VerifyStep, DependsStep, SetStep, SetDoneStep, CheckStep, CheckDoneStep,
       FinalStep, WriterStepStep, ManualStep, ManualDoneStep, BoardStep DEF Next, Session

(* The contents of slots and manifests are bytes, of any kind.             *)
Bytewise == \E B : Pad \in B /\ \A c \in Slot15 \cup Slot16 : HoldsBytes(c, B)

LEMMA InvAlways ==
    ASSUME Exclusive, Bytewise
    PROVE  Spec => []Inv
  <1>1. ASSUME Inv, [Next]_vars PROVE Inv'
    <2>1. PICK B : Pad \in B /\ \A c \in Slot15 \cup Slot16 : HoldsBytes(c, B)
      BY DEF Bytewise
    <2>. QED
      BY <1>1, <2>1, NextInv
  <1>. QED
    BY InitInv, <1>1, PTL DEF Spec

-----------------------------------------------------------------------------
(* A switch aims only at a slot that holds what was verified, whatever the *)
(* slots may contain and however often sessions are cut off: rt3release    *)
(* reads the running slot, and the label test of rt3slot makes that slot   *)
(* the target.                                                             *)
THEOREM VerifiedOnly ==
    ASSUME Exclusive, Bytewise
    PROVE  Spec => []OnlyVerifiedSelected
  <1>1. Inv => OnlyVerifiedSelected
    BY DEF Inv, Per, Proven, OnlyVerifiedSelected
  <1>. QED
    BY InvAlways, <1>1, PTL

(* What a PASS reports stays true until the selector is written again: the *)
(* selector writer of BootSelector, verified apart, is all that stands     *)
(* between the two (rt3slot, rt3bcwrite --set and --verify-only).          *)
THEOREM ReportHolds ==
    ASSUME Exclusive, Bytewise
    PROVE  Spec => []PassDecidesNextBoot
  <1>1. Inv => PassDecidesNextBoot
    BY SameEnds DEF Inv, Decided, AtTarget, PassDecidesNextBoot
  <1>. QED
    BY InvAlways, <1>1, PTL

(* A switch to a slot in which nothing is wrong, from copies in which      *)
(* nothing is wrong, is refused only when one of its own commands failed.  *)
THEOREM RefusalsExplained ==
    ASSUME Exclusive, Bytewise
    PROVE  Spec => []RefusedForAReason
  <1>1. Inv => RefusedForAReason
    BY DEF Inv
  <1>. QED
    BY InvAlways, <1>1, PTL

-----------------------------------------------------------------------------
(* The writer inside the switch is the writer that was verified alone:     *)
(* sessions, manual invocations, upgrades, restarts and power cuts ask     *)
(* nothing of rt3bcwrite that BootSelector does not let its callers do.    *)
(* It needs neither Exclusive nor Bytewise.                                *)

Hosted == W!TypeOK /\ W!Forgotten /\ goal \in [Proc -> Target]

LEMMA SameNext == Writer!Next <=> W!Next
  BY SameSteps, SameStart, SameEnds DEF Writer!Next, W!Next, Writer!PowerCut, W!PowerCut

LEMMA SameOp == Writer!Op = W!Op
  BY SameEnds

LEMMA InitHosted == Init => Writer!Init /\ Hosted
  <1>. SUFFICES ASSUME Init PROVE Writer!Init /\ Hosted
    OBVIOUS
  <1>1. W!Init
    BY SameEnds DEF Init
  <1>2. W!TypeOK
    BY <1>1, W!InitKnown, SelectorAssumption, RestAssumption, ExclusiveAssumption DEF W!Known
  <1>3. W!Forgotten
    BY <1>1, W!InitForgotten, SelectorAssumption, RestAssumption, ExclusiveAssumption
  <1>. QED
    BY <1>2, <1>3 DEF Init, Hosted, Target

LEMMA WriterOrRest ==
    ASSUME Hosted, [Next]_vars
    PROVE  [W!Next]_writerVars /\ goal' \in [Proc -> Target]
  <1>1. ASSUME NEW p \in Proc, NEW t \in Target, NEW r \in BOOLEAN, Begin(p, t, r)
        PROVE  UNCHANGED writerVars /\ goal' \in [Proc -> Target]
    BY <1>1 DEF Begin, Hosted
  <1>2. ASSUME NEW p \in Proc, VerifyTarget(p) \/ Depends(p)
        PROVE  UNCHANGED writerVars /\ goal' \in [Proc -> Target]
    BY <1>2 DEF VerifyTarget, Depends, Move, Finish, Hosted, Target
  <1>3. ASSUME NEW p \in Proc, NEW b \in BOOLEAN, Writer!Start(p, Command(b, goal[p]))
        PROVE  W!Next
    <2>1. Command(b, goal[p]) \in W!Op
      BY CommandTyped DEF Hosted
    <2>2. W!Start(p, Command(b, goal[p]))
      BY <1>3, SameStart
    <2>. QED
      BY <2>1, <2>2 DEF W!Next
  <1>4. ASSUME NEW p \in Proc, Writer!Reap(p) PROVE W!Next
    BY <1>4, SameEnds DEF W!Next
  <1>5. ASSUME NEW p \in Proc, Set(p)
        PROVE  [W!Next]_writerVars /\ goal' \in [Proc -> Target]
    <2>1. goal' \in [Proc -> Target]
      BY <1>5 DEF Set, Move, Finish, Hosted, Target
    <2>2. Writer!Start(p, Command(TRUE, goal[p])) \/ UNCHANGED writerVars
      BY <1>5 DEF Set
    <2>. QED
      BY <2>1, <2>2, <1>3
  <1>6. ASSUME NEW p \in Proc, SetDone(p) \/ CheckDone(p)
        PROVE  W!Next /\ goal' \in [Proc -> Target]
    <2>1. Writer!Reap(p) /\ goal' \in [Proc -> Target]
      BY <1>6 DEF SetDone, CheckDone, Move, Finish, Hosted, Target
    <2>. QED
      BY <2>1, <1>4
  <1>7. ASSUME NEW p \in Proc, Check(p)
        PROVE  W!Next /\ goal' \in [Proc -> Target]
    <2>1. Writer!Start(p, Command(FALSE, goal[p])) /\ goal' = goal
      BY <1>7 DEF Check, slotVars
    <2>. QED
      BY <2>1, <1>3 DEF Hosted
  <1>8. ASSUME NEW s, Down(s)
        PROVE  [W!Next]_writerVars /\ goal' \in [Proc -> Target]
    <2>1. W!Restart /\ goal' \in [Proc -> Target]
      BY <1>8, SameEnds DEF Down, Target
    <2>2. [W!Next]_(W!vars)
      BY <2>1, W!AnyRestart, SelectorAssumption, RestAssumption, ExclusiveAssumption DEF Hosted
    <2>. QED
      BY <2>1, <2>2 DEF W!vars, writerVars
  <1>9. ASSUME NEW p \in Proc, Final(p)
        PROVE  [W!Next]_writerVars /\ goal' \in [Proc -> Target]
    <2>1. CASE Down(slot)
      BY <2>1, <1>8
    <2>2. CASE Finish(p, "FAIL") /\ UNCHANGED writerVars
      BY <2>2 DEF Finish, Hosted, Target
    <2>. QED
      BY <1>9, <2>1, <2>2 DEF Final
  <1>10. ASSUME NEW p \in Proc, WriterStep(p)
         PROVE  W!Next /\ goal' \in [Proc -> Target]
    BY <1>10, SameSteps DEF WriterStep, slotVars, W!Next, Hosted
  <1>11. ASSUME NEW p \in Proc, Manual(p)
         PROVE  W!Next /\ goal' \in [Proc -> Target]
    <2>1. PICK o \in W!Op : Writer!Start(p, o)
      BY <1>11, SameOp DEF Manual
    <2>2. goal' = goal
      BY <1>11 DEF Manual, Move
    <2>. QED
      BY <2>1, <2>2, SameStart DEF W!Next, Hosted
  <1>12. ASSUME NEW p \in Proc, ManualDone(p)
         PROVE  W!Next /\ goal' \in [Proc -> Target]
    BY <1>12, <1>4 DEF ManualDone, Move, Hosted
  <1>13. CASE Upgrade \/ PowerCut
    BY <1>13, <1>8 DEF Upgrade, PowerCut
  <1>14. CASE Install \/ Boot \/ UNCHANGED vars
    BY <1>14 DEF Install, Boot, vars, writerVars, Hosted
  <1>. QED
    BY <1>1, <1>2, <1>5, <1>6, <1>7, <1>9, <1>10, <1>11, <1>12, <1>13, <1>14 DEF Next, Session

LEMMA HostedStep ==
    ASSUME Hosted, [Next]_vars
    PROVE  Hosted'
  <1>1. [W!Next]_(W!vars) /\ goal' \in [Proc -> Target]
    BY WriterOrRest DEF W!vars, writerVars
  <1>2. W!TypeOK'
    BY <1>1, W!TypeStep, SelectorAssumption, RestAssumption, ExclusiveAssumption DEF Hosted
  <1>3. W!Forgotten'
    BY <1>1, W!ForgottenStep, SelectorAssumption, RestAssumption, ExclusiveAssumption DEF Hosted
  <1>. QED
    BY <1>1, <1>2, <1>3 DEF Hosted

(* Every behaviour of the board is, seen through the variables of the      *)
(* writer, a behaviour of rt3bcwrite as BootSelector specifies it.         *)
THEOREM RunsTheWriter == Spec => Writer!Spec
  <1>1. Hosted /\ [Next]_vars => [Writer!Next]_(Writer!vars)
    BY WriterOrRest, SameNext DEF Writer!vars, writerVars
  <1>. QED
    BY <1>1, InitHosted, HostedStep, PTL DEF Spec, Writer!Spec

(* So every theorem about the writer alone is one about the board.         *)
LEMMA SameSpec == Writer!Spec => W!Spec
  <1>1. Writer!Init => W!Init
    BY SameEnds
  <1>2. [Writer!Next]_(Writer!vars) => [W!Next]_(W!vars)
    BY SameNext DEF Writer!vars, W!vars
  <1>. QED
    BY <1>1, <1>2, PTL DEF Writer!Spec, W!Spec

(* The boot loader finds a copy it can parse whatever sessions, upgrades,  *)
(* power cuts and repairs by hand come together, as long as two            *)
(* invocations of rt3bcwrite do not overlap.                               *)
THEOREM BoardNeverBricks ==
    ASSUME Exclusive
    PROVE  Spec => []Writer!OneCopyValid
  <1>1. W!Spec => []W!OneCopyValid
    BY W!NeverBricks, SelectorAssumption, RestAssumption, ExclusiveAssumption
  <1>2. W!OneCopyValid => Writer!OneCopyValid
    BY DEF W!OneCopyValid, Writer!OneCopyValid, W!Copy, Writer!Copy
  <1>. QED
    BY <1>1, <1>2, RunsTheWriter, SameSpec, PTL

(* What the boot loader sees of the copies, over the life of the board,    *)
(* obeys the abstract promise of DualCopy.                                 *)
THEOREM BoardKeepsPromise ==
    ASSUME Exclusive
    PROVE  Spec => W!ImplementsDualCopy
  <1>1. W!Spec => W!ImplementsDualCopy
    BY W!Refinement, SelectorAssumption, RestAssumption, ExclusiveAssumption
  <1>. QED
    BY <1>1, RunsTheWriter, SameSpec, PTL

(* Whenever both slots hold something that boots, the boot loader can      *)
(* start the board: the copy it parses selects a system.                   *)
CanBoot == \E c \in Writer!Copy : media[c].ok /\ slot[Selected(c)].system # "none"

THEOREM BoardCanBoot ==
    ASSUME Exclusive
    PROVE  Spec => []((\A m \in Mtd : slot[m].system # "none") => CanBoot)
  <1>1. Writer!OneCopyValid => ((\A m \in Mtd : slot[m].system # "none") => CanBoot)
    BY DEF Writer!OneCopyValid, CanBoot, Selected, Mtd
  <1>. QED
    BY <1>1, BoardNeverBricks, PTL

(* What a PASS announces (next_boot_target) is what happens: a boot that   *)
(* follows, with nobody at the selector between, takes the system of the   *)
(* target slot, and no other, whichever copy the boot loader reads.        *)
SlotOf(t) == IF t = "oem" THEN "mtd15" ELSE "mtd16"

PassIsNextBoot ==
    [][Boot /\ passed # "none" =>
          /\ slot[SlotOf(passed)].system # "none"
          /\ up' = IF slot[SlotOf(passed)].system = "QSDK" THEN SlotOf(passed) ELSE OEM]_vars

THEOREM PassDelivered ==
    ASSUME Exclusive, Bytewise
    PROVE  Spec => PassIsNextBoot
  <1>1. ASSUME Inv, Boot, passed # "none"
        PROVE  /\ slot[SlotOf(passed)].system # "none"
               /\ up' = IF slot[SlotOf(passed)].system = "QSDK" THEN SlotOf(passed) ELSE OEM
    <2>1. PICK c \in Writer!Copy :
              /\ slot[Selected(c)].system # "none"
              /\ up' = IF slot[Selected(c)].system = "QSDK" THEN Selected(c) ELSE OEM
      BY <1>1 DEF Boot
    <2>2. media[c].sel = Want(passed) /\ passed \in Target
      BY <1>1, SameEnds DEF Inv, Typed, Decided, AtTarget
    <2>3. Selected(c) = SlotOf(passed)
      BY <2>2 DEF Selected, SlotOf, Want, Target
    <2>. QED
      BY <2>1, <2>3
  <1>2. Inv => [Boot /\ passed # "none" =>
          /\ slot[SlotOf(passed)].system # "none"
          /\ up' = IF slot[SlotOf(passed)].system = "QSDK" THEN SlotOf(passed) ELSE OEM]_vars
    BY <1>1
  <1>. QED
    BY <1>2, InvAlways, PTL DEF PassIsNextBoot

-----------------------------------------------------------------------------
(* A session only goes forward.  Counted from its end, every step of it or *)
(* of the rt3bcwrite it waits for is nearer, and nothing that happens      *)
(* meanwhile sends it back: with a scheduler that lets it run, it ends.    *)

Rounds(s) ==
    CASE s = "verify" -> 6 [] s = "identity" -> 5 [] s = "sync" -> 4 [] s = "set" -> 3
      [] s = "check" -> 2 [] s \in {"final", "manual"} -> 1 [] s = "idle" -> 0

(* The second rt3bcwrite of a session is still to come.                    *)
SessionLeft(p) ==
    20 * Rounds(stage[p]) + IF stage[p] = "check" /\ pc[p] = "idle" THEN 18 ELSE W!StepsLeft(p)

SessionsAdvance ==
    /\ [](\A p \in Proc : SessionLeft(p) \in 0..137)
    /\ [][\A p \in Proc : stage[p] # "idle" =>
          /\ SessionLeft(p)' <= SessionLeft(p)
          /\ Running(p) \/ ManualDone(p) => SessionLeft(p)' < SessionLeft(p)]_vars

LEMMA RoundsAt ==
    /\ Rounds("verify") = 6 /\ Rounds("identity") = 5 /\ Rounds("sync") = 4 /\ Rounds("set") = 3
    /\ Rounds("check") = 2 /\ Rounds("final") = 1 /\ Rounds("manual") = 1 /\ Rounds("idle") = 0
  BY DEF Rounds

(* No invocation the board runs was told to restart it.                    *)
NoReboot == \A p \in Proc : ~op[p].reboot

Advancing == Hosted /\ W!Ordered /\ NoReboot /\ stage \in [Proc -> Stage]

LEMMA InitAdvancing == Init => Advancing
  <1>. SUFFICES ASSUME Init PROVE Advancing
    OBVIOUS
  <1>1. Hosted /\ W!Init
    BY InitHosted, SameEnds DEF Init
  <1>2. W!Ordered
    BY <1>1, W!InitOrdered, SelectorAssumption, RestAssumption, ExclusiveAssumption
  <1>. QED
    BY <1>1, <1>2 DEF Advancing, NoReboot, Init, Stage, W!Init, W!NoOp

LEMMA NoRebootStep ==
    ASSUME Advancing, [Next]_vars
    PROVE  NoReboot'
  <1>0. W!TypeOK
    BY DEF Advancing, Hosted
  <1>1. ASSUME NEW p \in Proc, NEW o, ~o.reboot, Writer!Start(p, o) PROVE NoReboot'
    BY <1>0, <1>1, SameStart DEF Advancing, NoReboot, W!Start, W!TypeOK
  <1>2. ASSUME NEW p \in Proc, Writer!Reap(p) PROVE NoReboot'
    <2>1. op' = [op EXCEPT ![p] = W!NoOp]
      BY <1>2, SameEnds DEF W!Reap
    <2>2. ~W!NoOp.reboot
      BY DEF W!NoOp
    <2>. QED
      BY <1>0, <2>1, <2>2 DEF Advancing, NoReboot, W!TypeOK
  <1>3. ASSUME Writer!Restart PROVE NoReboot'
    BY <1>3, SameEnds DEF NoReboot, W!Restart, W!NoOp
  <1>4. ASSUME NEW p \in Proc, Writer!Step(p) PROVE NoReboot'
    <2>1. op' = op
      BY <1>0, <1>4, SameSteps, W!Persists, SelectorAssumption, RestAssumption, ExclusiveAssumption
         DEF Advancing, NoReboot
    <2>. QED
      BY <2>1 DEF Advancing, NoReboot
  <1>5. ASSUME op' = op PROVE NoReboot'
    BY <1>5 DEF Advancing, NoReboot
  <1>6. ASSUME NEW p \in Proc, Session(p) PROVE NoReboot'
    <2>1. CASE VerifyTarget(p) \/ Depends(p)
      BY <1>5, <2>1 DEF VerifyTarget, Depends, writerVars
    <2>2. CASE Set(p)
      BY <1>1, <1>5, <2>2 DEF Set, writerVars, Command
    <2>3. CASE SetDone(p) \/ CheckDone(p)
      BY <1>2, <2>3 DEF SetDone, CheckDone
    <2>4. CASE Check(p)
      BY <1>1, <2>4 DEF Check, Command
    <2>5. CASE Final(p)
      BY <1>3, <1>5, <2>5 DEF Final, Down, writerVars
    <2>. QED
      BY <1>6, <2>1, <2>2, <2>3, <2>4, <2>5 DEF Session
  <1>7. ASSUME NEW p \in Proc, Manual(p) PROVE NoReboot'
    BY <1>1, <1>7 DEF Manual
  <1>8. ASSUME NEW p \in Proc, WriterStep(p) \/ ManualDone(p) PROVE NoReboot'
    BY <1>2, <1>4, <1>8 DEF WriterStep, ManualDone
  <1>9. CASE Upgrade \/ PowerCut
    BY <1>3, <1>9 DEF Upgrade, PowerCut, Down
  <1>10. CASE Install \/ Boot \/ UNCHANGED vars
    BY <1>5, <1>10 DEF Install, Boot, vars, writerVars
  <1>11. ASSUME NEW p \in Proc, NEW t \in Target, NEW r \in BOOLEAN, Begin(p, t, r) PROVE NoReboot'
    BY <1>5, <1>11 DEF Begin, writerVars
  <1>. QED
    BY <1>6, <1>7, <1>8, <1>9, <1>10, <1>11 DEF Next

LEMMA StageStep ==
    ASSUME stage \in [Proc -> Stage], [Next]_vars
    PROVE  stage' \in [Proc -> Stage]
  <1>1. ASSUME NEW p \in Proc, Session(p) PROVE stage' \in [Proc -> Stage]
    BY <1>1 DEF Session, VerifyTarget, Depends, Set, SetDone, Check, CheckDone, Final, Down,
                slotVars, Move, Finish, Stage
  <1>2. ASSUME NEW p \in Proc, NEW t, NEW r, Begin(p, t, r) PROVE stage' \in [Proc -> Stage]
    BY <1>2 DEF Begin, Stage
  <1>3. ASSUME NEW p \in Proc, WriterStep(p) \/ Manual(p) \/ ManualDone(p)
        PROVE  stage' \in [Proc -> Stage]
    BY <1>3 DEF WriterStep, slotVars, Manual, ManualDone, Move, Stage
  <1>4. CASE Upgrade \/ PowerCut \/ Install \/ Boot \/ UNCHANGED vars
    BY <1>4 DEF Upgrade, PowerCut, Down, Install, Boot, vars, Stage
  <1>. QED
    BY <1>1, <1>2, <1>3, <1>4 DEF Next

LEMMA AdvancingStep ==
    ASSUME Advancing, [Next]_vars
    PROVE  Advancing'
  <1>1. [W!Next]_(W!vars)
    BY WriterOrRest DEF Advancing, W!vars, writerVars
  <1>2. W!Ordered'
    BY <1>1, W!OrderedStep, SelectorAssumption, RestAssumption, ExclusiveAssumption DEF Advancing
  <1>. QED
    BY <1>2, HostedStep, NoRebootStep, StageStep DEF Advancing

(* The values a session's distance to its end can have.                    *)
LEMMA SessionValue ==
    ASSUME Advancing, NEW p \in Proc
    PROVE  /\ SessionLeft(p) \in Nat
           /\ stage[p] # "idle" => SessionLeft(p) > 0
           /\ W!StepsLeft(p) \in 0..17
           /\ pc[p] \in {"exit", "idle"} => W!StepsLeft(p) = 0
  <1>1. W!StepsLeft(p) \in 0..17
    BY W!StepsTyped, SelectorAssumption, RestAssumption, ExclusiveAssumption DEF Advancing, Hosted
  <1>2. cur[p] \in W!Copy
    BY DEF Advancing, Hosted, W!TypeOK
  <1>3. pc[p] \in {"exit", "idle"} => W!StepsLeft(p) = 0
    BY <1>2, W!StepsAt, SelectorAssumption, RestAssumption, ExclusiveAssumption
  <1>4. stage[p] \in Stage
    BY DEF Advancing
  <1>5. Rounds(stage[p]) \in 0..6 /\ (stage[p] # "idle" => Rounds(stage[p]) > 0)
    BY <1>4, RoundsAt DEF Stage
  <1>. QED
    BY <1>1, <1>3, <1>5 DEF SessionLeft

LEMMA StepsNext ==
    ASSUME Advancing, [Next]_vars, NEW p \in Proc
    PROVE  W!StepsLeft(p)' \in 0..17
  <1>1. W!TypeOK'
    BY HostedStep DEF Advancing, Hosted
  <1>. QED
    BY <1>1, W!StepsBoundNext, SelectorAssumption, RestAssumption, ExclusiveAssumption DEF W!Bounded

(* What a step of p does to the others: nothing.                           *)
Elsewhere(p) ==
    \A q \in Proc \ {p} : stage'[q] = stage[q] /\ pc'[q] = pc[q] /\ cur'[q] = cur[q]

LEMMA ElsewhereSame ==
    ASSUME Advancing, NEW p, Elsewhere(p), NEW q \in Proc, q # p
    PROVE  SessionLeft(q)' <= SessionLeft(q)
  <1>1. W!StepsLeft(q)' = W!StepsLeft(q)
    BY DEF Elsewhere, W!StepsLeft
  <1>2. SessionLeft(q)' = SessionLeft(q)
    BY <1>1 DEF Elsewhere, SessionLeft
  <1>3. SessionLeft(q) \in Nat
    BY SessionValue
  <1>. QED
    BY <1>2, <1>3

LEMMA DownAdvances ==
    ASSUME Advancing, NEW s, Down(s), NEW p \in Proc, stage[p] # "idle"
    PROVE  SessionLeft(p)' < SessionLeft(p)
  <1>1. stage'[p] = "idle" /\ pc'[p] = "idle"
    BY SameEnds DEF Down, W!Restart
  <1>2. W!StepsLeft(p)' = 0
    BY <1>1 DEF W!StepsLeft
  <1>3. SessionLeft(p)' = 0
    BY <1>1, <1>2, RoundsAt DEF SessionLeft
  <1>. QED
    BY <1>3, SessionValue

(* The writer's part of the steps of a session.                            *)
LEMMA WriterAside ==
    ASSUME Advancing, NEW p \in Proc
    PROVE  /\ \A o : Writer!Start(p, o) =>
                 \A q \in Proc \ {p} : pc'[q] = pc[q] /\ cur'[q] = cur[q]
           /\ Writer!Reap(p) =>
                 /\ pc[p] = "exit" /\ pc'[p] = "idle" /\ W!StepsLeft(p)' = 0
                 /\ \A q \in Proc \ {p} : pc'[q] = pc[q] /\ cur'[q] = cur[q]
           /\ Writer!Step(p) =>
                 /\ pc[p] # "idle" /\ pc'[p] # "idle" /\ W!StepsLeft(p)' < W!StepsLeft(p)
                 /\ \A q \in Proc \ {p} : pc'[q] = pc[q] /\ cur'[q] = cur[q]
  <1>0. W!TypeOK
    BY DEF Advancing, Hosted
  <1>1. ASSUME NEW o, Writer!Start(p, o)
        PROVE  \A q \in Proc \ {p} : pc'[q] = pc[q] /\ cur'[q] = cur[q]
    BY <1>0, <1>1, SameStart DEF W!TypeOK, W!Start, W!Goto, W!Finish
  <1>2. ASSUME Writer!Reap(p)
        PROVE  /\ pc[p] = "exit" /\ pc'[p] = "idle" /\ W!StepsLeft(p)' = 0
               /\ \A q \in Proc \ {p} : pc'[q] = pc[q] /\ cur'[q] = cur[q]
    <2>1. /\ pc[p] = "exit" /\ pc'[p] = "idle"
          /\ \A q \in Proc \ {p} : pc'[q] = pc[q] /\ cur'[q] = cur[q]
      BY <1>0, <1>2, SameEnds DEF W!TypeOK, W!Reap, W!Goto
    <2>. QED
      BY <2>1 DEF W!StepsLeft
  <1>3. ASSUME Writer!Step(p)
        PROVE  /\ pc[p] # "idle" /\ pc'[p] # "idle" /\ W!StepsLeft(p)' < W!StepsLeft(p)
               /\ \A q \in Proc \ {p} : pc'[q] = pc[q] /\ cur'[q] = cur[q]
    <2>1. W!Step(p) /\ ~op[p].reboot
      BY <1>3, SameSteps DEF Advancing, NoReboot
    <2>2. pc[p] # "idle" /\ pc'[p] # "idle"
      BY <1>0, <2>1, W!Persists, SelectorAssumption, RestAssumption, ExclusiveAssumption
    <2>3. /\ W!StepsLeft(p)' < W!StepsLeft(p)
          /\ \A q \in Proc \ {p} : pc'[q] = pc[q] /\ cur'[q] = cur[q]
      BY <2>1, W!LeavesOthers, SelectorAssumption, RestAssumption, ExclusiveAssumption DEF Advancing
    <2>. QED
      BY <2>2, <2>3
  <1>. QED
    BY <1>1, <1>2, <1>3

(* One step of a session: it is nearer its end, the others are where they  *)
(* were.                                                                   *)
LEMMA SessionAdvances ==
    ASSUME Advancing, [Next]_vars, NEW p \in Proc, stage[p] # "idle",
           Running(p) \/ ManualDone(p), \A s : ~Down(s)
    PROVE  SessionLeft(p)' < SessionLeft(p) /\ Elsewhere(p)
  <1>0. /\ stage \in [Proc -> Stage] /\ W!StepsLeft(p) \in 0..17 /\ W!StepsLeft(p)' \in 0..17
        /\ pc[p] \in {"exit", "idle"} => W!StepsLeft(p) = 0
    BY SessionValue, StepsNext DEF Advancing
  <1>1. CASE VerifyTarget(p)
    <2>1. /\ stage[p] = "verify" /\ stage'[p] \in {"sync", "identity", "idle"}
          /\ UNCHANGED <<pc, cur>> /\ \A q \in Proc \ {p} : stage'[q] = stage[q]
      BY <1>0, <1>1 DEF VerifyTarget, Move, Finish, writerVars
    <2>. QED
      BY <1>0, <2>1, RoundsAt DEF SessionLeft, Elsewhere
  <1>2. CASE Depends(p)
    <2>1. /\ stage[p] = "identity" /\ stage'[p] \in {"sync", "idle"}
          /\ UNCHANGED <<pc, cur>> /\ \A q \in Proc \ {p} : stage'[q] = stage[q]
      BY <1>0, <1>2 DEF Depends, Move, Finish, writerVars
    <2>. QED
      BY <1>0, <2>1, RoundsAt DEF SessionLeft, Elsewhere
  <1>3. CASE Set(p)
    <2>1. /\ stage[p] = "sync" /\ stage'[p] \in {"set", "idle"}
          /\ \A q \in Proc \ {p} : stage'[q] = stage[q]
      BY <1>0, <1>3 DEF Set, Move, Finish
    <2>2. \A q \in Proc \ {p} : pc'[q] = pc[q] /\ cur'[q] = cur[q]
      BY <1>3, WriterAside DEF Set, writerVars
    <2>. QED
      BY <1>0, <2>1, <2>2, RoundsAt DEF SessionLeft, Elsewhere
  <1>4. CASE SetDone(p)
    <2>1. /\ stage[p] = "set" /\ stage'[p] \in {"check", "idle"}
          /\ \A q \in Proc \ {p} : stage'[q] = stage[q]
      BY <1>0, <1>4 DEF SetDone, Move, Finish
    <2>2. /\ pc'[p] = "idle" /\ W!StepsLeft(p)' = 0
          /\ \A q \in Proc \ {p} : pc'[q] = pc[q] /\ cur'[q] = cur[q]
      BY <1>4, WriterAside DEF SetDone
    <2>. QED
      BY <1>0, <2>1, <2>2, RoundsAt DEF SessionLeft, Elsewhere
  <1>5. CASE Check(p)
    <2>1. stage[p] = "check" /\ stage' = stage /\ pc[p] = "idle" /\ pc'[p] # "idle"
      BY <1>0, <1>5, SameStart DEF Check, slotVars, W!Start, W!Goto, W!Finish, Advancing, Hosted, W!TypeOK
    <2>2. \A q \in Proc \ {p} : pc'[q] = pc[q] /\ cur'[q] = cur[q]
      BY <1>5, WriterAside DEF Check
    <2>. QED
      BY <1>0, <2>1, <2>2, RoundsAt DEF SessionLeft, Elsewhere
  <1>6. CASE CheckDone(p)
    <2>1. /\ stage[p] = "check" /\ stage'[p] \in {"final", "idle"} /\ pc[p] = "exit"
          /\ \A q \in Proc \ {p} : stage'[q] = stage[q]
      BY <1>0, <1>6 DEF CheckDone, Move, Finish
    <2>2. /\ pc'[p] = "idle" /\ W!StepsLeft(p)' = 0
          /\ \A q \in Proc \ {p} : pc'[q] = pc[q] /\ cur'[q] = cur[q]
      BY <1>6, WriterAside DEF CheckDone
    <2>. QED
      BY <1>0, <2>1, <2>2, RoundsAt DEF SessionLeft, Elsewhere
  <1>7. CASE Final(p)
    <2>1. /\ stage[p] = "final" /\ stage'[p] = "idle"
          /\ UNCHANGED <<pc, cur>> /\ \A q \in Proc \ {p} : stage'[q] = stage[q]
      BY <1>0, <1>7 DEF Final, Finish, writerVars
    <2>. QED
      BY <1>0, <2>1, RoundsAt DEF SessionLeft, Elsewhere
  <1>8. CASE WriterStep(p)
    <2>1. /\ stage' = stage /\ pc[p] # "idle" /\ pc'[p] # "idle" /\ W!StepsLeft(p)' < W!StepsLeft(p)
          /\ \A q \in Proc \ {p} : pc'[q] = pc[q] /\ cur'[q] = cur[q]
      BY <1>8, WriterAside DEF WriterStep, slotVars
    <2>2. Rounds(stage[p]) \in 0..6
      BY <1>0, RoundsAt DEF Stage
    <2>. QED
      BY <1>0, <2>1, <2>2 DEF SessionLeft, Elsewhere
  <1>9. CASE ManualDone(p)
    <2>1. /\ stage[p] = "manual" /\ stage'[p] = "idle"
          /\ \A q \in Proc \ {p} : stage'[q] = stage[q]
      BY <1>0, <1>9 DEF ManualDone, Move
    <2>2. /\ W!StepsLeft(p)' = 0
          /\ \A q \in Proc \ {p} : pc'[q] = pc[q] /\ cur'[q] = cur[q]
      BY <1>9, WriterAside DEF ManualDone
    <2>. QED
      BY <1>0, <2>1, <2>2, RoundsAt DEF SessionLeft, Elsewhere
  <1>. QED
    BY <1>1, <1>2, <1>3, <1>4, <1>5, <1>6, <1>7, <1>8, <1>9 DEF Running, Session

(* While a session lasts, nothing but the steps of sessions and a restart  *)
(* of the board changes where anyone is.                                   *)
LEMMA Unmoved ==
    ASSUME Advancing, NEW p \in Proc, stage[p] # "idle",
           \/ \E q \in Proc : Manual(q) \/ \E t \in Target, r \in BOOLEAN : Begin(q, t, r)
           \/ Install \/ Boot \/ UNCHANGED vars
    PROVE  SessionLeft(p)' <= SessionLeft(p)
  <1>1. stage' = stage /\ pc' = pc /\ cur' = cur
    BY DEF Manual, Begin, Install, Boot, vars, writerVars
  <1>2. SessionLeft(p)' = SessionLeft(p)
    BY <1>1 DEF SessionLeft, W!StepsLeft
  <1>. QED
    BY <1>2, SessionValue

LEMMA SessionNearer ==
    ASSUME Advancing, [Next]_vars, NEW p \in Proc, stage[p] # "idle"
    PROVE  /\ SessionLeft(p)' <= SessionLeft(p)
           /\ Running(p) \/ ManualDone(p) => SessionLeft(p)' < SessionLeft(p)
  <1>0. SessionLeft(p) \in Nat
    BY SessionValue
  <1>1. CASE \E s : Down(s)
    <2>1. SessionLeft(p)' < SessionLeft(p) /\ SessionLeft(p)' = 0
      <3>1. stage'[p] = "idle" /\ pc'[p] = "idle"
        BY <1>1, SameEnds DEF Down, W!Restart
      <3>2. W!StepsLeft(p)' = 0
        BY <3>1 DEF W!StepsLeft
      <3>. QED
        BY <1>1, <3>1, <3>2, DownAdvances, RoundsAt DEF SessionLeft
    <2>. QED
      BY <1>0, <2>1
  <1>2. CASE \A s : ~Down(s)
    <2>1. ASSUME Running(p) \/ ManualDone(p) PROVE SessionLeft(p)' < SessionLeft(p)
      BY <1>2, <2>1, SessionAdvances
    <2>2. ASSUME NEW q \in Proc, q # p, stage[q] # "idle", Running(q) \/ ManualDone(q)
          PROVE  SessionLeft(p)' <= SessionLeft(p)
      BY <1>2, <2>2, SessionAdvances, ElsewhereSame
    <2>3. ASSUME NEW q \in Proc, q # p, stage[q] = "idle", Running(q) \/ ManualDone(q)
          PROVE  SessionLeft(p)' <= SessionLeft(p)
      <3>1. WriterStep(q)
        BY <2>3 DEF Running, Session, VerifyTarget, Depends, Set, SetDone, Check, CheckDone, Final, ManualDone
      <3>2. Elsewhere(q)
        BY <3>1, WriterAside DEF WriterStep, slotVars, Elsewhere
      <3>. QED
        BY <2>3, <3>2, ElsewhereSame
    <2>4. ASSUME SessionLeft(p)' < SessionLeft(p), W!StepsLeft(p)' \in 0..17, stage'[p] \in Stage
          PROVE  SessionLeft(p)' <= SessionLeft(p)
      <3>1. SessionLeft(p)' \in Nat
        <4>1. Rounds(stage'[p]) \in 0..6
          BY <2>4, RoundsAt DEF Stage
        <4>. QED
          BY <2>4, <4>1 DEF SessionLeft
      <3>. QED
        BY <1>0, <2>4, <3>1
    <2>5. W!StepsLeft(p)' \in 0..17 /\ stage'[p] \in Stage
      BY StepsNext, StageStep DEF Advancing
    <2>6. \/ Running(p) \/ ManualDone(p)
          \/ \E q \in Proc \ {p} : Running(q) \/ ManualDone(q)
          \/ \E q \in Proc : Manual(q) \/ \E t \in Target, r \in BOOLEAN : Begin(q, t, r)
          \/ Install \/ Boot \/ UNCHANGED vars
      BY <1>2 DEF Next, Running, Upgrade, PowerCut
    <2>. QED
      BY <2>1, <2>2, <2>3, <2>4, <2>5, <2>6, Unmoved
  <1>. QED
    BY <1>1, <1>2

(* Whatever fails, and whatever else happens on the board, a session is    *)
(* done after at most 137 steps of its own; none of its steps, and no step *)
(* of its rt3bcwrite, is ever taken back.                                  *)
THEOREM SessionsNeverRepeat == Spec => SessionsAdvance
  <1>1. Advancing /\ [Next]_vars =>
          [\A p \in Proc : stage[p] # "idle" =>
              /\ SessionLeft(p)' <= SessionLeft(p)
              /\ Running(p) \/ ManualDone(p) => SessionLeft(p)' < SessionLeft(p)]_vars
    BY SessionNearer
  <1>2. Advancing => \A p \in Proc : SessionLeft(p) \in 0..137
    <2>1. SUFFICES ASSUME Advancing, NEW p \in Proc PROVE SessionLeft(p) \in 0..137
      OBVIOUS
    <2>2. W!StepsLeft(p) \in 0..17
      BY <2>1, W!StepsTyped, SelectorAssumption, RestAssumption, ExclusiveAssumption
         DEF Advancing, Hosted
    <2>3. Rounds(stage[p]) \in 0..6 /\ (stage[p] = "check" => Rounds(stage[p]) = 2)
      BY <2>1, RoundsAt DEF Advancing, Stage
    <2>. QED
      BY <2>2, <2>3 DEF SessionLeft
  <1>. QED
    BY <1>1, <1>2, InitAdvancing, AdvancingStep, PTL DEF Spec, SessionsAdvance

=============================================================================
