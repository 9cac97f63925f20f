------------------------------ MODULE SlotSwitch ------------------------------
(***************************************************************************)
(* The A/B switch of Machine-B, end to end: rt3slot verifies the target    *)
(* slot with rt3release, changes the selector with rt3bcwrite, checks it   *)
(* with a second run of rt3bcwrite and may restart the board, which boots  *)
(* what the selector copies say.  The writer is BootSelector, step by      *)
(* step, so power can be lost between any two flash accesses of it.        *)
(*                                                                         *)
(* mtd15 is the OEM slot (selector 0), mtd16 the QSDK slot.  A running     *)
(* QSDK has attached, as ubi0, the slot its kernel labels "rootfs", and    *)
(* that is the slot rt3release reads; a QSDK may run from either slot.     *)
(***************************************************************************)
EXTENDS ReleaseIdentity

CONSTANTS
    Proc, Selectors, AllOnes, Rest, Blank, Exclusive,   \* of the writer
    Slot15, Slot16,      \* contents the two slots may have
    OEM                  \* what runs when the OEM firmware does

VARIABLES
    media, pc, op, cur, sel, img, code, wrote, base, hurt,   \* of the writer
    stage,     \* what each rt3slot session does next
    goal,      \* the slot it is to switch to
    reb,       \* whether --reboot was given
    slot,      \* content of the two slots
    up,        \* the slot whose QSDK runs, OEM, or "off"
    ended,     \* history: how the last session ended
    passed,    \* history: target of the last session that reported PASS
    sound,     \* history: nothing stood against the last session at its start
    troubled   \* history: a command of the session failed

writerVars == <<media, pc, op, cur, sel, img, code, wrote, base, hurt>>
slotVars == <<stage, goal, reb, slot, up, ended, passed, sound, troubled>>
vars == <<media, pc, op, cur, sel, img, code, wrote, base, hurt,
          stage, goal, reb, slot, up, ended, passed, sound, troubled>>

Writer == INSTANCE BootSelector

----------------------------------------------------------------------------
(* Data *)

Mtd == {"mtd15", "mtd16"}
Target == {"oem", "qsdk"}
Want(t) == IF t = "oem" THEN 0 ELSE 1
Stage == {"idle", "verify", "identity", "sync", "set", "check", "final", "manual"}

(* What a slot holds: ubi is the UBI magic of its first block, system what *)
(* would run from it ("none": it does not boot); manifest, kernel and      *)
(* rootfs are what rt3release sees when that system runs.                  *)
IsContent(c) ==
    /\ DOMAIN c = {"ubi", "system", "manifest", "kernel", "rootfs"}
    /\ c.ubi \in BOOLEAN /\ c.system \in {"OEM", "QSDK", "none"}
    /\ c.system = "none" \/ c.ubi
    /\ c.manifest.loads => c.manifest.kernel # NoHash

ASSUME SelectorAssumption ==
    {0, 1} \subseteq Selectors /\ AllOnes \in Selectors /\ Selectors \subseteq Nat
ASSUME RestAssumption == Blank \in Rest
ASSUME ExclusiveAssumption == Exclusive \in BOOLEAN
ASSUME SlotAssumption == \A c \in Slot15 \cup Slot16 : IsContent(c)
ASSUME OemAssumption == OEM \notin Mtd /\ OEM # "off"

(* The label of a slot while the QSDK of slot up runs: the one it runs     *)
(* from is "rootfs", the other "oem_rootfs".                               *)
Label(m) == IF m = up THEN "rootfs" ELSE "oem_rootfs"

(* Copies as the boot loader parses them: nonzero selects the QSDK slot.   *)
Selected(c) == IF media[c].sel = 0 THEN "mtd15" ELSE "mtd16"
Healthy ==
    /\ \A c \in Writer!Copy : media[c].ok
    /\ media["mtd3"].sel = media["mtd2"].sel

(* What is asked of the slot rt3slot switches to, and what it must accept. *)
Suitable(t) ==
    IF t = "oem" THEN slot["mtd15"].ubi
    ELSE LET c == slot["mtd16"] IN c.ubi /\ Genuine(c.manifest, c.kernel, c.rootfs)

Impeccable(t) ==
    /\ Suitable(t)
    /\ t = "oem" \/ LET c == slot["mtd16"] IN AsBuilt(c.manifest, c.kernel, c.rootfs)

----------------------------------------------------------------------------
(* rt3slot: verification of the target *)

(* verify_oem: geometry (fixed by the board), UBI magic, label.            *)
VerifyOem == slot["mtd15"].ubi /\ Label("mtd15") \in {"rootfs", "oem_rootfs"}

(* verify_qsdk: geometry, UBI magic and label of mtd16, then the identity  *)
(* of whatever ubi0 is, which rt3release hashes.                           *)
Mtd16LabelAny == TRUE                                           \* mutated form
Mtd16Label == Label("mtd16") \in {"rootfs", "rootfs_1"}
Identity == Verify(slot[up].manifest, slot[up].kernel, slot[up].rootfs) = EX_OK
VerifyQsdk == slot["mtd16"].ubi /\ Mtd16Label /\ Identity

TargetVerified(t) == IF t = "oem" THEN VerifyOem ELSE VerifyQsdk

----------------------------------------------------------------------------
(* rt3slot: a session *)

Move(p, s) == stage' = [stage EXCEPT ![p] = s] /\ UNCHANGED <<goal, reb>>

Finish(p, how) ==
    /\ stage' = [stage EXCEPT ![p] = "idle"]
    /\ goal' = [goal EXCEPT ![p] = "oem"]
    /\ reb' = [reb EXCEPT ![p] = FALSE]
    /\ ended' = how
    /\ passed' = IF how = "PASS" THEN goal[p] ELSE passed

(* rt3slot oem|qsdk [--reboot], from a shell of a running QSDK.            *)
Begin(p, t, r) ==
    /\ up \in Mtd
    /\ \A q \in Proc : stage[q] = "idle"
    /\ stage' = [stage EXCEPT ![p] = "verify"]
    /\ goal' = [goal EXCEPT ![p] = t]
    /\ reb' = [reb EXCEPT ![p] = r]
    /\ ended' = "none"
    /\ sound' = (Healthy /\ Impeccable(t) /\ ~(t = "qsdk" /\ up = "mtd15"))
    /\ troubled' = FALSE
    /\ UNCHANGED writerVars /\ UNCHANGED <<slot, up, passed>>

(* Every check of the target; verify_qsdk runs rt3release a second time    *)
(* for IMAGE_SEQ_DEPENDENCY.                                               *)
VerifyTarget(p) ==
    /\ stage[p] = "verify"
    /\ \/ /\ TargetVerified(goal[p])
          /\ Move(p, IF goal[p] = "oem" THEN "sync" ELSE "identity")
          /\ UNCHANGED <<ended, passed, troubled>>
       \/ /\ ~TargetVerified(goal[p])
          /\ Finish(p, "FAIL")
          /\ UNCHANGED troubled
       \/ /\ Finish(p, "FAIL")                    \* a read of a slot fails
          /\ troubled' = TRUE
    /\ UNCHANGED writerVars /\ UNCHANGED <<slot, up, sound>>

Depends(p) ==
    /\ stage[p] = "identity"
    /\ \/ Move(p, "sync") /\ UNCHANGED <<ended, passed, troubled>>
       \/ Finish(p, "FAIL") /\ troubled' = TRUE
    /\ UNCHANGED writerVars /\ UNCHANGED <<slot, up, sound>>

Command(set, t) == [set |-> set, want |-> Want(t), force |-> FALSE, reboot |-> FALSE]

(* sync, then rt3bcwrite --set. *)
Set(p) ==
    /\ stage[p] = "sync"
    /\ \/ /\ Writer!Start(p, Command(TRUE, goal[p]))
          /\ Move(p, "set")
          /\ passed' = "none"
          /\ UNCHANGED <<ended, troubled>>
       \/ /\ Finish(p, "FAIL")
          /\ troubled' = TRUE
          /\ UNCHANGED writerVars
    /\ UNCHANGED <<slot, up, sound>>

(* Its status; only after a success rt3bcwrite --verify-only runs.         *)
SetUnchecked(p) ==                                              \* mutated form
    /\ stage[p] = "set" /\ pc[p] = "exit"
    /\ Writer!Reap(p)
    /\ Finish(p, "PASS")
    /\ UNCHANGED <<slot, up, sound, troubled>>

SetDone(p) ==
    /\ stage[p] = "set" /\ pc[p] = "exit"
    /\ Writer!Reap(p)
    /\ IF code[p] = Writer!EX_OK THEN Move(p, "check") /\ UNCHANGED <<ended, passed>>
                                 ELSE Finish(p, "FAIL")
    /\ troubled' = (troubled \/ p \in hurt)
    /\ UNCHANGED <<slot, up, sound>>

Check(p) ==
    /\ stage[p] = "check" /\ pc[p] = "idle"
    /\ Writer!Start(p, Command(FALSE, goal[p]))
    /\ UNCHANGED slotVars

(* SWITCH_RESULT=PASS, or failure. *)
CheckDone(p) ==
    /\ stage[p] = "check" /\ pc[p] = "exit"
    /\ Writer!Reap(p)
    /\ IF code[p] # Writer!EX_OK THEN Finish(p, "FAIL")
       ELSE IF ~reb[p] THEN Finish(p, "PASS")
       ELSE Move(p, "final") /\ passed' = goal[p] /\ UNCHANGED ended
    /\ troubled' = (troubled \/ p \in hurt)
    /\ UNCHANGED <<slot, up, sound>>

(* Every process is gone, the flash stays. *)
Down(s) ==
    /\ Writer!Restart
    /\ stage' = [p \in Proc |-> "idle"]
    /\ goal' = [p \in Proc |-> "oem"]
    /\ reb' = [p \in Proc |-> FALSE]
    /\ slot' = s
    /\ up' = "off"
    /\ ended' = "none"
    /\ sound' = FALSE
    /\ troubled' = FALSE
    /\ UNCHANGED passed

(* The last sync and exec reboot, or the sync fails. *)
Final(p) ==
    /\ stage[p] = "final"
    /\ \/ Down(slot)
       \/ /\ Finish(p, "FAIL")
          /\ troubled' = TRUE
          /\ UNCHANGED writerVars /\ UNCHANGED <<slot, up, sound>>

----------------------------------------------------------------------------
(* The rest of the board *)

WriterStep(p) == Writer!Step(p) /\ UNCHANGED slotVars

(* rt3bcwrite by hand, in either system: the only way to repair two copies *)
(* that differ is its --force-unequal.                                     *)
Manual(p) ==
    /\ up # "off"
    /\ \A q \in Proc : stage[q] = "idle"
    /\ \E o \in Writer!Op : o.set /\ ~o.reboot /\ Writer!Start(p, o)
    /\ Move(p, "manual")
    /\ passed' = "none"
    /\ ended' = "none"
    /\ UNCHANGED <<slot, up, sound, troubled>>

ManualDone(p) ==
    /\ stage[p] = "manual"
    /\ Writer!Reap(p)
    /\ Move(p, "idle")
    /\ UNCHANGED <<slot, up, ended, passed, sound, troubled>>

(* sysupgrade of the running QSDK: it kills every process, rt3slot and the *)
(* writer included wherever they are, rewrites the slot it runs from, with *)
(* any outcome, and restarts the board.                                    *)
Upgrade ==
    /\ up \in Mtd
    /\ \E c \in IF up = "mtd15" THEN Slot15 ELSE Slot16 : Down([slot EXCEPT ![up] = c])

(* The QSDK slot is installed from the OEM firmware, or from the rescue    *)
(* page of the boot loader.                                                *)
Install ==
    /\ up \in {OEM, "off"}
    /\ \A p \in Proc : stage[p] = "idle"
    /\ \E c \in Slot16 : slot' = [slot EXCEPT !["mtd16"] = c]
    /\ UNCHANGED writerVars
    /\ UNCHANGED <<stage, goal, reb, up, ended, passed, sound, troubled>>

PowerCut == up # "off" /\ Down(slot)

(* The boot loader takes a copy it can parse and starts the slot that copy *)
(* selects; a slot that does not boot leaves the board in the boot loader. *)
Boot ==
    /\ up = "off"
    /\ \E c \in Writer!Copy :
          /\ media[c].ok
          /\ slot[Selected(c)].system # "none"
          /\ up' = IF slot[Selected(c)].system = "QSDK" THEN Selected(c) ELSE OEM
    /\ UNCHANGED writerVars
    /\ UNCHANGED <<stage, goal, reb, slot, ended, passed, sound, troubled>>

----------------------------------------------------------------------------
Init ==
    /\ Writer!Init
    /\ stage = [p \in Proc |-> "idle"]
    /\ goal = [p \in Proc |-> "oem"]
    /\ reb = [p \in Proc |-> FALSE]
    /\ slot \in {[m \in Mtd |-> IF m = "mtd15" THEN a ELSE b] : a \in Slot15, b \in Slot16}
    /\ up = "off"
    /\ ended = "none"
    /\ passed = "none"
    /\ sound = FALSE
    /\ troubled = FALSE

Session(p) ==
    \/ VerifyTarget(p) \/ Depends(p) \/ Set(p) \/ SetDone(p) \/ Check(p)
    \/ CheckDone(p) \/ Final(p)

Running(p) == Session(p) \/ WriterStep(p)

Next ==
    \/ \E p \in Proc :
          \/ \E t \in Target, r \in BOOLEAN : Begin(p, t, r)
          \/ Session(p) \/ WriterStep(p) \/ Manual(p) \/ ManualDone(p)
    \/ Upgrade \/ Install \/ PowerCut \/ Boot

Spec == Init /\ [][Next]_vars

(* A session and the writer it runs keep executing. *)
FairSpec == Spec /\ \A p \in Proc : WF_vars(Running(p))

----------------------------------------------------------------------------
(* Properties *)

(* From the first access of the selector on, a switch aims at a slot that  *)
(* holds what was verified: the verification was of that slot, although    *)
(* rt3release only ever reads the slot that runs, and nothing can change   *)
(* the slot under a session (rt3slot, verify before rt3bcwrite --set).     *)
OnlyVerifiedSelected ==
    \A p \in Proc : stage[p] \in {"set", "check", "final"} => Suitable(goal[p])

(* After SWITCH_RESULT=PASS, and until the selector is written again, both *)
(* copies select the target, through restarts and power cuts: the next     *)
(* boot is the one next_boot_target announces.                             *)
PassDecidesNextBoot ==
    passed # "none" => \A c \in Writer!Copy : media[c].ok /\ media[c].sel = Want(passed)

(* A switch is refused for its target, for copies that were unreadable or  *)
(* different when it started, or for a command that failed; for nothing    *)
(* else.  Two copies an interrupted switch left different are refused by   *)
(* every later one, until someone forces them with rt3bcwrite.             *)
RefusedForAReason == ended = "FAIL" /\ ~troubled => ~sound

(* A session ends: with a report, an error, or the restart of the board.   *)
SessionEnds == \A p \in Proc : stage[p] = "verify" ~> stage[p] = "idle"

=============================================================================
