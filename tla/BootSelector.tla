---------------------------- MODULE BootSelector ----------------------------
(***************************************************************************)
(* rt3bcwrite: the writer of the A/B rootfs selector kept in two redundant *)
(* flash copies, mtd3 (BOOTCONFIG1, written first) and mtd2 (BOOTCONFIG,   *)
(* written second).  One erase block holds a structure (valid or not), the *)
(* selector inside it and, behind it, the rest of the block: in mtd2 that  *)
(* is an OEM configuration blob no invocation may change.                  *)
(*                                                                         *)
(* Every process of Proc is one invocation at a time of the tool.  A step  *)
(* is one access to the flash, so another invocation or a power cut may    *)
(* fall between any two of them.  The tool takes no lock: Exclusive says   *)
(* whether its callers serialise it.                                       *)
(***************************************************************************)
EXTENDS Integers

CONSTANTS
    Proc,        \* invocations that can be in flight together
    Selectors,   \* values of the 32-bit selector word
    AllOnes,     \* the word an erased block reads as
    Rest,        \* contents of the block outside structure and selector
    Blank,       \* that content in an erased block
    Exclusive    \* the callers run one invocation at a time

ASSUME SelectorAssumption ==
    {0, 1} \subseteq Selectors /\ AllOnes \in Selectors /\ Selectors \subseteq Nat
ASSUME RestAssumption == Blank \in Rest
ASSUME ExclusiveAssumption == Exclusive \in BOOLEAN

VARIABLES
    media,   \* the two erase blocks on flash
    pc,      \* what each invocation does next
    op,      \* its command line
    cur,     \* the copy it is working on
    sel,     \* struct copy_info.sel: the selector it last parsed, per copy
    img,     \* transaction's blk: the image it is about to write
    code,    \* its exit status
    wrote,   \* history: the copies it has started to erase
    base,    \* history: the flash when it started
    hurt     \* history: the invocations a system call of which failed

vars == <<media, pc, op, cur, sel, img, code, wrote, base, hurt>>

----------------------------------------------------------------------------
(* Data *)

Copy == {"mtd3", "mtd2"}
Block == [ok : BOOLEAN, sel : Selectors, rest : Rest]
Erased == [ok |-> FALSE, sel |-> AllOnes, rest |-> Blank]
Op == [set : BOOLEAN, want : {0, 1}, force : BOOLEAN, reboot : BOOLEAN]
NoOp == [set |-> FALSE, want |-> 0, force |-> FALSE, reboot |-> FALSE]

EX_OK == 0
EX_STRUCT == 3
EX_IO == 4
EX_WRITE1 == 5
EX_WRITE2 == 6
EX_VERIFY1 == 7
EX_VERIFY2 == 8
NoCode == -1
Code == {NoCode, EX_OK, EX_STRUCT, EX_IO, EX_WRITE1, EX_WRITE2, EX_VERIFY1, EX_VERIFY2, 9}

Stage == {"idle", "pre", "decide", "load", "erase", "head", "tail", "readback",
          "post", "confirm", "done", "exit"}

(* put_le32 on the live block: the structure and the rest stay as read. *)
Patch(b, w) == [b EXCEPT !.sel = w]

(* The first page of the image, which holds structure and selector, is on  *)
(* flash and the following pages, which hold the blob, are still erased.   *)
HeadOnly(b) == [b EXCEPT !.rest = Blank]

----------------------------------------------------------------------------
(* Building blocks of the steps *)

Goto(p, l) == pc' = [pc EXCEPT ![p] = l]

(* The invocation ends with status k. *)
Finish(p, k) ==
    /\ pc' = [pc EXCEPT ![p] = "exit"]
    /\ code' = [code EXCEPT ![p] = k]

(* mtd3 comes first, mtd2 second. *)
NextCopy(c) == IF c = "mtd3" THEN "mtd2" ELSE "mtd3"

(* The status of a failed transaction as main returns it.  A definition    *)
(* marked as a mutated form stands for a bug the properties must notice.   *)
TxnStatus(c, r) == IF c = "mtd3" THEN r ELSE r + 2

(* transaction() on the current copy passed: take the second copy, or go on *)
(* to the final dual-copy confirmation.                                     *)
TxnPassed(p) ==
    /\ cur' = [cur EXCEPT ![p] = NextCopy(cur[p])]
    /\ Goto(p, IF cur[p] = "mtd3" THEN "load" ELSE "post")

(* A system call of the transaction failed with status r. *)
TxnFailed(p, r) ==
    /\ Finish(p, TxnStatus(cur[p], r))
    /\ hurt' = hurt \cup {p}

SetMedia(c, b) == media' = [media EXCEPT ![c] = b]

(* read_struct on the current copy; the copy after mtd3 is mtd2, then the  *)
(* invocation goes to stage next.                                          *)
ReadStructUnchecked(p, next) ==                                 \* mutated form
    /\ sel' = [sel EXCEPT ![p][cur[p]] = media[cur[p]].sel]
    /\ cur' = [cur EXCEPT ![p] = NextCopy(cur[p])]
    /\ Goto(p, IF cur[p] = "mtd3" THEN pc[p] ELSE next)
    /\ UNCHANGED <<media, op, img, code, wrote, base, hurt>>

ReadStruct(p, next) ==
    /\ media[cur[p]].ok
    /\ sel' = [sel EXCEPT ![p][cur[p]] = media[cur[p]].sel]
    /\ cur' = [cur EXCEPT ![p] = NextCopy(cur[p])]
    /\ Goto(p, IF cur[p] = "mtd3" THEN pc[p] ELSE next)
    /\ UNCHANGED <<media, op, img, code, wrote, base, hurt>>

ReadStructRefuses(p) ==
    /\ ~media[cur[p]].ok
    /\ Finish(p, EX_STRUCT)
    /\ UNCHANGED <<media, op, cur, sel, img, wrote, base, hurt>>

ReadStructFails(p) ==
    /\ Finish(p, EX_IO)
    /\ hurt' = hurt \cup {p}
    /\ UNCHANGED <<media, op, cur, sel, img, wrote, base>>

----------------------------------------------------------------------------
(* The flash as earlier invocations may have left it; none is running. *)
Init ==
    /\ media \in [Copy -> Block]
    /\ \E c \in Copy : media[c].ok
    /\ pc = [p \in Proc |-> "idle"]
    /\ op = [p \in Proc |-> NoOp]
    /\ cur = [p \in Proc |-> "mtd3"]
    /\ sel = [p \in Proc |-> [c \in Copy |-> 0]]
    /\ img = [p \in Proc |-> Erased]
    /\ code = [p \in Proc |-> NoCode]
    /\ wrote = [p \in Proc |-> {}]
    /\ base = [p \in Proc |-> [c \in Copy |-> Erased]]
    /\ hurt = {}

(* main: the command line is accepted; open_copy succeeds on both devices. *)
Start(p, o) ==
    /\ pc[p] = "idle"
    /\ Exclusive => \A q \in Proc : pc[q] = "idle"
    /\ op' = [op EXCEPT ![p] = o]
    /\ base' = [base EXCEPT ![p] = media]
    /\ \/ /\ Goto(p, "pre")
          /\ UNCHANGED <<code, hurt>>
       \/ /\ Finish(p, EX_IO)                     \* open or MEMGETINFO fails
          /\ hurt' = hurt \cup {p}
    /\ UNCHANGED <<media, cur, sel, img, wrote>>

(* read_struct(&B), read_struct(&A) before anything is written. *)
Pre(p) ==
    /\ pc[p] = "pre"
    /\ ReadStruct(p, "decide") \/ ReadStructRefuses(p) \/ ReadStructFails(p)

(* Both copies were seen to hold the target. *)
EitherAtTarget(p) == \E c \in Copy : sel[p][c] = op[p].want     \* mutated form

BothAtTarget(p) == \A c \in Copy : sel[p][c] = op[p].want

(* --verify-only answers; --set refuses unequal copies without             *)
(* --force-unequal, skips when both hold the target, or begins with mtd3.  *)
Decide(p) ==
    /\ pc[p] = "decide"
    /\ \/ /\ ~op[p].set
          /\ Finish(p, IF BothAtTarget(p) THEN EX_OK ELSE EX_VERIFY2)
       \/ /\ op[p].set
          /\ sel[p]["mtd3"] # sel[p]["mtd2"] /\ ~op[p].force
          /\ Finish(p, EX_STRUCT)
       \/ /\ op[p].set
          /\ sel[p]["mtd3"] = sel[p]["mtd2"] \/ op[p].force
          /\ Goto(p, IF BothAtTarget(p) THEN "done" ELSE "load")
          /\ UNCHANGED code
    /\ UNCHANGED <<media, op, cur, sel, img, wrote, base, hurt>>

(* transaction, steps 1 to 4: read and validate the live erase block; the  *)
(* copy already at the target is left alone, otherwise the image is the    *)
(* live block with the selector patched.                                   *)
Load(p) ==
    /\ pc[p] = "load"
    /\ LET b == media[cur[p]] IN
       \/ /\ b.ok
          /\ sel' = [sel EXCEPT ![p][cur[p]] = b.sel]
          /\ \/ /\ b.sel = op[p].want
                /\ TxnPassed(p)
                /\ UNCHANGED img
             \/ /\ b.sel # op[p].want
                /\ img' = [img EXCEPT ![p] = Patch(b, op[p].want)]
                /\ Goto(p, "erase")
                /\ UNCHANGED cur
          /\ UNCHANGED <<code, hurt>>
       \/ /\ ~b.ok
          /\ Finish(p, TxnStatus(cur[p], EX_STRUCT))
          /\ UNCHANGED <<cur, sel, img, hurt>>
       \/ /\ \E r \in {EX_IO, EX_WRITE1} : TxnFailed(p, r)   \* pread; malloc, erasesize
          /\ UNCHANGED <<cur, sel, img>>
    /\ UNCHANGED <<media, op, wrote, base>>

(* Step 5, MEMERASE.  A failed erase leaves the block in an unknown state. *)
Erase(p) ==
    /\ pc[p] = "erase"
    /\ wrote' = [wrote EXCEPT ![p] = @ \cup {cur[p]}]
    /\ \/ /\ SetMedia(cur[p], Erased)
          /\ Goto(p, "head")
          /\ UNCHANGED <<code, hurt>>
       \/ /\ \E b \in Block : SetMedia(cur[p], b)
          /\ TxnFailed(p, EX_WRITE1)
    /\ UNCHANGED <<op, cur, sel, img, base>>

(* Step 5, pwrite of the first page: it lands, lands wrong unnoticed, or   *)
(* pwrite comes up short.                                                  *)
Head(p) ==
    /\ pc[p] = "head"
    /\ \E b \in Block :
          /\ SetMedia(cur[p], b)
          /\ \/ /\ Goto(p, "tail")
                /\ hurt' = IF b = HeadOnly(img[p]) THEN hurt ELSE hurt \cup {p}
                /\ UNCHANGED code
             \/ TxnFailed(p, EX_WRITE1)
    /\ UNCHANGED <<op, cur, sel, img, wrote, base>>

(* Step 5, pwrite of the remaining pages, and fsync. *)
Tail(p) ==
    /\ pc[p] = "tail"
    /\ \E r \in Rest :
          /\ SetMedia(cur[p], [media[cur[p]] EXCEPT !.rest = r])
          /\ \/ /\ Goto(p, "readback")
                /\ hurt' = IF r = img[p].rest THEN hurt ELSE hurt \cup {p}
                /\ UNCHANGED code
             \/ TxnFailed(p, EX_WRITE1)
    /\ UNCHANGED <<op, cur, sel, img, wrote, base>>

(* Steps 6 to 9: what is read back must equal the image byte for byte,     *)
(* parse, and carry the wanted selector.                                   *)
VerifiedStructureOnly(p, b) == b.ok /\ b.sel = op[p].want       \* mutated form
VerifiedAgainstLive(p, b) == b = base[p][cur[p]] /\ b.ok        \* mutated form

Verified(p, b) == b = img[p] /\ b.ok /\ b.sel = op[p].want

MismatchRetried(p) ==                                           \* mutated form
    /\ ~Verified(p, media[cur[p]])
    /\ Goto(p, "erase")
    /\ UNCHANGED <<cur, sel, code, hurt>>

Mismatch(p) ==
    /\ ~Verified(p, media[cur[p]])
    /\ Finish(p, TxnStatus(cur[p], EX_VERIFY1))
    /\ UNCHANGED <<cur, sel, hurt>>

Readback(p) ==
    /\ pc[p] = "readback"
    /\ \/ /\ Verified(p, media[cur[p]])
          /\ sel' = [sel EXCEPT ![p][cur[p]] = media[cur[p]].sel]
          /\ TxnPassed(p)
          /\ UNCHANGED <<code, hurt>>
       \/ Mismatch(p)
       \/ /\ TxnFailed(p, EX_VERIFY1)                  \* pread comes up short
          /\ UNCHANGED <<cur, sel>>
    /\ UNCHANGED <<media, op, img, wrote, base>>

(* The final dual-copy confirmation reads both structures again ... *)
Post(p) ==
    /\ pc[p] = "post"
    /\ ReadStruct(p, "confirm") \/ ReadStructRefuses(p) \/ ReadStructFails(p)

(* ... and compares both selectors with the target. *)
Confirm(p) ==
    /\ pc[p] = "confirm"
    /\ \/ /\ BothAtTarget(p)
          /\ Goto(p, "done")
          /\ UNCHANGED code
       \/ /\ ~BothAtTarget(p)
          /\ Finish(p, EX_VERIFY2)
    /\ UNCHANGED <<media, op, cur, sel, img, wrote, base, hurt>>

(* Every process is gone and only the flash is left. *)
Restart ==
    /\ pc' = [p \in Proc |-> "idle"]
    /\ op' = [p \in Proc |-> NoOp]
    /\ cur' = [p \in Proc |-> "mtd3"]
    /\ sel' = [p \in Proc |-> [c \in Copy |-> 0]]
    /\ img' = [p \in Proc |-> Erased]
    /\ code' = [p \in Proc |-> NoCode]
    /\ wrote' = [p \in Proc |-> {}]
    /\ base' = [p \in Proc |-> [c \in Copy |-> Erased]]
    /\ hurt' = {}
    /\ UNCHANGED media

(* The end of a successful --set: return EX_OK, or with --reboot restart   *)
(* the machine; when neither reboot program can be run the status is 7.    *)
Done(p) ==
    /\ pc[p] = "done"
    /\ \/ /\ ~op[p].reboot
          /\ Finish(p, EX_OK)
          /\ UNCHANGED <<media, op, cur, sel, img, wrote, base, hurt>>
       \/ op[p].reboot /\ Restart
       \/ /\ op[p].reboot
          /\ Finish(p, 7)
          /\ hurt' = hurt \cup {p}
          /\ UNCHANGED <<media, op, cur, sel, img, wrote, base>>

(* The caller collects the exit status and the process is gone. *)
Reap(p) ==
    /\ pc[p] = "exit"
    /\ Goto(p, "idle")
    /\ op' = [op EXCEPT ![p] = NoOp]
    /\ cur' = [cur EXCEPT ![p] = "mtd3"]
    /\ sel' = [sel EXCEPT ![p] = [c \in Copy |-> 0]]
    /\ img' = [img EXCEPT ![p] = Erased]
    /\ code' = [code EXCEPT ![p] = NoCode]
    /\ wrote' = [wrote EXCEPT ![p] = {}]
    /\ base' = [base EXCEPT ![p] = [c \in Copy |-> Erased]]
    /\ hurt' = hurt \ {p}
    /\ UNCHANGED media

(* The board loses power between two flash accesses. *)
PowerCut ==
    /\ \E p \in Proc : pc[p] # "idle"
    /\ Restart

Step(p) ==
    \/ Pre(p) \/ Decide(p) \/ Load(p) \/ Erase(p) \/ Head(p) \/ Tail(p)
    \/ Readback(p) \/ Post(p) \/ Confirm(p) \/ Done(p)

Next ==
    \/ \E p \in Proc : Step(p) \/ Reap(p) \/ \E o \in Op : Start(p, o)
    \/ PowerCut

Spec == Init /\ [][Next]_vars

----------------------------------------------------------------------------
(* Properties *)

(* Every variable stays in the set of values the C code can give it. *)
TypeOK ==
    /\ media \in [Copy -> Block]
    /\ pc \in [Proc -> Stage]
    /\ op \in [Proc -> Op]
    /\ cur \in [Proc -> Copy]
    /\ sel \in [Proc -> [Copy -> Selectors]]
    /\ img \in [Proc -> Block]
    /\ code \in [Proc -> Code]
    /\ wrote \in [Proc -> SUBSET Copy]
    /\ base \in [Proc -> [Copy -> Block]]
    /\ hurt \subseteq Proc

(* Whatever fails and whenever power is lost, one of the two copies can    *)
(* still be parsed by the boot loader: read_struct on both copies and the  *)
(* per-copy verification keep the tool from breaking the last good copy.   *)
OneCopyValid == \E c \in Copy : media[c].ok

Succeeded(p) == pc[p] = "exit" /\ code[p] = EX_OK

(* "There is no path that reports success unless both copies hold the      *)
(* exact target selector" (rt3bcwrite.c:36), for --set and --verify-only.  *)
SuccessMeansBoth ==
    \A p \in Proc : Succeeded(p) =>
        \A c \in Copy : media[c].ok /\ media[c].sel = op[p].want

(* A successful run leaves everything but the selector as it found it, the *)
(* OEM blob behind mtd2's structure in particular (rt3bcwrite.c:16).       *)
BlobPreserved ==
    \A p \in Proc : Succeeded(p) =>
        \A c \in Copy : media[c].rest = base[p][c].rest

(* mtd2 is erased only once mtd3 verifiably holds the target, and mtd3     *)
(* still does whatever then becomes of mtd2 (rt3bcwrite.c:33).             *)
SecondNeedsFirst ==
    \A p \in Proc : "mtd2" \in wrote[p] =>
        media["mtd3"].ok /\ media["mtd3"].sel = op[p].want

(* An invocation none of whose system calls failed, started on two valid   *)
(* copies that agree or are to be forced to, converges them and reports    *)
(* success: the checks of main and transaction refuse nothing else.        *)
NoSpuriousFailure ==
    \A p \in Proc :
        /\ pc[p] = "exit" /\ p \notin hurt /\ op[p].set
        /\ \A c \in Copy : base[p][c].ok
        /\ base[p]["mtd3"].sel = base[p]["mtd2"].sel \/ op[p].force
        => code[p] = EX_OK

(* What the boot loader sees of the flash. *)
View == [c \in Copy |-> IF media[c].ok THEN media[c].sel ELSE -1]

Promise == INSTANCE DualCopy WITH val <- View, Bad <- -1

(* Serialised invocations change the copies one at a time, each only while *)
(* the other can be booted from: rt3bcwrite implements DualCopy.           *)
ImplementsDualCopy == Promise!Spec

(* The table of exit statuses: 3 and 4, "nothing written"; 5 and 7,        *)
(* "second untouched" (rt3bcwrite.c:71-75, RB001_FAIL_CLOSED_SELECTOR.md). *)
StatusTellsWhatWasWritten ==
    \A p \in Proc : pc[p] = "exit" =>
        /\ code[p] \in {EX_STRUCT, EX_IO} => wrote[p] = {}
        /\ code[p] \in {EX_WRITE1, EX_VERIFY1} => "mtd2" \notin wrote[p]

=============================================================================
