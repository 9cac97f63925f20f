------------------------------ MODULE SlotUpgrade ------------------------------
(***************************************************************************)
(* sysupgrade of the H3C boards: h3c_qsdk_do_upgrade removes every volume  *)
(* of the QSDK slot the board runs from and builds kernel (0), ubi_rootfs  *)
(* (1) and rootfs_data (2) again from the image.  Every command may fail,  *)
(* a volume may still be in use, and power may be lost at any step; the    *)
(* board then boots what the selector and the volumes allow.               *)
(***************************************************************************)
EXTENDS Integers

CONSTANT Release      \* firmware releases of this board

ASSUME ReleaseAssumption ==
    Release \cap {"none", "partial", "empty", "kept", "cut", "other", "junk"} = {}

VARIABLES
    vol,        \* what the volumes 0 to 3 of the slot hold
    selector,   \* the boot selector, both copies
    up,         \* "QSDK", "OEM" or "off"
    pc,         \* next step of the upgrade
    at,         \* the volume it works on
    img,        \* the file given to sysupgrade
    backup,     \* UPGRADE_BACKUP exists: the settings are to be kept
    busy,       \* volumes that something still holds open
    stuck,      \* history: volumes ubirmvol failed to remove since they were made
    result      \* history: return value of the last h3c_qsdk_do_upgrade

vars == <<vol, selector, up, pc, at, img, backup, busy, stuck, result>>

----------------------------------------------------------------------------
(* Data *)

Volume == 0..3          \* volume 3 stands for the extra ones of older installs
None == "none"          \* the volume does not exist

(* The member kernel or root of a sysupgrade tar: that of a release, the   *)
(* first part of one, that of another board, or something else.            *)
Member == Release \cup {None, "cut", "other", "junk"}
Payload == Member \cup {"empty", "partial", "kept"}

(* Files as built, cut short in the root, before it or in the kernel, of   *)
(* another board, tars of something else, and what is no tar.              *)
NoImage == [kernel |-> None, root |-> None]
File ==
    {[kernel |-> r, root |-> r] : r \in Release}
        \cup [kernel : Release, root : {"cut", None}] \cup [kernel : {"cut"}, root : {None}]
        \cup {[kernel |-> m, root |-> m] : m \in {"other", "junk", None}}

(* What a file has for volume v.                                           *)
MemberOf(i, v) == IF v = 0 THEN i.kernel ELSE i.root

Stage == {"idle", "unblock", "remove", "make", "update", "write", "keep", "done", "failed"}

(* A whole slot: kernel and root of one release, and its rootfs_data.      *)
Slot(r, data, extra) ==
    [v \in Volume |-> IF v < 2 THEN r ELSE IF v = 2 THEN data ELSE extra]

(* U-Boot finds a kernel in volume 0 and the kernel a root in volume 1.    *)
Bootable == vol[0] \in Release /\ vol[1] \in Release

(* h3c_qsdk_check_image looks at the size of both members, at the magic    *)
(* and the configuration name of the kernel, and at the magic of the root: *)
(* what is only cut short passes.                                          *)
Fit == Release \cup {"cut", "other"}
NamesBoard == Release \cup {"cut"}
Squashfs == Release \cup {"cut", "other"}

CheckImage(i) ==
    /\ i.kernel # None /\ i.root # None
    /\ i.kernel \in Fit /\ i.kernel \in NamesBoard
    /\ i.root \in Squashfs

----------------------------------------------------------------------------
(* sysupgrade *)

(* sysupgrade [-F] [-n] FILE in a running QSDK: the check may be forced;   *)
(* stage2 kills every process and leaves only what still holds a volume.   *)
Start(i, forced, keep, held) ==
    /\ up = "QSDK" /\ pc = "idle"
    /\ CheckImage(i) \/ forced
    /\ pc' = "unblock"
    /\ img' = i
    /\ backup' = keep
    /\ busy' = held
    /\ result' = "none"
    /\ UNCHANGED <<vol, selector, up, at, stuck>>

(* ubiblock -r for every volume; errors are discarded, and what could not  *)
(* be released stays busy.                                                 *)
Unblock ==
    /\ pc = "unblock"
    /\ pc' = "remove"
    /\ at' = 0
    /\ UNCHANGED <<vol, selector, up, img, backup, busy, stuck, result>>

(* ubirmvol of the volume, in the order of /sys/class/ubi; an error is     *)
(* discarded.                                                              *)
RemoveKernelOnly ==                                             \* mutated form
    /\ pc = "remove"
    /\ vol' = [vol EXCEPT ![0] = None]
    /\ pc' = "make" /\ at' = 0
    /\ UNCHANGED <<selector, up, img, backup, busy, stuck, result>>

Remove ==
    /\ pc = "remove"
    /\ IF at \in busy /\ vol[at] # None
       THEN stuck' = stuck \cup {at} /\ UNCHANGED vol
       ELSE vol' = [vol EXCEPT ![at] = None] /\ stuck' = stuck \ {at}
    /\ IF at = 3 THEN pc' = "make" /\ at' = 0
                 ELSE at' = at + 1 /\ UNCHANGED pc
    /\ UNCHANGED <<selector, up, img, backup, busy, result>>

Fail ==
    /\ pc' = "failed"
    /\ result' = "failed"
    /\ UNCHANGED <<vol, selector, up, at, img, backup, busy, stuck>>

(* ubimkvol -n: fails for an id in use, for the size zero of a member the  *)
(* file lacks, or otherwise; the first two volumes are filled next, after  *)
(* the third come the settings.                                            *)
CanMake == pc = "make" /\ vol[at] = None /\ (at < 2 => MemberOf(img, at) # None)

Make ==
    /\ CanMake
    /\ vol' = [vol EXCEPT ![at] = "empty"]
    /\ pc' = IF at = 2 THEN "keep" ELSE "update"
    /\ UNCHANGED <<selector, up, at, img, backup, busy, stuck, result>>

MakeIgnored ==                                                  \* mutated form
    /\ pc = "make"
    /\ \/ at < 2 /\ Fail
       \/ /\ at = 2 /\ pc' = "keep"
          /\ UNCHANGED <<vol, selector, up, at, img, backup, busy, stuck, result>>

MakeFails == pc = "make" /\ Fail

(* ubiupdatevol: sets the update marker, then writes as much as tar gives  *)
(* for the member, which is what its size was taken from; a write that     *)
(* fails or comes up short leaves the marker.                              *)
Update ==
    /\ pc = "update"
    /\ vol' = [vol EXCEPT ![at] = "partial"]
    /\ pc' = "write"
    /\ UNCHANGED <<selector, up, at, img, backup, busy, stuck, result>>

UpdateFails == pc \in {"update", "write"} /\ Fail

Write ==
    /\ pc = "write"
    /\ vol' = [vol EXCEPT ![at] = MemberOf(img, at)]
    /\ pc' = "make"
    /\ at' = at + 1
    /\ UNCHANGED <<selector, up, img, backup, busy, stuck, result>>

(* The backup is moved to the new rootfs_data when that can be mounted;    *)
(* neither a failed mount nor a failed mv changes the return value 0.      *)
Keep ==
    /\ pc = "keep"
    /\ \/ backup /\ vol' = [vol EXCEPT ![2] = "kept"]
       \/ UNCHANGED vol              \* nothing to keep, or mount or mv failed
    /\ pc' = "done"
    /\ result' = "ok"
    /\ UNCHANGED <<selector, up, at, img, backup, busy, stuck>>

----------------------------------------------------------------------------
(* The board *)

Down ==
    /\ up' = "off"
    /\ pc' = "idle"
    /\ at' = 0
    /\ busy' = {}
    /\ UNCHANGED <<vol, selector, img, backup, stuck, result>>

(* do_stage2 after a success, platform_do_upgrade after a failure.         *)
Reboot == pc \in {"done", "failed"} /\ Down

PowerCut == up # "off" /\ pc # "done" /\ pc # "failed" /\ Down

Boot ==
    /\ up = "off"
    /\ \/ selector = 0 /\ up' = "OEM"
       \/ selector = 1 /\ Bootable /\ up' = "QSDK"
    /\ UNCHANGED <<vol, selector, pc, at, img, backup, busy, stuck, result>>

(* rt3slot in the QSDK, rt3bcwrite in the OEM firmware (see SlotSwitch).   *)
Select ==
    /\ up # "off" /\ pc = "idle"
    /\ selector' = 1 - selector
    /\ UNCHANGED <<vol, up, pc, at, img, backup, busy, stuck, result>>

(* The running system keeps the settings in rootfs_data.                   *)
Configure ==
    /\ up = "QSDK" /\ pc = "idle" /\ vol[2] # None
    /\ vol' = [vol EXCEPT ![2] = "kept"]
    /\ UNCHANGED <<selector, up, pc, at, img, backup, busy, stuck, result>>

(* factory.ubi on the rescue page of U-Boot, or from the OEM firmware.     *)
Rescue ==
    /\ up \in {"off", "OEM"}
    /\ \E r \in Release, extra \in {None, "empty"} :
          vol' = Slot(r, "empty", extra)
    /\ stuck' = {}
    /\ result' = "none"
    /\ UNCHANGED <<selector, up, pc, at, img, backup, busy>>

Init ==
    /\ \E r \in Release, extra \in {None, "empty"} :
          vol = Slot(r, "kept", extra)
    /\ selector \in {0, 1}
    /\ up = "off"
    /\ pc = "idle"
    /\ at = 0
    /\ img = NoImage
    /\ backup = FALSE
    /\ busy = {}
    /\ stuck = {}
    /\ result = "none"

Step == Unblock \/ Remove \/ Make \/ MakeFails \/ Update \/ UpdateFails \/ Write \/ Keep \/ Reboot

Next ==
    \/ \E i \in File, f, k \in BOOLEAN, h \in SUBSET Volume : Start(i, f, k, h)
    \/ Step \/ PowerCut \/ Boot \/ Select \/ Configure \/ Rescue

Spec == Init /\ [][Next]_vars

----------------------------------------------------------------------------
(* Properties *)

(* Every variable stays in the set of values the scripts can give it.      *)
TypeOK ==
    /\ vol \in [Volume -> Payload]
    /\ selector \in {0, 1}
    /\ up \in {"QSDK", "OEM", "off"}
    /\ pc \in Stage
    /\ at \in Volume
    /\ img \in File
    /\ backup \in BOOLEAN
    /\ busy \subseteq Volume /\ stuck \subseteq Volume
    /\ result \in {"none", "ok", "failed"}

(* A return value of 0 means that both members of the file are complete in *)
(* the volumes U-Boot and the kernel look in, with a rootfs_data beside    *)
(* them, whatever could not be removed before.  What is in the file is not *)
(* known by that: with -F, or cut short in its root, it may not boot.      *)
OkMeansWhole ==
    result = "ok" =>
        /\ vol[0] = img.kernel /\ vol[1] = img.root
        /\ None \notin {vol[0], vol[1]} /\ vol[2] \in {"empty", "kept"}

(* No failure and no power cut pairs the kernel of one release with the    *)
(* root of another, unless ubirmvol left the old root where it was: then   *)
(* the new kernel is written, ubimkvol -n 1 fails, and the mixture boots.  *)
NoMixedBoot == Bootable /\ vol[0] # vol[1] => 1 \in stuck

(* The volumes that are about to be written hold nothing of the old        *)
(* release: what is still whole is either untouched or from the image.     *)
WholeIsOldOrNew ==
    pc \in {"make", "update", "write", "keep"} =>
        \A v \in {0, 1} :
            vol[v] \in Release => v \in stuck \/ (v < at /\ vol[v] = MemberOf(img, v))

=============================================================================
