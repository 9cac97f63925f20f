--------------------------- MODULE ReleaseIdentity ---------------------------
(***************************************************************************)
(* rt3release verify: the identity of a running release is the content of  *)
(* its kernel and root file system, compared with the hashes its manifest  *)
(* records.  A payload is the sequence of blocks its volume gives and the  *)
(* size a FIT header in it declares; SHA-256 is taken to be injective, so  *)
(* a hash is the content that was hashed.                                  *)
(*                                                                         *)
(* The command keeps no state: SlotSwitch runs it on the slot the board    *)
(* has booted.  A read that fails (status 6) is a step of that module.     *)
(***************************************************************************)
EXTENDS Integers, Sequences

CONSTANT Pad       \* what a volume is filled up with

(* A volume: its content, blocks of padding behind it, and the size its    *)
(* FIT header declares, 0 for no FIT or a size outside 8 bytes to 64 MiB.  *)
Volume(c, p, f) == [data |-> c, pad |-> p, fit |-> f]

(* kernel and rootfs are the recorded hashes, size the recorded length of  *)
(* the root (0: none); loads stands for everything manifest_load requires  *)
(* of file, schema, fields and the length of the kernel hash.              *)
Manifest(l, b, k, r, s) ==
    [loads |-> l, machineB |-> b, kernel |-> k, rootfs |-> r, size |-> s]

NoHash == <<>>

EX_OK == 0
EX_NOMAN == 3
EX_MISMATCH == 4
EX_HW == 5

Bytes(v) == v.data \o [b \in 1..v.pad |-> Pad]

(* hash_region: maxlen 0 means to the end, otherwise at most maxlen.       *)
HashRegion(v, maxlen) ==
    IF maxlen = 0 \/ maxlen >= Len(Bytes(v)) THEN Bytes(v) ELSE SubSeq(Bytes(v), 1, maxlen)

HashKernelPadded(v) == HashRegion(v, 0)                         \* mutated form
HashKernel(v) == HashRegion(v, v.fit)

KernelMatch(m, k) == HashKernel(k) = m.kernel

(* A root without a recorded hash is not compared, and passes.             *)
RootfsMatch(m, r) == m.rootfs = NoHash \/ HashRegion(r, m.size) = m.rootfs

(* The exit status of verify.                                              *)
Verify(m, k, r) ==
    IF ~m.loads THEN EX_NOMAN
    ELSE IF ~m.machineB THEN EX_HW
    ELSE IF KernelMatch(m, k) /\ RootfsMatch(m, r) THEN EX_OK
    ELSE EX_MISMATCH

----------------------------------------------------------------------------
(* What the status is to say, without the lengths the command works with.  *)

Holds(v, c) == Len(Bytes(v)) >= Len(c) /\ SubSeq(Bytes(v), 1, Len(c)) = c

(* The kernel the build recorded is in the slot, and its root where that   *)
(* is recorded, with a manifest of this machine.                           *)
Genuine(m, k, r) == m.loads /\ m.machineB /\ Holds(k, m.kernel) /\ Holds(r, m.rootfs)

(* The slot is as the build made it, however much padding a re-pack left.  *)
AsBuilt(m, k, r) ==
    /\ m.loads /\ m.machineB
    /\ k.data = m.kernel /\ k.fit = Len(m.kernel)
    /\ m.rootfs = NoHash \/ (r.data = m.rootfs /\ m.size = Len(m.rootfs))

=============================================================================
