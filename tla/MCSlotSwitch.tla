----------------------------- MODULE MCSlotSwitch -----------------------------
(***************************************************************************)
(* TLC instance of SlotSwitch.  The OEM slot holds the OEM firmware, a     *)
(* QSDK, or nothing.  The QSDK slot holds a release as built or re-packed, *)
(* with both payloads recorded or the kernel only; one with a changed      *)
(* kernel, a cut kernel, a changed root or the manifest of another board;  *)
(* a UBI that does not boot; or nothing.                                   *)
(***************************************************************************)
EXTENDS SlotSwitch

A == <<"a", "b">>
B == <<"a", "c">>

Both == Manifest(TRUE, TRUE, A, A, 2)
KernelOnly == Manifest(TRUE, TRUE, A, NoHash, 0)
Foreign == Manifest(TRUE, FALSE, A, A, 2)
Lost == Manifest(FALSE, FALSE, NoHash, NoHash, 0)
Nothing == Volume(NoHash, 0, 0)

Qsdk(m, k, r) == [ubi |-> TRUE, system |-> "QSDK", manifest |-> m, kernel |-> k, rootfs |-> r]
Other(u, s) ==
    [ubi |-> u, system |-> s, manifest |-> Lost, kernel |-> Nothing, rootfs |-> Nothing]
Release(m, pad) == Qsdk(m, Volume(A, pad, 2), Volume(A, pad, 0))

MCSlot15 == {Other(TRUE, "OEM"), Release(Both, 0), Other(FALSE, "none")}
MCSlot16 ==
    {Release(Both, 0), Release(Both, 1), Release(KernelOnly, 1), Release(Foreign, 0),
     Qsdk(Both, Volume(B, 0, 2), Volume(A, 0, 0)),
     Qsdk(KernelOnly, Volume(<<"a">>, 1, 1), Volume(A, 0, 0)),
     Qsdk(Both, Volume(A, 0, 2), Volume(B, 0, 0)),
     Other(TRUE, "none"), Other(FALSE, "none")}

=============================================================================
