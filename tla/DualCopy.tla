------------------------------ MODULE DualCopy ------------------------------
(***************************************************************************)
(* What the two BOOTCONFIG copies promise the boot loader: they change one *)
(* at a time, mtd3 only while mtd2 can be read, and mtd2 only while mtd3   *)
(* holds one of the two slots the boot loader knows.  A copy that cannot   *)
(* be parsed is Bad.                                                       *)
(***************************************************************************)
EXTENDS Integers

CONSTANTS Selectors, Bad

VARIABLE val    \* the selector each copy presents, or Bad

Value == Selectors \cup {Bad}

Init ==
    /\ val \in [{"mtd3", "mtd2"} -> Value]
    /\ val["mtd3"] # Bad \/ val["mtd2"] # Bad

ChangeFirst ==
    /\ val["mtd2"] # Bad
    /\ \E v \in Value : val' = [val EXCEPT !["mtd3"] = v]

ChangeSecond ==
    /\ val["mtd3"] \in {0, 1}
    /\ \E v \in Value : val' = [val EXCEPT !["mtd2"] = v]

Next == ChangeFirst \/ ChangeSecond

Spec == Init /\ [][Next]_val

=============================================================================
