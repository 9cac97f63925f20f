-------------------------- MODULE MCIndirectAccess --------------------------
(* TLC instance of IndirectAccess: two callers, a PHY register and a VLAN  *)
(* of two values, and an address with an entry or none.  Callers, and      *)
(* values, are interchangeable.                                            *)
EXTENDS IndirectAccess, TLC

MCSymmetry == {f @@ g : f \in Permutations(Proc), g \in Permutations(Data)}

=============================================================================
