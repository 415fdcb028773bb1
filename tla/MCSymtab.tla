------------------------------ MODULE MCSymtab ------------------------------
(* A small instance of Symtab: three keys collide, one of which is what is *)
(* left of a longer one in the other bucket.                               *)
EXTENDS Symtab, TLC

CONSTANTS a, b, cut, long

MCKeys == {a, b, cut, long}
MCBucket == [key \in MCKeys |-> IF key = long THEN 1 ELSE 0]
MCCut == [key \in MCKeys |-> IF key = long THEN cut ELSE key]
Symmetry == Permutations(Entries)
=============================================================================
