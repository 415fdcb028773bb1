------------------------------- MODULE MCGc -------------------------------
(* Small instances of Gc: addresses are interchangeable. *)
EXTENDS Gc, TLC

Symmetry == Permutations(Objects)
=============================================================================
