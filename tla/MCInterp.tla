------------------------------ MODULE MCInterp ------------------------------
(* Small instances of Interp: addresses are interchangeable. *)
EXTENDS Interp, TLC

Symmetry == Permutations(Cells)
=============================================================================
