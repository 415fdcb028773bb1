----------------------------- MODULE MCStuApi -----------------------------
(* Small instances of StuApi. *)
EXTENDS StuApi, TLC

Symmetry == Permutations(Objects)
=============================================================================
