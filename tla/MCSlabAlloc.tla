---------------------------- MODULE MCSlabAlloc ----------------------------
(* Small instances of SlabAlloc: three slabs of SLAB_SIZE chunks. *)
EXTENDS SlabAlloc
=============================================================================
