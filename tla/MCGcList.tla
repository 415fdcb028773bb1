------------------------------ MODULE MCGcList ------------------------------
(* Small instances of GcList. *)
EXTENDS GcList
=============================================================================
