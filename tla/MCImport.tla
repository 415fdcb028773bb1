------------------------------ MODULE MCImport ------------------------------
(* A small instance of Import. *)
EXTENDS Import
=============================================================================
