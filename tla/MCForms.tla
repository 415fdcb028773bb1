------------------------------ MODULE MCForms ------------------------------
(* Small instances of Forms. *)
EXTENDS Forms
=============================================================================
