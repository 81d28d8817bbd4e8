----------------------------- MODULE MCPrograms -----------------------------
(***************************************************************************)
(* Programs for TLC, with the values of module ModelValues.                *)
(***************************************************************************)
EXTENDS Programs, ModelValues

=============================================================================
