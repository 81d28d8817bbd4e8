--------------------------- MODULE MCUpdateScripts ---------------------------
(***************************************************************************)
(* UpdateScripts for TLC, with the values of module ModelValues.           *)
(***************************************************************************)
EXTENDS UpdateScripts, ModelValues

=============================================================================
