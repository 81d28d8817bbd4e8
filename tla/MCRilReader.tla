----------------------------- MODULE MCRilReader -----------------------------
(***************************************************************************)
(* RilReader for model checking: the command lines of ModelValues.         *)
(***************************************************************************)
EXTENDS RilReader, ModelValues

=============================================================================
