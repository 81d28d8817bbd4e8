--------------------------- MODULE MCRecoverySocket ---------------------------
(***************************************************************************)
(* RecoverySocket for model checking: the command lines and stack contents *)
(* of ModelValues.                                                         *)
(***************************************************************************)
EXTENDS RecoverySocket, ModelValues

=============================================================================
