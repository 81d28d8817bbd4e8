----------------------------- MODULE MCLifecycle -----------------------------
(* Lifecycle with two channels, three turns of mainLoop and one command a turn.  *)
EXTENDS Lifecycle

=============================================================================
