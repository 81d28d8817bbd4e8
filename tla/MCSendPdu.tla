----------------------------- MODULE MCSendPdu -----------------------------
(* SendPdu with the command lines of ModelValues.                          *)
EXTENDS SendPdu, ModelValues

=============================================================================
