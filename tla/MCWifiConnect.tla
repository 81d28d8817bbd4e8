---------------------------- MODULE MCWifiConnect ----------------------------
(* WifiConnect with the events of ModelValues.                             *)
EXTENDS WifiConnect, ModelValues

=============================================================================
