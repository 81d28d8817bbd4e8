----------------------------- MODULE MCCloudAuth -----------------------------
(* CloudAuth with arrays of eight characters, the signatures and random    *)
(* numbers of ModelValues, two streams and four requests.                  *)
EXTENDS CloudAuth, ModelValues

=============================================================================
