------------------------------ MODULE MCSamlWait ------------------------------
(* The waits with the script's own timeouts, in seconds. *)
EXTENDS SamlWait
=============================================================================
