---------------------------- MODULE MCConnection ----------------------------
(* Connection for TLC: two clients, and one task that waits in next().      *)
EXTENDS Connection
=============================================================================
