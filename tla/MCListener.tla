----------------------------- MODULE MCListener -----------------------------
(* Listener for TLC: a request that is waited for, one behind it and one    *)
(* that arrives later; a task that gives up and one that waits after it.    *)
EXTENDS Listener
=============================================================================
