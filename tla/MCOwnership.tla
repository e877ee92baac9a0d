---------------------------- MODULE MCOwnership -----------------------------
(* Ownership for TLC: an object of each kind, two polling tasks that may     *)
(* share the worker, and two variables to hold things in.                    *)
EXTENDS Ownership
=============================================================================
