----------------------------- MODULE MCRuntime ------------------------------
(* Runtime for TLC: a request that is used again and again, and two loops,   *)
(* one of which may sleep while the other makes progress.                    *)
EXTENDS Runtime
=============================================================================
