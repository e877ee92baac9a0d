----------------------------- MODULE MCAmStream -----------------------------
(* AmStream for TLC.  Three waiters are one notified, one sleeping and one  *)
(* that gives up; two streams are one replaced by the next.                 *)
EXTENDS AmStream
=============================================================================
