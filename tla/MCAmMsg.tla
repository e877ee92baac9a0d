------------------------------ MODULE MCAmMsg -------------------------------
(* AmMsg for TLC.  Messages meet only when their queue is dropped, so two   *)
(* show what three would.                                                   *)
EXTENDS AmMsg
=============================================================================
