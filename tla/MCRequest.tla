----------------------------- MODULE MCRequest ------------------------------
(* Request for TLC.  Two slots are enough for a slot to be reused while the *)
(* other is still in flight.                                                *)
EXTENDS Request
=============================================================================
