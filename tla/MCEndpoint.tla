----------------------------- MODULE MCEndpoint -----------------------------
(* Endpoint for TLC: two statuses, the one closed() sets and another.      *)
EXTENDS Endpoint

MCFaults == {ConnReset, "UCS_ERR_ENDPOINT_TIMEOUT"}
=============================================================================
