------------------------------ MODULE MCStatus -------------------------------
(* Status for TLC: the codes that UCX has, and words of nine bits.          *)
EXTENDS Status

MCCodes == (-25 .. -1) \cup {-40, -59, -60, -80, -89}
=============================================================================
