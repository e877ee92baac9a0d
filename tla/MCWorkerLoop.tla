---------------------------- MODULE MCWorkerLoop ----------------------------
(* WorkerLoop for TLC: three loops of either kind, and two references of    *)
(* others, one of which can be dropped and made again.                      *)
EXTENDS WorkerLoop
=============================================================================
