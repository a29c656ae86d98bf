--------------------------- MODULE MCWorkerDaemon ---------------------------
(* WorkerProcess with one daemon: daemons share nothing.                   *)
EXTENDS WorkerProcess

CONSTANTS w1, id1, id2, good, bad
=============================================================================
