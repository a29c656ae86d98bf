---------------------------- MODULE MCStateStore ----------------------------
(* StateStore with one key in most tables and a bounded history.           *)
EXTENDS StateStore

CONSTANTS r, t, w, j, k1
=============================================================================
