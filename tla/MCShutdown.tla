----------------------------- MODULE MCShutdown -----------------------------
(* Small instances of Shutdown for TLC. *)
EXTENDS Shutdown

CONSTANTS c1, c2, w1, t1, t2
=============================================================================
