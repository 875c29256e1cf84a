-------------------------- MODULE MCTableLifecycle --------------------------
(* Small instances of TableLifecycle for TLC. *)
EXTENDS TableLifecycle

CONSTANTS d1, d2
=============================================================================
