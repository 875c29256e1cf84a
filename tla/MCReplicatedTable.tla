-------------------------- MODULE MCReplicatedTable --------------------------
(* Small instances of ReplicatedTable for TLC. *)
EXTENDS ReplicatedTable

CONSTANTS d1, d2
=============================================================================
