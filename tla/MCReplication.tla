--------------------------- MODULE MCReplication ---------------------------
(* Small instances of Replication for TLC. *)
EXTENDS Replication

CONSTANTS c1, c2, x, y, a, b

\* Every id has one writer.
OwnIds == {<<c1, x>>, <<c2, y>>}
\* One client writes one id.
OnlyX == {<<c1, x>>}
=============================================================================
