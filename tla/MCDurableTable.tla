--------------------------- MODULE MCDurableTable ---------------------------
(* Small instances of DurableTable for TLC. *)
EXTENDS DurableTable

CONSTANTS c1, c2, x, y, a, b

\* Every id has one writer.
OwnIds == {<<c1, x>>, <<c2, y>>}
\* Both clients write x.
SharedIds == {<<c1, x>>, <<c2, x>>}
\* One client writes everything.
OneWriter == {<<c1, x>>, <<c1, y>>}
\* One client writes one id.
OnlyX == {<<c1, x>>}
=============================================================================
