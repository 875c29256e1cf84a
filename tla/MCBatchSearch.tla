--------------------------- MODULE MCBatchSearch ---------------------------
(* Small instances of BatchSearch for TLC. *)
EXTENDS BatchSearch

CONSTANTS s1, s2, w1, w2, u1, u2, p, q

\* Single requests, two of which differ in an odd component only, and a
\* batch of two: four batches with three keys.
R(k, v, o) == [k |-> k, param |-> 5, even |-> v, odd |-> o]
FourBatches == {<<R(3, q, p)>>, <<R(3, q, q)>>, <<R(2, q, p)>>, <<R(2, p, p), R(3, q, p)>>}
TwoBatches == {<<R(3, q, p)>>, <<R(2, p, p), R(3, q, p)>>}
OddBatches == {<<R(3, q, p)>>, <<R(3, q, q)>>}
\* The second searcher asks for single requests, one of them under a key of the first's.
SomeAsks == {<<s1, b>> : b \in FourBatches \ {<<R(3, q, q)>>}} \cup {<<s2, <<R(3, q, q)>>>>, <<s2, <<R(2, q, p)>>>>}
OneAsks == {<<s1, b>> : b \in TwoBatches}
OddAsks == {<<s1, b>> : b \in OddBatches}
Primary == {"primary"}
BothRoles == {"primary", "replica"}
Replica == {"replica"}
=============================================================================
