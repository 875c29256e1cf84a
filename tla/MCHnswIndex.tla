---------------------------- MODULE MCHnswIndex ----------------------------
(* Small instances of HnswIndex for TLC: points on a line. *)
EXTENDS HnswIndex

\* Five nodes on three levels; queries lie on the nodes.
Place == <<0, 1, 3, 4, 7>>
Points == 1 .. 5
SomeVectors == [id \in Id |-> id]
OnALine == [pq \in Points \X Points |->
               LET d == Place[pq[1]] - Place[pq[2]] IN IF d < 0 THEN -d ELSE d]
ThreeLevels == [id \in Id |-> CASE id = 2 -> 1 [] id = 4 -> 1 [] id = 5 -> 2 [] OTHER -> 0]
=============================================================================
