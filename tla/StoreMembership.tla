--------------------------- MODULE StoreMembership ---------------------------
(***************************************************************************)
(* What the rest of the engine may assume of a VectorStore over an HNSW    *)
(* index, whatever the graph looks like: which ids it stores, which of     *)
(* them its index can return, and which removed ones the index still       *)
(* carries.  DurableTable uses the index at this level.                    *)
(***************************************************************************)
CONSTANT Id          \* vector identifiers

VARIABLES stored,    \* ids in VectorStore::store_
          active,    \* ids of the index's active nodes
          soft       \* ids of its removed nodes, until a cleanup

Init == stored = {} /\ active = {} /\ soft = {}

\* A stored id is refused; the index ignores an id that it still carries.
Insert(id) == /\ id \notin stored
              /\ stored' = stored \cup {id}
              /\ active' = active \cup ({id} \ soft)
              /\ UNCHANGED soft

Remove(id) == /\ id \in stored
              /\ stored' = stored \ {id}
              /\ active' = active \ {id}
              /\ soft' = soft \cup (active \cap {id})

Cleanup == soft' = {} /\ UNCHANGED <<stored, active>>

Next == (\E id \in Id : Insert(id) \/ Remove(id)) \/ Cleanup

Spec == Init /\ [][Next]_<<stored, active, soft>>
=============================================================================
