--------------------------- MODULE WriteAheadLog ---------------------------
(***************************************************************************)
(* The lines of a table's log and what applying them to a store does: the  *)
(* common ground of the primary that writes the log, the constructor that  *)
(* replays it and the replicas that are sent it.                           *)
(***************************************************************************)
EXTENDS Integers, Sequences

CONSTANTS Id,        \* vector identifiers
          Payload,   \* a vector together with its content
          Misfit,    \* payloads whose vector has the wrong dimensionality
          Absent     \* stands for "store_ has no entry for this id"

ASSUME LogAssumption == Misfit \subseteq Payload /\ Absent \notin Payload

Value == Payload \cup {Absent}

InsertEntry == [op : {"insert"}, id : Id, payload : Payload]
RemoveEntry == [op : {"remove"}, id : Id]
WriteEntry == InsertEntry \cup RemoveEntry
CreateEntry == [op |-> "create"]
LogEntry == WriteEntry \cup {CreateEntry}

\* VectorStore::Insert accepts the entry when the id is new and the vector fits.
Adds(e, id) == e.op = "insert" /\ e.id = id /\ e.payload \notin Misfit
Kills(e, id) == e.op = "remove" /\ e.id = id

\* The value of an id after VectorStore::Insert or Remove ran on entry e.
Effect(v, e, id) == IF Kills(e, id) THEN Absent
                    ELSE IF Adds(e, id) /\ v = Absent THEN e.payload
                    ELSE v

Succeeds(v, e) == IF e.op = "insert" THEN v = Absent /\ e.payload \notin Misfit
                                     ELSE v # Absent

\* An id absent before line lo and removed by none of lines lo..n has value
\* v after line n: the first insert that fits wins, later ones are refused.
FirstAdd(entries, lo, n, id, v) ==
    \/ /\ \A i \in lo .. n : ~Adds(entries[i], id)
       /\ v = Absent
    \/ \E i \in lo .. n : /\ Adds(entries[i], id)
                          /\ \A j \in lo .. (i-1) : ~Adds(entries[j], id)
                          /\ v = entries[i].payload

\* Replaying lines 1..n over a store in which id has value base leaves id with
\* value v.
Yields(base, entries, n, id, v) ==
    \/ /\ \A i \in 1 .. n : ~Kills(entries[i], id)
       /\ IF base = Absent THEN FirstAdd(entries, 1, n, id, v) ELSE v = base
    \/ \E r \in 1 .. n : /\ Kills(entries[r], id)
                         /\ \A i \in (r+1) .. n : ~Kills(entries[i], id)
                         /\ FirstAdd(entries, r+1, n, id, v)

EmptyMap == [id \in Id |-> Absent]
Present(m) == {id \in Id : m[id] # Absent}
=============================================================================
