----------------------------- MODULE DurableMap -----------------------------
(***************************************************************************)
(* What a client of one primary table is promised: a map from identifiers  *)
(* to payloads on which every logged write takes effect in one step, with  *)
(* a success flag that says what the map held at that step.  A crash, a    *)
(* restart and a graceful shutdown lose the answers still on their way and *)
(* never touch the map.                                                    *)
(***************************************************************************)
CONSTANTS Client,    \* callers of the engine
          Id,        \* vector identifiers
          Payload,   \* a vector together with its content
          Misfit,    \* payloads whose vector has the wrong dimensionality
          Absent     \* the value of an identifier that holds no payload

VARIABLES map,       \* Id -> Payload or Absent
          reply      \* Client -> answer to the client's latest write

Effective(m, id, p) == m[id] = Absent /\ p \notin Misfit

Init == /\ map = [id \in Id |-> Absent]
        /\ reply = [c \in Client |-> "none"]

Insert(c, id, p) ==
    /\ map' = IF Effective(map, id, p) THEN [map EXCEPT ![id] = p] ELSE map
    /\ reply' = [reply EXCEPT ![c] = IF Effective(map, id, p) THEN "ok" ELSE "failed"]

Remove(c, id) ==
    /\ map' = [map EXCEPT ![id] = Absent]
    /\ reply' = [reply EXCEPT ![c] = IF map[id] # Absent THEN "ok" ELSE "failed"]

\* A new call of c: its previous answer is out of the way.
Call(c) == /\ reply' = [reply EXCEPT ![c] = "none"]
           /\ UNCHANGED map

\* The process dies: nobody is answered, nothing is forgotten.
Crash == /\ reply' = [c \in Client |-> "none"]
         /\ UNCHANGED map

Next == \/ \E c \in Client, id \in Id : Remove(c, id) \/ \E p \in Payload : Insert(c, id, p)
        \/ \E c \in Client : Call(c)
        \/ Crash

Spec == Init /\ [][Next]_<<map, reply>>
=============================================================================
