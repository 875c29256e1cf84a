---------------------------- MODULE StateFollower ----------------------------
(***************************************************************************)
(* What the readers of a replica are promised: the replica goes through    *)
(* the states its primary went through, one after the other, skipping      *)
(* none and never going back, until the primary shuts down or a call to a  *)
(* replica fails.                                                          *)
(***************************************************************************)
EXTENDS Naturals, Sequences

CONSTANTS Replica,   \* the followers
          Blank      \* the state before anything was written

VARIABLES history,   \* the states of the primary, oldest first
          position,  \* per replica: how many of them it has gone through
          copy       \* per replica: the state it serves

Init == /\ history = <<Blank>>
        /\ position = [r \in Replica |-> 0]
        /\ copy = [r \in Replica |-> Blank]

\* The primary reaches a new state.
Write == /\ history # << >>
         /\ Len(history') = Len(history) + 1
         /\ SubSeq(history', 1, Len(history)) = history
         /\ UNCHANGED <<position, copy>>

\* Replica r reaches the next state of the primary.
Follow(r) == /\ position[r] < Len(history)
             /\ position' = [position EXCEPT ![r] = @ + 1]
             /\ copy' = [copy EXCEPT ![r] = history[position[r] + 1]]
             /\ UNCHANGED history

\* From here on nothing is promised.
Abandon == /\ history' = << >>
           /\ position' = [r \in Replica |-> 0]
           /\ copy' = [r \in Replica |-> Blank]

Next == Abandon \/ Write \/ \E r \in Replica : Follow(r)

Spec == Init /\ [][Next]_<<history, position, copy>>
=============================================================================
