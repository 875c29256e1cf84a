------------------------- MODULE HnswIndex_proofs -------------------------
(***************************************************************************)
(* The entry point of the index and which ids it carries, what a search    *)
(* returns, the edges of the graph and the answers that depend on them,    *)
(* for any ids, vectors, metric, levels and parameters.  The sections on   *)
(* the entry point and on the membership do not depend on the edges.       *)
(***************************************************************************)
EXTENDS HnswIndex, Recursion_proofs, FiniteSetTheorems

\* The types of everything but the edges.
Typed == /\ stored \in SUBSET Id /\ nodes \in SUBSET Id
         /\ active \in SUBSET Id /\ pending \in SUBSET Id
         /\ byLevel \in [Levels -> SUBSET Id]
         /\ top \in Levels \cup {-1}

\* What holds whether or not soft-removed ids are inserted again.
IndexInv == /\ Typed
            /\ LevelsListed
            /\ active \subseteq nodes
            /\ active \cup pending \subseteq stored
            /\ pending # {} => nodes = active
            /\ entry = NoEntry => active = {}
            /\ \A id \in active : Level[id] <= top

\* The entry point of an index that is never asked for a soft-removed id.
EntryInv == /\ stored = active \cup pending
            /\ entry = NoEntry => top = -1
            /\ entry # NoEntry => entry \in active /\ top = Level[entry]

\* Levels are numbers, and no id is the missing entry point.
LEMMA LevelIsNumber ==
    \A id \in Id : Level[id] \in Levels /\ Level[id] \in Nat /\ id # NoEntry
BY ConstantsAssumption DEF ConstantsAssumption, Levels, NoEntry

\* A list of levels with one more id, or one less.
LEMMA ListedMore ==
    ASSUME Typed, LevelsListed, NEW id \in Id,
           active' = active \cup {id},
           byLevel' = [byLevel EXCEPT ![Level[id]] = @ \cup {id}]
    PROVE  byLevel' \in [Levels -> SUBSET Id] /\ LevelsListed'
<1>1. Level[id] \in Levels
  BY LevelIsNumber
<1>2. byLevel' \in [Levels -> SUBSET Id]
  BY <1>1 DEF Typed
<1>3. ASSUME NEW l \in Levels PROVE byLevel'[l] = {x \in active' : Level[x] = l}
  <2>1. byLevel[l] = {x \in active : Level[x] = l}
    BY DEF LevelsListed
  <2>2. CASE l = Level[id]
    <3>1. byLevel'[l] = byLevel[l] \cup {id}
      BY <1>1, <2>2 DEF Typed
    <3> QED BY <2>1, <2>2, <3>1
  <2>3. CASE l # Level[id]
    <3>1. byLevel'[l] = byLevel[l]
      BY <1>1, <2>3 DEF Typed
    <3> QED BY <2>1, <2>3, <3>1
  <2> QED BY <2>2, <2>3
<1> QED BY <1>2, <1>3 DEF LevelsListed

LEMMA ListedLess ==
    ASSUME Typed, LevelsListed, NEW id \in Id,
           active' = active \ {id},
           byLevel' = [byLevel EXCEPT ![Level[id]] = @ \ {id}]
    PROVE  byLevel' \in [Levels -> SUBSET Id] /\ LevelsListed'
<1>1. Level[id] \in Levels
  BY LevelIsNumber
<1>2. byLevel' \in [Levels -> SUBSET Id]
  BY <1>1 DEF Typed
<1>3. ASSUME NEW l \in Levels PROVE byLevel'[l] = {x \in active' : Level[x] = l}
  <2>1. byLevel[l] = {x \in active : Level[x] = l}
    BY DEF LevelsListed
  <2>2. CASE l = Level[id]
    <3>1. byLevel'[l] = byLevel[l] \ {id}
      BY <1>1, <2>2 DEF Typed
    <3> QED BY <2>1, <2>2, <3>1
  <2>3. CASE l # Level[id]
    <3>1. byLevel'[l] = byLevel[l]
      BY <1>1, <2>3 DEF Typed
    <3> QED BY <2>1, <2>3, <3>1
  <2> QED BY <2>2, <2>3
<1> QED BY <1>2, <1>3 DEF LevelsListed

\* A new node is on the highest level, or below the entry point.
LEMMA InsertNodeEntry ==
    ASSUME IndexInv, NEW id \in Id, InsertNode(id)
    PROVE  /\ nodes' = nodes \cup {id} /\ active' = active \cup {id}
           /\ byLevel' \in [Levels -> SUBSET Id] /\ LevelsListed'
           /\ top' \in Levels \cup {-1}
           /\ entry' # NoEntry
           /\ \A x \in active' : Level[x] <= top'
           /\ EntryInv => entry' \in active' /\ top' = Level[entry']
<1>1. /\ nodes' = nodes \cup {id} /\ active' = active \cup {id}
      /\ byLevel' = [byLevel EXCEPT ![Level[id]] = @ \cup {id}]
  BY DEF InsertNode
<1>2. byLevel' \in [Levels -> SUBSET Id] /\ LevelsListed'
  BY <1>1, ListedMore DEF IndexInv
<1>3. top \in Int /\ Level[id] \in Levels /\ Level[id] \in Nat /\ id # NoEntry
      /\ \A x \in active : Level[x] \in Nat
  BY LevelIsNumber DEF IndexInv, Typed, Levels
<1>4. CASE entry = NoEntry \/ Level[id] > top
  <2>1. entry' = id /\ top' = Level[id]
    BY <1>4 DEF InsertNode
  <2>2. \A x \in active : Level[x] <= Level[id]
    BY <1>3, <1>4 DEF IndexInv
  <2> QED BY <1>1, <1>2, <1>3, <2>1, <2>2
<1>5. CASE ~(entry = NoEntry \/ Level[id] > top)
  <2>1. UNCHANGED <<entry, top>>
    BY <1>5 DEF InsertNode
  <2>2. Level[id] <= top
    BY <1>3, <1>5
  <2> QED BY <1>1, <1>2, <1>5, <2>1, <2>2 DEF IndexInv, Typed, EntryInv
<1> QED BY <1>4, <1>5

\* The entry point that goes is replaced by a node of the highest level left.
LEMMA RemoveNodeEntry ==
    ASSUME IndexInv, NEW id \in Id, RemoveNode(id)
    PROVE  /\ nodes' = nodes /\ active' = active \ {id}
           /\ byLevel' \in [Levels -> SUBSET Id] /\ LevelsListed'
           /\ top' \in Levels \cup {-1}
           /\ entry' = NoEntry => active' = {}
           /\ \A x \in active' : Level[x] <= top'
           /\ EntryInv => /\ entry' = NoEntry => top' = -1
                          /\ entry' # NoEntry => entry' \in active' /\ top' = Level[entry']
<1> DEFINE left == [byLevel EXCEPT ![Level[id]] = @ \ {id}]
           high == {l \in 0 .. top : left[l] # {}}
<1>1. nodes' = nodes /\ active' = active \ {id} /\ byLevel' = left
  BY DEF RemoveNode
<1>2. byLevel' \in [Levels -> SUBSET Id] /\ LevelsListed'
  BY <1>1, ListedLess DEF IndexInv
<1>3. CASE id # entry
  <2>1. UNCHANGED <<entry, top>>
    BY <1>3 DEF RemoveNode
  <2> QED BY <1>1, <1>2, <1>3, <2>1 DEF IndexInv, Typed, EntryInv
<1>4. \A x \in active' : Level[x] \in high
  <2> SUFFICES ASSUME NEW x \in active' PROVE Level[x] \in high
    OBVIOUS
  <2>1. x \in active /\ x \in Id
    BY <1>1 DEF IndexInv, Typed
  <2>2. Level[x] \in Levels /\ Level[x] \in Nat /\ Level[x] <= top /\ top \in Int
    BY <2>1, LevelIsNumber DEF IndexInv, Typed, Levels
  <2>3. x \in left[Level[x]]
    BY <1>1, <1>2, <2>2 DEF LevelsListed
  <2> QED BY <2>2, <2>3
<1>5. CASE id = entry /\ high = {}
  <2>1. entry' = NoEntry /\ top' = -1
    BY <1>5 DEF RemoveNode
  <2>2. active' = {}
    BY <1>4, <1>5
  <2> QED BY <1>1, <1>2, <2>1, <2>2
<1>6. CASE id = entry /\ high # {}
  <2>1. PICK l \in high : /\ \A k \in high : k <= l
                          /\ top' = l
                          /\ entry' \in left[l] \cap active'
    BY <1>6 DEF RemoveNode
  <2>2. \A x \in active' : Level[x] <= l
    BY <1>4, <2>1
  <2>3. l \in Levels
    BY <2>1, ConstantsAssumption DEF IndexInv, Typed, Levels, ConstantsAssumption
  <2>4. entry' \in active' /\ Level[entry'] = l
    BY <1>1, <1>2, <2>1, <2>3 DEF LevelsListed
  <2>5. entry' # NoEntry
    BY <1>1, <2>4, LevelIsNumber DEF IndexInv, Typed
  <2> QED BY <1>1, <1>2, <2>1, <2>2, <2>3, <2>4, <2>5
<1> QED BY <1>3, <1>5, <1>6

\* The empty index.
Emptied == /\ nodes' = {} /\ active' = {}
           /\ byLevel' = [l \in Levels |-> {}]
           /\ entry' = NoEntry /\ top' = -1

\* Every step keeps the invariant.
LEMMA IndexStep == IndexInv /\ [Next]_vars => IndexInv'
<1> SUFFICES ASSUME IndexInv, [Next]_vars PROVE IndexInv'
  OBVIOUS
<1>1. ASSUME NEW id \in Id, Insert(id) PROVE IndexInv'
  <2>1. pending = {} /\ pending' = pending /\ stored' = stored \cup {id}
    BY <1>1 DEF Insert
  <2>2. CASE id \in nodes
    BY <1>1, <2>1, <2>2 DEF Insert, IndexInv, Typed, LevelsListed, index
  <2>3. CASE id \notin nodes
    <3>1. InsertNode(id)
      BY <1>1, <2>3 DEF Insert
    <3> QED BY <2>1, <3>1, InsertNodeEntry DEF IndexInv, Typed
  <2> QED BY <2>2, <2>3
<1>2. ASSUME NEW id \in Id, Remove(id) PROVE IndexInv'
  <2>1. pending = {} /\ pending' = pending /\ stored' = stored \ {id}
    BY <1>2 DEF Remove
  <2>2. CASE entry # NoEntry /\ id \in active
    <3>1. RemoveNode(id)
      BY <1>2, <2>2 DEF Remove
    <3> QED BY <2>1, <3>1, RemoveNodeEntry DEF IndexInv, Typed
  <2>3. CASE ~(entry # NoEntry /\ id \in active)
    <3>1. UNCHANGED index /\ id \notin active
      BY <1>2, <2>3 DEF Remove, IndexInv
    <3> QED BY <2>1, <3>1 DEF IndexInv, Typed, LevelsListed, index
  <2> QED BY <2>2, <2>3
<1>3. CASE Cleanup
  BY <1>3 DEF Cleanup, IndexInv, Typed, LevelsListed
<1>4. ASSUME Emptied, pending' \subseteq stored, stored' = stored PROVE IndexInv'
  BY <1>4 DEF Emptied, IndexInv, Typed, LevelsListed
<1>5. CASE BeginReindex
  BY <1>4, <1>5 DEF BeginReindex, Emptied, IndexInv
<1>6. ASSUME NEW id \in Id, ReindexNode(id) PROVE IndexInv'
  <2>1. /\ id \in pending /\ pending' = pending \ {id} /\ stored' = stored
        /\ InsertNode(id) /\ nodes = active
    BY <1>6 DEF ReindexNode, IndexInv
  <2> QED BY <2>1, InsertNodeEntry DEF IndexInv, Typed
<1>7. CASE Reload
  <2>1. pending = {} /\ pending' = pending /\ stored' = stored
    BY <1>7 DEF Reload
  <2>2. CASE stored = {}
    BY <1>4, <1>7, <2>1, <2>2 DEF Reload, Emptied
  <2>3. CASE stored # {}
    <3>1. UNCHANGED <<nodes, active, byLevel, top>> /\ (entry' = 0 \/ entry' = entry)
      BY <1>7, <2>3 DEF Reload
    <3> QED BY <2>1, <3>1 DEF IndexInv, Typed, LevelsListed, NoEntry
  <2> QED BY <2>2, <2>3
<1>8. CASE UNCHANGED vars
  BY <1>8 DEF vars, index, IndexInv, Typed, LevelsListed
<1> QED BY <1>1, <1>2, <1>3, <1>5, <1>6, <1>7, <1>8 DEF Next

\* The index starts empty.
LEMMA IndexInit == Init => IndexInv /\ EntryInv
BY DEF Init, IndexInv, Typed, LevelsListed, EntryInv, NoEntry

\* Without insertions of soft-removed ids the entry point follows the nodes.
LEMMA EntryStep ==
    ASSUME Reinserts = FALSE
    PROVE  IndexInv /\ EntryInv /\ [Next]_vars => EntryInv'
<1> SUFFICES ASSUME IndexInv, EntryInv, [Next]_vars PROVE EntryInv'
  OBVIOUS
<1>1. ASSUME NEW id \in Id, Insert(id) PROVE EntryInv'
  <2>1. /\ pending = {} /\ pending' = pending /\ stored' = stored \cup {id}
        /\ InsertNode(id)
    BY <1>1 DEF Insert
  <2> QED BY <2>1, InsertNodeEntry DEF EntryInv
<1>2. ASSUME NEW id \in Id, Remove(id) PROVE EntryInv'
  <2>1. pending = {} /\ pending' = pending /\ stored' = stored \ {id} /\ id \in stored
    BY <1>2 DEF Remove
  <2>2. id \in active /\ entry # NoEntry
    BY <2>1 DEF EntryInv, IndexInv
  <2>3. RemoveNode(id)
    BY <1>2, <2>2 DEF Remove
  <2> QED BY <2>1, <2>3, RemoveNodeEntry DEF EntryInv
<1>3. CASE Cleanup
  BY <1>3 DEF Cleanup, EntryInv
<1>4. CASE BeginReindex
  BY <1>4 DEF BeginReindex, EntryInv
<1>5. ASSUME NEW id \in Id, ReindexNode(id) PROVE EntryInv'
  <2>1. id \in pending /\ pending' = pending \ {id} /\ stored' = stored /\ InsertNode(id)
    BY <1>5 DEF ReindexNode
  <2> QED BY <2>1, InsertNodeEntry DEF EntryInv
<1>6. CASE Reload
  <2>1. pending = {} /\ pending' = pending /\ stored' = stored
    BY <1>6 DEF Reload
  <2>2. CASE stored = {}
    BY <1>6, <2>1, <2>2 DEF Reload, EntryInv
  <2>3. CASE stored # {}
    <3>1. entry # NoEntry
      BY <2>1, <2>3 DEF EntryInv, IndexInv
    <3> QED BY <1>6, <2>1, <2>3, <3>1 DEF Reload, EntryInv
  <2> QED BY <2>2, <2>3
<1>7. CASE UNCHANGED vars
  BY <1>7 DEF vars, index, EntryInv
<1> QED BY <1>1, <1>2, <1>3, <1>4, <1>5, <1>6, <1>7 DEF Next

\* A search starts at an active node of the highest level any active node has.
THEOREM EntryIsHighest ==
    ASSUME Reinserts = FALSE
    PROVE  Spec => []EntryHighest
<1>1. Init => IndexInv /\ EntryInv
  BY IndexInit
<1>2. IndexInv /\ EntryInv /\ [Next]_vars => IndexInv' /\ EntryInv'
  BY IndexStep, EntryStep
<1>3. IndexInv /\ EntryInv => EntryHighest
  BY DEF IndexInv, EntryInv, EntryHighest
<1> QED BY <1>1, <1>2, <1>3, PTL DEF Spec

-----------------------------------------------------------------------------
(* The index implements StoreMembership.                                   *)

\* Every step changes the membership as StoreMembership says, or not at all.
LEMMA MembershipStep ==
    IndexInv /\ [Next]_vars
        => [Membership!Next]_<<stored, active \cup pending, nodes \ active>>
<1> DEFINE Goal == [Membership!Next]_<<stored, active \cup pending, nodes \ active>>
<1> SUFFICES ASSUME IndexInv, [Next]_vars PROVE Goal
  OBVIOUS
<1>1. ASSUME NEW id \in Id, Insert(id) PROVE Membership!Insert(id)
  <2>1. /\ pending = {} /\ pending' = pending
        /\ id \notin stored /\ stored' = stored \cup {id}
    BY <1>1 DEF Insert
  <2>2. CASE id \in nodes
    <3>1. UNCHANGED <<nodes, active>>
      BY <1>1, <2>2 DEF Insert, index
    <3> QED BY <2>1, <2>2, <3>1 DEF Membership!Insert
  <2>3. CASE id \notin nodes
    <3>1. nodes' = nodes \cup {id} /\ active' = active \cup {id}
      BY <1>1, <2>3 DEF Insert, InsertNode
    <3> QED BY <2>1, <2>3, <3>1 DEF Membership!Insert, IndexInv
  <2> QED BY <2>2, <2>3
<1>2. ASSUME NEW id \in Id, Remove(id) PROVE Membership!Remove(id)
  <2>1. /\ pending = {} /\ pending' = pending
        /\ id \in stored /\ stored' = stored \ {id}
    BY <1>2 DEF Remove
  <2>2. CASE entry # NoEntry /\ id \in active
    <3>1. nodes' = nodes /\ active' = active \ {id}
      BY <1>2, <2>2 DEF Remove, RemoveNode
    <3> QED BY <2>1, <2>2, <3>1 DEF Membership!Remove, IndexInv
  <2>3. CASE ~(entry # NoEntry /\ id \in active)
    <3>1. UNCHANGED <<nodes, active>> /\ id \notin active
      BY <1>2, <2>3 DEF Remove, IndexInv, index
    <3> QED BY <2>1, <3>1 DEF Membership!Remove
  <2> QED BY <2>2, <2>3
<1>3. CASE Cleanup
  <2>1. Membership!Cleanup
    BY <1>3 DEF Cleanup, Membership!Cleanup
  <2> QED BY <2>1 DEF Membership!Next
<1>4. CASE BeginReindex
  <2>1. Membership!Cleanup
    BY <1>4 DEF BeginReindex, Membership!Cleanup
  <2> QED BY <2>1 DEF Membership!Next
<1>5. ASSUME NEW id \in Id, ReindexNode(id) PROVE Goal
  <2>1. /\ id \in pending /\ pending' = pending \ {id} /\ stored' = stored
        /\ nodes' = nodes \cup {id} /\ active' = active \cup {id} /\ nodes = active
    BY <1>5 DEF ReindexNode, InsertNode, IndexInv
  <2>2. active' \cup pending' = active \cup pending /\ nodes' \ active' = nodes \ active
    BY <2>1
  <2> QED BY <2>1, <2>2
<1>6. CASE Reload
  <2>1. /\ pending' = pending /\ stored' = stored /\ nodes = active
        /\ stored = {} => active = {}
    BY <1>6 DEF Reload, IndexInv
  <2>2. UNCHANGED <<nodes, active>>
    BY <1>6, <2>1 DEF Reload
  <2> QED BY <2>1, <2>2
<1>7. CASE UNCHANGED vars
  BY <1>7 DEF vars, index
<1> QED BY <1>1, <1>2, <1>3, <1>4, <1>5, <1>6, <1>7 DEF Next, Membership!Next

\* Levels, edges, soft removal, reindexing and reloading change nothing about
\* which ids are stored, active or soft-removed.
THEOREM MembershipImplemented == Spec => ImplementsMembership
<1>1. Init => Membership!Init
  BY DEF Init, Membership!Init
<1>2. Init => IndexInv
  BY IndexInit
<1>3. IndexInv /\ [Next]_vars => IndexInv'
  BY IndexStep
<1>4. IndexInv /\ [Next]_vars
        => [Membership!Next]_<<stored, active \cup pending, nodes \ active>>
  BY MembershipStep
<1> QED BY <1>1, <1>2, <1>3, <1>4, PTL DEF Spec, ImplementsMembership, Membership!Spec

-----------------------------------------------------------------------------
(* Ids by their distance from a query.                                     *)

LEMMA FarIsNumber == \A q \in Point, x \in Id : Far(q, x) \in Nat /\ x \in Nat
BY ConstantsAssumption DEF ConstantsAssumption, Far

\* Pairs (distance, id) are totally ordered.
LEMMA NearerOrder ==
    ASSUME NEW q \in Point
    PROVE  /\ \A x \in Id : ~Nearer(q, x, x)
           /\ \A x, y \in Id : x # y => Nearer(q, x, y) \/ Nearer(q, y, x)
           /\ \A x, y \in Id : Nearer(q, x, y) => ~Nearer(q, y, x) /\ Far(q, x) <= Far(q, y)
           /\ \A x, y, z \in Id : Nearer(q, x, y) /\ Nearer(q, y, z) => Nearer(q, x, z)
BY FarIsNumber DEF Nearer

\* Subsets of Id are finite.
LEMMA IdsFinite ==
    \A ids \in SUBSET Id : IsFiniteSet(ids) /\ Cardinality(ids) \in Nat
BY ConstantsAssumption, FS_Subset, FS_CardinalityType DEF ConstantsAssumption

\* How many of ids are nearer than x.
Rank(q, ids, x) == Cardinality({y \in ids : Nearer(q, y, x)})

\* A nearer id has a lower rank.
LEMMA RankOrder ==
    ASSUME NEW q \in Point, NEW ids \in SUBSET Id
    PROVE  /\ \A x \in ids : Rank(q, ids, x) \in 0 .. Cardinality(ids) - 1
           /\ \A x, y \in ids : Nearer(q, x, y) => Rank(q, ids, x) < Rank(q, ids, y)
<1> DEFINE Before(x) == {y \in ids : Nearer(q, y, x)}
<1>1. \A x \in ids : Before(x) \in SUBSET Id
  OBVIOUS
<1>2. \A x \in ids : IsFiniteSet(Before(x)) /\ Cardinality(Before(x)) \in Nat
  BY <1>1, IdsFinite
<1>3. IsFiniteSet(ids) /\ Cardinality(ids) \in Nat
  BY IdsFinite
<1>4. ASSUME NEW x \in ids PROVE Rank(q, ids, x) \in 0 .. Cardinality(ids) - 1
  <2>1. Before(x) \in SUBSET ids /\ Before(x) # ids
    BY NearerOrder
  <2>2. Cardinality(Before(x)) <= Cardinality(ids) /\ Cardinality(Before(x)) # Cardinality(ids)
    <3> HIDE DEF Before
    <3> QED BY <1>3, <2>1, FS_Subset
  <2> QED BY <1>2, <1>3, <2>2 DEF Rank
<1>5. ASSUME NEW x \in ids, NEW y \in ids, Nearer(q, x, y)
      PROVE  Rank(q, ids, x) < Rank(q, ids, y)
  <2>1. Before(x) \subseteq Before(y)
    BY <1>5, NearerOrder
  <2>2. x \in Before(y) /\ x \notin Before(x)
    BY <1>5, NearerOrder
  <2>3. Cardinality(Before(x)) <= Cardinality(Before(y)) /\ Cardinality(Before(x)) # Cardinality(Before(y))
    <3> HIDE DEF Before
    <3> QED BY <1>2, <2>1, <2>2, FS_Subset
  <2> QED BY <1>2, <2>3 DEF Rank
<1> QED BY <1>4, <1>5

\* Each rank is that of exactly one id.
LEMMA RankOnto ==
    ASSUME NEW q \in Point, NEW ids \in SUBSET Id
    PROVE  /\ \A i \in 1 .. Cardinality(ids) : \E x \in ids : Rank(q, ids, x) = i - 1
           /\ \A x, y \in ids : Rank(q, ids, x) = Rank(q, ids, y) => x = y
<1> DEFINE n == Cardinality(ids)
           rank == [x \in ids |-> Rank(q, ids, x)]
<1>1. n \in Nat /\ IsFiniteSet(ids)
  BY IdsFinite
<1>2. \A x, y \in ids : Rank(q, ids, x) = Rank(q, ids, y) => x = y
  BY RankOrder, NearerOrder
<1>3. rank \in Injection(ids, 0 .. n - 1)
  BY <1>2, RankOrder DEF Injection, IsInjective
<1>4. IsFiniteSet(0 .. n - 1) /\ Cardinality(0 .. n - 1) = n
  BY <1>1, FS_Interval
<1>5. rank \in Surjection(ids, 0 .. n - 1)
  <2> HIDE DEF rank
  <2> QED BY <1>3, <1>4, FS_Injection
<1>6. \A t \in 0 .. n - 1 : \E x \in ids : rank[x] = t
  BY <1>5 DEF Surjection
<1>7. ASSUME NEW i \in 1 .. n PROVE \E x \in ids : Rank(q, ids, x) = i - 1
  <2>1. i - 1 \in 0 .. n - 1
    BY <1>1
  <2> QED BY <1>6, <2>1
<1> QED BY <1>2, <1>7

\* The nearest and the farthest of some ids.
LEMMA NearestNear ==
    ASSUME NEW q \in Point, NEW ids \in SUBSET Id, ids # {}
    PROVE  /\ Nearest(q, ids) \in ids
           /\ \A x \in ids : Far(q, Nearest(q, ids)) <= Far(q, x)
           /\ \A x \in ids \ {Nearest(q, ids)} : Nearer(q, Nearest(q, ids), x)
<1> DEFINE mu == [x \in ids |-> Rank(q, ids, x)]
<1>1. mu \in [ids -> Nat]
  BY RankOrder, IdsFinite
<1>2. PICK n \in ids : \A x \in ids : mu[n] <= mu[x]
  <2> HIDE DEF mu
  <2> QED BY <1>1, LeastMeasure
<1>3. \A x \in ids \ {n} : Nearer(q, n, x)
  BY <1>1, <1>2, RankOrder, NearerOrder
<1>4. Nearest(q, ids) \in ids /\ \A x \in ids \ {Nearest(q, ids)} : Nearer(q, Nearest(q, ids), x)
  BY <1>3 DEF Nearest
<1> QED BY <1>4, NearerOrder, FarIsNumber

LEMMA FarthestFar ==
    ASSUME NEW q \in Point, NEW ids \in SUBSET Id, ids # {}
    PROVE  /\ Farthest(q, ids) \in ids
           /\ \A x \in ids : Far(q, x) <= Far(q, Farthest(q, ids))
<1>1. Cardinality(ids) \in Nat /\ Cardinality(ids) # 0
  BY IdsFinite, FS_EmptySet
<1>2. PICK n \in ids : Rank(q, ids, n) = Cardinality(ids) - 1
  BY <1>1, RankOnto
<1>3. \A x \in ids \ {n} : Nearer(q, x, n)
  BY <1>1, <1>2, RankOrder, NearerOrder
<1>4. Farthest(q, ids) \in ids /\ \A x \in ids \ {Farthest(q, ids)} : Nearer(q, x, Farthest(q, ids))
  BY <1>3 DEF Farthest
<1> QED BY <1>4, NearerOrder, FarIsNumber

\* ByDistance lists each id once, and FirstOf takes the nearest of them.
LEMMA FirstNearest ==
    ASSUME NEW q \in Point, NEW ids \in SUBSET Id, NEW k \in Nat
    PROVE  LET s == FirstOf(ByDistance(q, ids), k)
               n == Cardinality(ids)
               m == IF n < k THEN n ELSE k
           IN  /\ s \in [1 .. m -> ids] /\ m \in Nat /\ Len(s) = m
               /\ n <= k => S!ToSet(s) = ids
               /\ n # 0 /\ k # 0 => s[1] = Nearest(q, ids)
<1> DEFINE n == Cardinality(ids)
           b == ByDistance(q, ids)
           m == IF n < k THEN n ELSE k
           s == FirstOf(b, k)
<1>1. n \in Nat /\ m \in Nat /\ m <= n
  BY IdsFinite
<1>2. /\ b \in [1 .. n -> ids]
      /\ \A i \in 1 .. n : Rank(q, ids, b[i]) = i - 1
  <2> DEFINE At(i) == CHOOSE x \in ids : Rank(q, ids, x) = i - 1
  <2>1. b = [i \in 1 .. n |-> At(i)]
    BY DEF ByDistance, Rank
  <2>2. \A i \in 1 .. n : At(i) \in ids /\ Rank(q, ids, At(i)) = i - 1
    BY RankOnto
  <2> HIDE DEF At, b
  <2> QED BY <2>1, <2>2
<1>3. Len(b) = n
  BY <1>1, <1>2
<1>4. s = [i \in 1 .. m |-> b[i]]
  BY <1>1, <1>2, <1>3 DEF FirstOf
<1>5. s \in [1 .. m -> ids] /\ Len(s) = m
  BY <1>1, <1>2, <1>4
<1>6. ASSUME n <= k PROVE S!ToSet(s) = ids
  <2>1. m = n
    BY <1>1, <1>6
  <2>2. ASSUME NEW x \in ids PROVE \E i \in 1 .. n : s[i] = x
    <3>1. Rank(q, ids, x) + 1 \in 1 .. n
      BY <1>1, RankOrder
    <3>2. s[Rank(q, ids, x) + 1] = x
      BY <1>2, <1>4, <2>1, <3>1, RankOnto, RankOrder
    <3> QED BY <3>1, <3>2
  <2> QED BY <1>5, <2>1, <2>2 DEF S!ToSet
<1>7. ASSUME n # 0, k # 0 PROVE s[1] = Nearest(q, ids)
  <2>1. 1 \in 1 .. m /\ s[1] = b[1] /\ 1 \in 1 .. n
    BY <1>1, <1>4, <1>7
  <2>2. s[1] \in ids /\ Rank(q, ids, s[1]) = 0 /\ ids # {}
    BY <1>2, <2>1
  <2>3. Nearest(q, ids) \in ids /\ Rank(q, ids, Nearest(q, ids)) \in Nat
        /\ (s[1] # Nearest(q, ids) => Nearer(q, Nearest(q, ids), s[1]))
    BY <1>1, <2>2, NearestNear, RankOrder
  <2>4. Nearer(q, Nearest(q, ids), s[1]) => Rank(q, ids, Nearest(q, ids)) < 0
    BY <2>2, <2>3, RankOrder
  <2> HIDE DEF s
  <2> QED BY <2>3, <2>4
<1> QED BY <1>1, <1>5, <1>6, <1>7

-----------------------------------------------------------------------------
(* One search on one level.                                                *)

LinksTyped == links \in [Levels -> [Id -> SUBSET Id]] /\ active \in SUBSET Id

\* The parts of SearchLevel's loop.
Found(q, l, f) == (links[l][Nearest(q, f.open)] \cap active) \ f.seen
GivesUp(q, ef, f) ==
    Cardinality(f.best) = ef /\ Far(q, Nearest(q, f.open)) > Far(q, Farthest(q, f.best))
Onward(q, ef, l, f) ==
    [open |-> (f.open \ {Nearest(q, f.open)}) \cup Found(q, l, f),
     best |-> {Nearest(q, f.open)} \cup
                 (IF Cardinality(f.best) = ef THEN f.best \ {Farthest(q, f.best)} ELSE f.best),
     seen |-> f.seen \cup Found(q, l, f)]
Ends(q, ef, f) == f.open = {} \/ GivesUp(q, ef, f)
Begin(start) == [open |-> {start}, best |-> {}, seen |-> {start}]

\* Each round looks at one candidate, and sees no node twice.
LEMMA SearchProgress ==
    ASSUME NEW q \in Point, NEW ef, NEW l \in Levels, LinksTyped,
           NEW f \in Frontier, f.open # {}
    PROVE  /\ Onward(q, ef, l, f) \in Frontier
           /\ Cardinality(Onward(q, ef, l, f).open) + Cardinality(Id \ Onward(q, ef, l, f).seen)
                 < Cardinality(f.open) + Cardinality(Id \ f.seen)
<1> DEFINE n == Nearest(q, f.open)
           fresh == Found(q, l, f)
           g == Onward(q, ef, l, f)
<1>1. n \in f.open /\ f.open \in SUBSET Id /\ f.best \in SUBSET Id /\ f.seen \in SUBSET Id
  BY NearestNear DEF Frontier
<1>2. fresh \in SUBSET Id /\ fresh \cap f.seen = {}
  BY <1>1 DEF LinksTyped, Found
<1>3. g \in Frontier /\ g.open = (f.open \ {n}) \cup fresh /\ g.seen = f.seen \cup fresh
  BY <1>1, <1>2 DEF Onward, Frontier
<1> HIDE DEF n, fresh, g
<1>4. Cardinality(f.open \ {n}) = Cardinality(f.open) - 1
  BY <1>1, IdsFinite, FS_RemoveElement
<1>5. Cardinality(g.open) <= Cardinality(f.open \ {n}) + Cardinality(fresh)
  <2>1. f.open \ {n} \in SUBSET Id /\ (f.open \ {n}) \cap fresh \in SUBSET Id
    BY <1>1
  <2>2. Cardinality((f.open \ {n}) \cup fresh)
          = Cardinality(f.open \ {n}) + Cardinality(fresh) - Cardinality((f.open \ {n}) \cap fresh)
    BY <1>2, <2>1, IdsFinite, FS_Union
  <2> QED BY <1>2, <1>3, <2>1, <2>2, IdsFinite
<1>6. Cardinality(Id \ g.seen) = Cardinality(Id \ f.seen) - Cardinality(fresh)
  <2>1. Id \ f.seen \in SUBSET Id /\ Id \ g.seen = (Id \ f.seen) \ fresh
        /\ (Id \ f.seen) \cap fresh = fresh
    BY <1>2, <1>3
  <2> QED BY <2>1, IdsFinite, FS_Difference
<1>7. /\ Cardinality(f.open) \in Nat /\ Cardinality(f.open \ {n}) \in Nat
      /\ Cardinality(fresh) \in Nat /\ Cardinality(g.open) \in Nat
      /\ Cardinality(Id \ f.seen) \in Nat /\ Cardinality(Id \ g.seen) \in Nat
  <2>1. f.open \ {n} \in SUBSET Id /\ Id \ f.seen \in SUBSET Id /\ Id \ g.seen \in SUBSET Id
        /\ g.open \in SUBSET Id
    BY <1>1, <1>3 DEF Frontier
  <2> QED BY <1>1, <1>2, <2>1, IdsFinite
<1>8. Cardinality(g.open) + Cardinality(Id \ g.seen) < Cardinality(f.open) + Cardinality(Id \ f.seen)
  BY <1>4, <1>5, <1>6, <1>7
<1> QED BY <1>3, <1>8 DEF g

\* The loop as a recursion: where it stops, what a round goes on to, and the
\* work that is left.
Stops(q, ef) == {f \in Frontier : Ends(q, ef, f)}
Moves(q, ef, l) == [f \in Frontier \ Stops(q, ef) |-> Onward(q, ef, l, f)]
Work == [f \in Frontier |-> Cardinality(f.open) + Cardinality(Id \ f.seen)]

LEMMA SearchDescends ==
    ASSUME NEW q \in Point, NEW ef, NEW l \in Levels, LinksTyped
    PROVE  Descending(Frontier, Work, Stops(q, ef), Moves(q, ef, l))
<1>1. ASSUME NEW f \in Frontier
      PROVE  Cardinality(f.open) + Cardinality(Id \ f.seen) \in Nat
  <2>1. f.open \in SUBSET Id /\ Id \ f.seen \in SUBSET Id
    BY DEF Frontier
  <2> QED BY <2>1, IdsFinite
<1>2. Work \in [Frontier -> Nat] /\ Stops(q, ef) \in SUBSET Frontier
  BY <1>1 DEF Work, Stops
<1>3. ASSUME NEW f \in Frontier \ Stops(q, ef)
      PROVE  Onward(q, ef, l, f) \in Frontier /\ Work[Onward(q, ef, l, f)] < Work[f]
  <2>1. f.open # {} /\ f \in Frontier
    BY DEF Ends, Stops
  <2>2. Onward(q, ef, l, f) \in Frontier
        /\ Cardinality(Onward(q, ef, l, f).open) + Cardinality(Id \ Onward(q, ef, l, f).seen)
              < Cardinality(f.open) + Cardinality(Id \ f.seen)
    BY <2>1, SearchProgress
  <2> QED BY <2>1, <2>2 DEF Work
<1>4. /\ Moves(q, ef, l) \in [Frontier \ Stops(q, ef) -> Frontier]
      /\ \A f \in Frontier \ Stops(q, ef) : Work[Moves(q, ef, l)[f]] < Work[f]
  BY <1>3 DEF Moves
<1> QED BY <1>2, <1>4 DEF Descending

\* The loop is a function of the frontier, which SearchLevel starts at its
\* first.
Loops(E, q, ef, l) ==
    \A f \in Frontier : E[f] = IF Ends(q, ef, f) THEN f.best ELSE E[Onward(q, ef, l, f)]

LEMMA SearchLoops ==
    ASSUME NEW q \in Point, NEW start \in Id, NEW ef \in Nat \ {0}, NEW l \in Levels, LinksTyped
    PROVE  \E E : Loops(E, q, ef, l) /\ SearchLevel(q, start, ef, l) = E[Begin(start)]
<1> DEFINE stop == Stops(q, ef)
           next == Moves(q, ef, l)
           out == [f \in stop |-> f.best]
           comb == [fr \in Frontier \X SUBSET Id |-> fr[2]]
           Body(E) == [f \in Frontier |->
                         IF f.open = {} THEN f.best
                         ELSE IF Cardinality(f.best) = ef
                                 /\ Far(q, Nearest(q, f.open)) > Far(q, Farthest(q, f.best))
                              THEN f.best
                              ELSE E[Onward(q, ef, l, f)]]
<1>1. Descending(Frontier, Work, stop, next)
  BY SearchDescends
<1>2. ASSUME NEW f \in Frontier
      PROVE  /\ f \in stop <=> Ends(q, ef, f)
             /\ f \notin stop => next[f] = Onward(q, ef, l, f) /\ next[f] \in Frontier
  BY <1>1 DEF Stops, Moves, Descending
<1>3. Yielding(Frontier, SUBSET Id, stop, out, comb)
  BY DEF Yielding, Frontier, Stops
<1>4. \E r \in [Frontier -> SUBSET Id] :
         \A f \in Frontier : r[f] = Linear(f, r, stop, next, out, comb)
  <2> HIDE DEF stop, next, out, comb
  <2> QED BY <1>1, <1>3, LinearRecursion
<1>5. ASSUME NEW E \in [Frontier -> SUBSET Id],
             \A f \in Frontier : E[f] = Linear(f, E, stop, next, out, comb)
      PROVE  E = Body(E)
  <2>1. ASSUME NEW f \in Frontier PROVE E[f] = Body(E)[f]
    <3> HIDE DEF stop, next
    <3>1. CASE f \in stop
      <4>1. E[f] = f.best
        BY <1>5, <3>1 DEF Linear
      <4> QED BY <1>2, <3>1, <4>1 DEF Ends, GivesUp
    <3>2. CASE f \notin stop
      <4>1. <<f, E[next[f]]>> \in Frontier \X SUBSET Id
        BY <1>2, <3>2
      <4>2. E[f] = E[next[f]]
        <5>1. E[f] = comb[f, E[next[f]]]
          BY <1>5, <3>2 DEF Linear
        <5> QED BY <4>1, <5>1
      <4> QED BY <1>2, <3>2, <4>2 DEF Ends, GivesUp
    <3> QED BY <3>1, <3>2
  <2> HIDE DEF stop, next, out, comb
  <2> QED BY <2>1
<1>6. \E E : E = Body(E)
  <2> HIDE DEF stop, next, out, comb, Body
  <2> QED BY <1>4, <1>5
<1>7. PICK E : E = Body(E) /\ SearchLevel(q, start, ef, l) = E[Begin(start)]
  <2> DEFINE Explore == CHOOSE E : E = Body(E)
  <2>1. SearchLevel(q, start, ef, l) = Explore[Begin(start)]
    BY Zenon DEF SearchLevel, Onward, Found, Begin
  <2>2. Explore = Body(Explore)
    <3> HIDE DEF Body
    <3> QED BY <1>6
  <2> HIDE DEF Explore, Body
  <2> QED BY <2>1, <2>2
<1>8. Loops(E, q, ef, l)
  <2>1. ASSUME NEW f \in Frontier
        PROVE  E[f] = IF Ends(q, ef, f) THEN f.best ELSE E[Onward(q, ef, l, f)]
    <3>1. E[f] = Body(E)[f]
      BY <1>7
    <3> QED BY <3>1 DEF Ends, GivesUp
  <2> QED BY <2>1 DEF Loops
<1> QED BY <1>7, <1>8

\* A search returns the best nodes of a frontier at which the loop ends, and
\* what every round keeps holds there.
SearchRule ==
    \A q \in Point, start \in Id, ef \in Nat \ {0}, l \in Levels, Pre \in SUBSET Frontier :
       /\ LinksTyped
       /\ Begin(start) \in Pre
       /\ \A f \in Pre : ~Ends(q, ef, f) => Onward(q, ef, l, f) \in Pre
       => \E e \in Pre : Ends(q, ef, e) /\ SearchLevel(q, start, ef, l) = e.best

LEMMA SearchEnds == SearchRule
<1> SUFFICES ASSUME NEW q \in Point, NEW start \in Id, NEW ef \in Nat \ {0}, NEW l \in Levels,
                    NEW Pre \in SUBSET Frontier,
                    LinksTyped, Begin(start) \in Pre,
                    \A f \in Pre : ~Ends(q, ef, f) => Onward(q, ef, l, f) \in Pre
             PROVE  \E e \in Pre : Ends(q, ef, e) /\ SearchLevel(q, start, ef, l) = e.best
  BY DEF SearchRule
<1> DEFINE out == [f \in Stops(q, ef) |-> f.best]
<1>1. Descending(Frontier, Work, Stops(q, ef), Moves(q, ef, l))
  BY SearchDescends
<1>2. PICK E : Loops(E, q, ef, l) /\ SearchLevel(q, start, ef, l) = E[Begin(start)]
  BY SearchLoops
<1>3. \A f \in Frontier : E[f] = IF f \in Stops(q, ef) THEN out[f] ELSE E[Moves(q, ef, l)[f]]
  BY <1>2 DEF Loops, Stops, Moves
<1>4. \A f \in Pre \ Stops(q, ef) : Moves(q, ef, l)[f] \in Pre
  BY DEF Stops, Moves
<1>5. \E e \in Pre \cap Stops(q, ef) : E[Begin(start)] = out[e]
  <2> HIDE DEF out
  <2> QED BY <1>1, <1>3, <1>4, TailInvariant
<1> QED BY <1>2, <1>5 DEF Stops

\* A search stays among nodes that active edges do not leave, and finds one.
LEMMA SearchFinds ==
    ASSUME NEW q \in Point, NEW start \in Id, NEW ef \in Nat \ {0}, NEW l \in Levels, LinksTyped,
           NEW N \in SUBSET Id, start \in N, \A x \in N : links[l][x] \cap active \subseteq N
    PROVE  SearchLevel(q, start, ef, l) \in SUBSET N /\ SearchLevel(q, start, ef, l) # {}
<1> DEFINE Pre == {f \in Frontier : /\ f.open \subseteq N /\ f.best \subseteq N
                                    /\ f.best = {} => f.open # {}}
<1>1. Pre \in SUBSET Frontier /\ Begin(start) \in Pre
  BY DEF Begin, Frontier
<1>2. ASSUME NEW f \in Pre, ~Ends(q, ef, f) PROVE Onward(q, ef, l, f) \in Pre
  <2>1. f \in Frontier /\ f.open # {} /\ f.open \in SUBSET Id
    BY <1>2 DEF Ends, Frontier
  <2>2. Nearest(q, f.open) \in f.open
    BY <2>1, NearestNear
  <2>3. Onward(q, ef, l, f) \in Frontier
    BY <2>1, SearchProgress
  <2>4. Found(q, l, f) \subseteq N
    BY <2>2 DEF Found
  <2> QED BY <2>2, <2>3, <2>4 DEF Onward
<1>3. PICK e \in Pre : Ends(q, ef, e) /\ SearchLevel(q, start, ef, l) = e.best
  <2> HIDE DEF Pre
  <2> QED BY <1>1, <1>2, SearchEnds DEF SearchRule
<1>4. e.best # {}
  <2>1. CASE e.open = {}
    BY <2>1
  <2>2. CASE GivesUp(q, ef, e)
    BY <2>2, FS_EmptySet DEF GivesUp
  <2> QED BY <1>3, <2>1, <2>2 DEF Ends
<1> QED BY <1>3, <1>4

\* No active neighbour of the nearest node found is nearer: a candidate is
\* given up only for a better one, and its neighbours have been seen.
LEMMA SearchOptimum ==
    ASSUME NEW q \in Point, NEW start \in Id, NEW ef \in Nat \ {0}, NEW l \in Levels, LinksTyped,
           NEW R, R = SearchLevel(q, start, ef, l)
    PROVE  \A e \in links[l][Nearest(q, R)] \cap active : Far(q, Nearest(q, R)) <= Far(q, e)
<1> DEFINE Met(f) == f.seen \ f.open
           Pre == {f \in Frontier :
                     /\ f.open \subseteq f.seen /\ f.best \subseteq Met(f)
                     /\ \A p \in Met(f) : /\ links[l][p] \cap active \subseteq f.seen
                                          /\ \E b \in f.best : Far(q, b) <= Far(q, p)}
<1>1. Pre \in SUBSET Frontier /\ Begin(start) \in Pre
  BY DEF Begin, Frontier
<1>2. ASSUME NEW f \in Pre, ~Ends(q, ef, f) PROVE Onward(q, ef, l, f) \in Pre
  <2> DEFINE n == Nearest(q, f.open)
             w == Farthest(q, f.best)
             fresh == Found(q, l, f)
             g == Onward(q, ef, l, f)
             full == Cardinality(f.best) = ef
  <2>1. f \in Frontier /\ f.open # {} /\ f.open \in SUBSET Id /\ f.best \in SUBSET Id
        /\ f.seen \in SUBSET Id
    BY <1>2 DEF Ends, Frontier
  <2>2. n \in f.open /\ n \in Id
    BY <2>1, NearestNear
  <2>3. g \in Frontier
    BY <2>1, SearchProgress
  <2>4. /\ g.open = (f.open \ {n}) \cup fresh /\ g.seen = f.seen \cup fresh
        /\ g.best = {n} \cup (IF full THEN f.best \ {w} ELSE f.best)
    BY DEF Onward
  <2>5. fresh = (links[l][n] \cap active) \ f.seen
    BY DEF Found
  <2>6. full => w \in f.best /\ Far(q, n) <= Far(q, w)
    <3> SUFFICES ASSUME full PROVE w \in f.best /\ Far(q, n) <= Far(q, w)
      OBVIOUS
    <3>1. f.best # {}
      BY FS_EmptySet
    <3>2. w \in f.best
      BY <2>1, <3>1, FarthestFar
    <3>3. ~(Far(q, n) > Far(q, w))
      BY <1>2 DEF Ends, GivesUp
    <3> QED BY <2>1, <2>2, <3>2, <3>3, FarIsNumber
  <2>7. \A p \in Met(f) : /\ links[l][p] \cap active \subseteq f.seen
                          /\ \E b \in f.best : Far(q, b) <= Far(q, p)
    OBVIOUS
  <2>8. f.open \subseteq f.seen /\ f.best \subseteq Met(f)
    OBVIOUS
  <2> HIDE DEF n, w, fresh, g, full, Pre
  <2>9. Met(g) = Met(f) \cup {n}
    BY <2>2, <2>4, <2>5, <2>8
  <2>10. g.open \subseteq g.seen /\ g.best \subseteq Met(g)
    BY <2>4, <2>8, <2>9
  <2>11. ASSUME NEW p \in Met(g)
         PROVE  /\ links[l][p] \cap active \subseteq g.seen
                /\ \E b \in g.best : Far(q, b) <= Far(q, p)
    <3>1. CASE p = n
      <4>1. n \in g.best /\ Far(q, n) <= Far(q, n)
        BY <2>2, <2>4, FarIsNumber
      <4> QED BY <2>4, <2>5, <3>1, <4>1
    <3>2. CASE p \in Met(f)
      <4>1. PICK b \in f.best : Far(q, b) <= Far(q, p)
        BY <2>7, <3>2
      <4>2. b \in Id /\ p \in Id
        BY <2>1, <3>2
      <4>3. CASE full /\ b = w
        <5>1. n \in g.best /\ Far(q, n) <= Far(q, p)
          BY <2>2, <2>4, <2>6, <4>1, <4>2, <4>3, FarIsNumber
        <5> QED BY <2>4, <2>7, <3>2, <5>1
      <4>4. CASE ~(full /\ b = w)
        <5>1. b \in g.best
          BY <2>4, <4>4
        <5> QED BY <2>4, <2>7, <3>2, <4>1, <5>1
      <4> QED BY <4>3, <4>4
    <3> QED BY <2>9, <3>1, <3>2
  <2> QED BY <2>3, <2>10, <2>11 DEF Pre, g
<1>3. PICK f \in Pre : Ends(q, ef, f) /\ R = f.best
  <2> HIDE DEF Pre
  <2> QED BY <1>1, <1>2, SearchEnds DEF SearchRule
<1>4. /\ f \in Frontier /\ f.open \in SUBSET Id /\ f.best \in SUBSET Id /\ f.seen \in SUBSET Id
      /\ f.best \subseteq Met(f)
      /\ \A p \in Met(f) : /\ links[l][p] \cap active \subseteq f.seen
                           /\ \E b \in f.best : Far(q, b) <= Far(q, p)
  BY DEF Frontier
<1>5. R # {}
  <2>1. \A N \in SUBSET Id : start \in N /\ (\A x \in N : links[l][x] \cap active \subseteq N)
           => R # {}
    BY SearchFinds
  <2>2. \A x \in Id : links[l][x] \cap active \subseteq Id
    BY DEF LinksTyped
  <2> QED BY <2>1, <2>2
<1> DEFINE b == Nearest(q, R)
<1>6. b \in R /\ b \in Id /\ \A x \in R : Far(q, b) <= Far(q, x)
  BY <1>3, <1>4, <1>5, NearestNear
<1> HIDE DEF b, Pre
<1>7. ASSUME NEW e \in links[l][b] \cap active PROVE Far(q, b) <= Far(q, e)
  <2>1. e \in f.seen /\ e \in Id
    BY <1>3, <1>4, <1>6
  <2>2. CASE e \notin f.open
    <3>1. PICK c \in R : Far(q, c) <= Far(q, e)
      BY <1>3, <1>4, <2>1, <2>2
    <3> QED BY <1>3, <1>4, <1>6, <2>1, <3>1, FarIsNumber
  <2>3. CASE e \in f.open
    <3>1. /\ Nearest(q, f.open) \in f.open /\ Far(q, Nearest(q, f.open)) <= Far(q, e)
      BY <1>4, <2>3, NearestNear
    <3>2. Far(q, Nearest(q, f.open)) > Far(q, Farthest(q, R))
      BY <1>3, <2>3 DEF Ends, GivesUp
    <3>3. Farthest(q, R) \in Id /\ Far(q, b) <= Far(q, Farthest(q, R))
      BY <1>3, <1>4, <1>5, <1>6, FarthestFar
    <3>4. Nearest(q, f.open) \in Id
      BY <1>4, <3>1
    <3> QED BY <1>6, <2>1, <3>1, <3>2, <3>3, <3>4, FarIsNumber
  <2> QED BY <2>2, <2>3
<1> QED BY <1>7 DEF b

\* On a level where everyone knows everyone, a search that may keep all of
\* them finds all of them.
LEMMA SearchExhausts ==
    ASSUME NEW q \in Point, NEW ef \in Nat \ {0}, NEW l \in Levels, LinksTyped,
           NEW N \in SUBSET Id, NEW start \in N, Cardinality(N) <= ef,
           \A x \in N : {x} \cup (links[l][x] \cap active) = N
    PROVE  SearchLevel(q, start, ef, l) = N
<1> DEFINE Pre == {f \in Frontier : /\ f.seen \in {{start}, N} /\ f.open \cap f.best = {}
                                    /\ f.open \cup f.best = f.seen
                                    /\ f.best # {} => f.seen = N}
<1>1. Pre \in SUBSET Frontier /\ Begin(start) \in Pre
  BY DEF Begin, Frontier
<1>2. ASSUME NEW f \in Pre, f.open # {}
      PROVE  Cardinality(f.best) # ef
  <2>1. f.best \in SUBSET N /\ f.best # N
    BY <1>2
  <2>2. IsFiniteSet(N) /\ Cardinality(N) \in Nat
    BY IdsFinite
  <2>3. f.best \in SUBSET Id
    BY <2>1
  <2>4. Cardinality(f.best) <= Cardinality(N) /\ Cardinality(f.best) # Cardinality(N)
        /\ Cardinality(f.best) \in Nat
    <3> HIDE DEF Pre
    <3> QED BY <2>1, <2>2, <2>3, FS_Subset, IdsFinite
  <2> QED BY <2>2, <2>4
<1>3. ASSUME NEW f \in Pre, ~Ends(q, ef, f) PROVE Onward(q, ef, l, f) \in Pre
  <2> DEFINE n == Nearest(q, f.open)
             fresh == Found(q, l, f)
             g == Onward(q, ef, l, f)
  <2>1. f \in Frontier /\ f.open # {} /\ f.open \in SUBSET Id /\ f.best \in SUBSET Id
    BY <1>3 DEF Ends, Frontier
  <2>2. n \in f.open /\ n \in N
    BY <2>1, NearestNear
  <2>3. g \in Frontier
    BY <2>1, SearchProgress
  <2>4. /\ g.open = (f.open \ {n}) \cup fresh /\ g.seen = f.seen \cup fresh
        /\ g.best = {n} \cup f.best
    BY <1>2, <2>1 DEF Onward
  <2>5. fresh = N \ f.seen
    BY <2>2 DEF Found
  <2>6. /\ f.seen \in {{start}, N} /\ f.open \cap f.best = {} /\ f.open \cup f.best = f.seen
    OBVIOUS
  <2> HIDE DEF n, fresh, g
  <2>7. /\ g.seen = N /\ g.open \cap g.best = {} /\ g.open \cup g.best = g.seen
    BY <2>2, <2>4, <2>5, <2>6
  <2> QED BY <2>3, <2>7 DEF g
<1>4. PICK f \in Pre : Ends(q, ef, f) /\ SearchLevel(q, start, ef, l) = f.best
  <2> HIDE DEF Pre
  <2> QED BY <1>1, <1>3, SearchEnds DEF SearchRule
<1>5. f.open = {}
  BY <1>2, <1>4 DEF Ends, GivesUp
<1> QED BY <1>4, <1>5

-----------------------------------------------------------------------------
(* The descent from the entry point.                                       *)

\* What a search relies on: edges have types and stay on the levels of the
\* nodes they join, and the entry point is an active node of the top level.
EdgesReach == \A l \in Levels, id \in Id :
                 \A e \in links[l][id] : Level[e] >= l

Searchable == /\ LinksTyped /\ EdgesReach
              /\ entry \in active /\ top = Level[entry]

\* One level of the descent.
LEMMA DescendOne ==
    ASSUME Searchable, NEW q \in Point, NEW ef \in Nat \ {0}, NEW l \in Levels,
           NEW x \in active
    PROVE  /\ Nearest(q, SearchLevel(q, x, ef, l)) \in active
           /\ Level[x] >= l => Level[Nearest(q, SearchLevel(q, x, ef, l))] >= l
<1> DEFINE R == SearchLevel(q, x, ef, l)
<1>1. x \in Id /\ active \in SUBSET Id /\ LinksTyped
  BY DEF Searchable, LinksTyped
<1>2. R \in SUBSET active /\ R # {}
  <2>1. \A y \in active : links[l][y] \cap active \subseteq active
    OBVIOUS
  <2> QED BY <1>1, <2>1, SearchFinds
<1>3. ASSUME Level[x] >= l PROVE \A y \in R : Level[y] >= l
  <2> DEFINE N == {y \in active : Level[y] >= l}
  <2>1. N \in SUBSET Id /\ x \in N
    BY <1>1, <1>3
  <2>2. \A y \in N : links[l][y] \cap active \subseteq N
    BY <2>1 DEF Searchable, EdgesReach
  <2> HIDE DEF N
  <2>3. R \in SUBSET N
    BY <1>1, <2>1, <2>2, SearchFinds
  <2> QED BY <2>3 DEF N
<1>4. Nearest(q, R) \in R
  <2> HIDE DEF R
  <2> QED BY <1>1, <1>2, NearestNear
<1> QED BY <1>2, <1>3, <1>4

\* The descent as a recursion over the levels.
Descends(A, q, ef) ==
    \A k \in Levels : A[k] = IF k >= top THEN entry
                             ELSE Nearest(q, SearchLevel(q, A[k + 1], ef, k + 1))

DescendRule ==
    \A q \in Point, ef \in Nat \ {0}, l \in Levels :
       Searchable => \E A : Descends(A, q, ef) /\ Descend(q, ef, l) = A[l]

LEMMA DescendLoops == DescendRule
<1> SUFFICES ASSUME NEW q \in Point, NEW ef \in Nat \ {0}, NEW l \in Levels, Searchable
             PROVE  \E A : Descends(A, q, ef) /\ Descend(q, ef, l) = A[l]
  BY DEF DescendRule
<1> DEFINE Down(k, x) == Nearest(q, SearchLevel(q, x, ef, k + 1))
           stop == {k \in Levels : k >= top}
           next == [k \in Levels \ stop |-> k + 1]
           mu == [k \in Levels |-> MaxLevel - k]
           out == [k \in stop |-> entry]
           comb == [kx \in Levels \X active |->
                       IF kx[1] + 1 \in Levels THEN Down(kx[1], kx[2]) ELSE kx[2]]
           Body(A) == [k \in Levels |-> IF k >= top THEN entry ELSE Down(k, A[k + 1])]
<1>1. /\ MaxLevel \in Nat /\ top \in Levels /\ entry \in active /\ active \in SUBSET Id
      /\ \A k \in Levels : k \in Nat
  BY ConstantsAssumption DEF Searchable, LinksTyped, ConstantsAssumption, Levels
<1>2. \A k \in Levels \ stop : k + 1 \in Levels /\ next[k] = k + 1
  BY <1>1 DEF Levels
<1>3. Descending(Levels, mu, stop, next)
  <2>1. mu \in [Levels -> Nat]
    BY <1>1 DEF Levels
  <2>2. \A k \in Levels \ stop : mu[next[k]] < mu[k]
    BY <1>1, <1>2 DEF Levels
  <2>3. next \in [Levels \ stop -> Levels]
    BY <1>2
  <2> HIDE DEF mu, next
  <2> QED BY <2>1, <2>2, <2>3 DEF Descending
<1>4. ASSUME NEW k \in Levels, NEW x \in active, k + 1 \in Levels
      PROVE  Down(k, x) \in active
  BY <1>4, DescendOne
<1>5. Yielding(Levels, active, stop, out, comb)
  <2>1. \A k \in Levels, x \in active : (IF k + 1 \in Levels THEN Down(k, x) ELSE x) \in active
    BY <1>4
  <2>2. comb \in [Levels \X active -> active]
    <3> HIDE DEF Down
    <3> QED BY <2>1
  <2>3. out \in [stop -> active]
    BY <1>1
  <2> QED BY <2>2, <2>3 DEF Yielding
<1>6. PICK r \in [Levels -> active] :
         \A k \in Levels : r[k] = Linear(k, r, stop, next, out, comb)
  <2> HIDE DEF stop, next, mu, out, comb
  <2> QED BY <1>3, <1>5, LinearRecursion
<1>7. \A k \in Levels : r[k] = IF k >= top THEN entry ELSE Down(k, r[k + 1])
  <2>1. ASSUME NEW k \in Levels PROVE r[k] = IF k >= top THEN entry ELSE Down(k, r[k + 1])
    <3>1. CASE k >= top
      BY <1>6, <3>1 DEF Linear
    <3>2. CASE ~(k >= top)
      <4>1. k \in Levels \ stop /\ next[k] = k + 1 /\ k + 1 \in Levels
        BY <1>2, <3>2
      <4>2. r[k] = comb[k, r[k + 1]]
        BY <1>6, <4>1 DEF Linear
      <4>3. <<k, r[k + 1]>> \in Levels \X active
        BY <4>1
      <4>4. comb[k, r[k + 1]] = Down(k, r[k + 1])
        <5> HIDE DEF Down
        <5> QED BY <4>1, <4>3
      <4> QED BY <3>2, <4>2, <4>4
    <3> QED BY <3>1, <3>2
  <2> QED BY <2>1
<1>8. r = Body(r)
  <2> HIDE DEF Down
  <2> QED BY <1>7
<1>9. PICK A : A = Body(A) /\ Descend(q, ef, l) = A[l]
  <2> DEFINE At == CHOOSE A : A = Body(A)
  <2>1. Descend(q, ef, l) = At[l]
    BY Zenon DEF Descend
  <2>2. At = Body(At)
    <3> HIDE DEF Body
    <3> QED BY <1>8
  <2> HIDE DEF At, Body
  <2> QED BY <2>1, <2>2
<1>10. \A k \in Levels : A[k] = IF k >= top THEN entry ELSE Down(k, A[k + 1])
  <2>1. A = Body(A)
    BY <1>9
  <2>2. \A k \in Levels : Body(A)[k] = IF k >= top THEN entry ELSE Down(k, A[k + 1])
    <3> HIDE DEF Down
    <3> QED OBVIOUS
  <2> HIDE DEF Body, Down
  <2> QED BY <2>1, <2>2
<1> HIDE DEF Body
<1> QED BY <1>9, <1>10 DEF Descends

\* Every node on the way is active and reaches up to the level it is found for.
LEMMA DescendPath ==
    ASSUME Searchable, NEW q \in Point, NEW ef \in Nat \ {0}, NEW A, Descends(A, q, ef)
    PROVE  \A k \in Levels : /\ A[k] \in active
                             /\ k <= top => Level[A[k]] >= k
                             /\ k > top => Level[A[k]] = top
<1> DEFINE Down(k, x) == Nearest(q, SearchLevel(q, x, ef, k + 1))
           mu == [k \in Levels |-> MaxLevel - k]
<1>1. /\ MaxLevel \in Nat /\ top \in Levels /\ entry \in active /\ active \in SUBSET Id
      /\ \A k \in Levels : k \in Nat
  BY ConstantsAssumption DEF Searchable, LinksTyped, ConstantsAssumption, Levels
<1>2. mu \in [Levels -> Nat]
  BY <1>1 DEF Levels
<1>3. \A k \in Levels : A[k] = IF k >= top THEN entry ELSE Down(k, A[k + 1])
  BY DEF Descends
<1> DEFINE Wrong == {k \in Levels : ~(/\ A[k] \in active
                                      /\ k <= top => Level[A[k]] >= k
                                      /\ k > top => Level[A[k]] = top)}
<1>4. Wrong = {}
  <2> SUFFICES ASSUME Wrong # {} PROVE FALSE
    OBVIOUS
  <2>1. mu \in [Levels -> Nat] /\ Wrong \in SUBSET Levels
    BY <1>2
  <2>2. PICK k \in Wrong : \A j \in Wrong : mu[k] <= mu[j]
    <3> HIDE DEF mu, Wrong
    <3> QED BY <2>1, LeastMeasure
  <2>3. k \in Levels /\ k \in Nat /\ top \in Nat
    BY <1>1
  <2>4. ~(k >= top)
    BY <1>1, <1>3, <2>3 DEF Searchable
  <2>5. k + 1 \in Levels /\ mu[k + 1] < mu[k]
    BY <1>1, <2>3, <2>4 DEF Levels
  <2>6. k + 1 \notin Wrong
    BY <1>1, <2>2, <2>3, <2>5 DEF Levels
  <2>7. A[k + 1] \in active /\ Level[A[k + 1]] >= k + 1
    BY <1>1, <2>3, <2>4, <2>5, <2>6
  <2>8. Down(k, A[k + 1]) \in active /\ Level[Down(k, A[k + 1])] >= k + 1
    BY <2>5, <2>7, DescendOne
  <2>9. A[k] \in active /\ Level[A[k]] >= k + 1
    BY <1>3, <2>3, <2>4, <2>8
  <2>10. Level[A[k]] \in Nat
    BY <1>1, <2>9, ConstantsAssumption DEF ConstantsAssumption
  <2> QED BY <1>1, <2>3, <2>4, <2>9, <2>10
<1> QED BY <1>4

\* The descent arrives at an active node that reaches up to its level.
LEMMA DescendArrives ==
    ASSUME Searchable, NEW q \in Point, NEW ef \in Nat \ {0}, NEW l \in Levels
    PROVE  /\ Descend(q, ef, l) \in active
           /\ l <= top => Level[Descend(q, ef, l)] >= l
           /\ l > top => Level[Descend(q, ef, l)] = top
<1>1. PICK A : Descends(A, q, ef) /\ Descend(q, ef, l) = A[l]
  BY DescendLoops DEF DescendRule
<1> QED BY <1>1, DescendPath

-----------------------------------------------------------------------------
(* Connecting a new node, one neighbour after the other.                   *)

Adjacency == [Id -> SUBSET Id]

\* What SelectNeighbors returns: at most Cap(l) of the live candidates, and
\* all of them when they are no more than that.
Picks(s, ids, l) ==
    /\ Len(s) \in Nat /\ Len(s) <= Cap(l)
    /\ s \in [1 .. Len(s) -> ids]
    /\ S!ToSet(s) \in SUBSET ids
    /\ Cardinality(S!ToSet(s)) <= Cap(l)
    /\ Cardinality(ids) <= Cap(l) => S!ToSet(s) = ids

LEMMA Selected ==
    ASSUME NEW q \in Point, NEW candidates, NEW l \in Levels, NEW live \in SUBSET Id
    PROVE  Picks(SelectNeighbors(q, candidates, l, live), candidates \cap live, l)
<1> DEFINE ids == candidates \cap live
           s == SelectNeighbors(q, candidates, l, live)
           n == Len(s)
<1>1. Cap(l) \in Nat
  BY ConstantsAssumption DEF Cap, ConstantsAssumption
<1>2. ids \in SUBSET Id /\ IsFiniteSet(ids) /\ Cardinality(ids) \in Nat
  BY IdsFinite
<1>3. /\ n \in Nat /\ n <= Cap(l) /\ s \in [1 .. n -> ids]
      /\ Cardinality(ids) <= Cap(l) => S!ToSet(s) = ids
  <2> DEFINE f == FirstOf(ByDistance(q, ids), Cap(l))
             m == IF Cardinality(ids) < Cap(l) THEN Cardinality(ids) ELSE Cap(l)
  <2>1. /\ f \in [1 .. m -> ids] /\ m \in Nat /\ Len(f) = m
        /\ Cardinality(ids) <= Cap(l) => S!ToSet(f) = ids
    <3> HIDE DEF ids
    <3> QED BY <1>1, <1>2, FirstNearest
  <2>2. s = f
    BY DEF SelectNeighbors
  <2>3. m <= Cap(l)
    BY <1>1, <1>2
  <2> HIDE DEF ids, m, f, s
  <2> QED BY <2>1, <2>2, <2>3
<1> HIDE DEF s, n
<1>4. S!ToSet(s) \in SUBSET ids
  BY <1>3 DEF S!ToSet
<1>5. Cardinality(S!ToSet(s)) <= n
  <2>1. s \in Surjection(1 .. n, S!ToSet(s))
    BY <1>3 DEF S!ToSet, Surjection
  <2>2. IsFiniteSet(1 .. n) /\ Cardinality(1 .. n) = n
    BY <1>3, FS_Interval
  <2>3. Cardinality(S!ToSet(s)) <= Cardinality(1 .. n)
    BY <2>1, <2>2, FS_Surjection, Zenon
  <2> QED BY <2>2, <2>3
<1>6. Cardinality(S!ToSet(s)) \in Nat
  BY <1>2, <1>4, FS_Subset, IdsFinite
<1>7. Picks(s, ids, l)
  <2> HIDE DEF ids
  <2> QED BY <1>1, <1>3, <1>4, <1>5, <1>6 DEF n, Picks
<1> QED BY <1>7 DEF s

\* Edges among ids on level l; a node other than the new one keeps its limit,
\* and the new one has k neighbours at most.
Joined(adj, ids, id, l, k) ==
    \A x \in Id : /\ adj[x] \subseteq ids \ {x}
                  /\ adj[x] # {} => x \in ids /\ Level[x] >= l
                  /\ \A y \in adj[x] : x \in adj[y]
                  /\ Cardinality(adj[x]) <= IF x = id THEN k ELSE Cap(l)

\* The same, when no node is being connected.
SoundLevel(adj, ids, l) ==
    \A x \in Id : /\ adj[x] \subseteq ids \ {x}
                  /\ adj[x] # {} => x \in ids /\ Level[x] >= l
                  /\ \A y \in adj[x] : x \in adj[y]
                  /\ Cardinality(adj[x]) <= Cap(l)

\* The parts of a round.
Conn(id, adj, e) == adj[e] \cup {id}
Kept(id, l, live, adj, e) ==
    IF Cardinality(Conn(id, adj, e)) > Cap(l)
    THEN S!ToSet(SelectNeighbors(VectorOf[e], Conn(id, adj, e), l, live)) ELSE Conn(id, adj, e)

\* What a round does to each node.
Effect(new, conn, kept, id, l, live, adj, e) ==
    /\ new \in Adjacency
    /\ kept \in SUBSET conn /\ conn \in SUBSET Id
    /\ Cardinality(kept) <= Cap(l)
    /\ Cardinality(conn \cap live) <= Cap(l) => conn \cap live \subseteq kept
    /\ e # id => \A x \in Id :
         new[x] = (IF x = e THEN kept ELSE IF x = id THEN adj[id] \cup {e} ELSE adj[x])
                     \ (IF x \in conn \ kept THEN {e} ELSE {})

LEMMA RoundEffect ==
    ASSUME NEW id \in Id, NEW l \in Levels, NEW live \in SUBSET Id,
           NEW adj \in Adjacency, NEW e \in Id
    PROVE  Effect(ConnectOne(id, l, live, adj, e), Conn(id, adj, e), Kept(id, l, live, adj, e),
                  id, l, live, adj, e)
<1> DEFINE new == ConnectOne(id, l, live, adj, e)
           conn == Conn(id, adj, e)
           kept == Kept(id, l, live, adj, e)
           both == [adj EXCEPT ![id] = @ \cup {e}, ![e] = kept]
           q == VectorOf[e]
           chosen == S!ToSet(SelectNeighbors(q, conn, l, live))
<1>1. q \in Point /\ Cap(l) \in Nat
  BY ConstantsAssumption DEF ConstantsAssumption, Cap
<1>2. conn \in SUBSET Id /\ Cardinality(conn) \in Nat
  BY IdsFinite DEF Conn, Adjacency
<1>3. /\ chosen \in SUBSET (conn \cap live) /\ Cardinality(chosen) <= Cap(l)
      /\ Cardinality(conn \cap live) <= Cap(l) => chosen = conn \cap live
  <2>1. Picks(SelectNeighbors(q, conn, l, live), conn \cap live, l)
    BY <1>1, Selected
  <2> HIDE DEF q, conn
  <2> QED BY <2>1 DEF Picks
<1>4. kept = IF Cardinality(conn) > Cap(l) THEN chosen ELSE conn
  BY DEF Kept
<1>5. /\ kept \in SUBSET conn /\ Cardinality(kept) <= Cap(l)
      /\ Cardinality(conn \cap live) <= Cap(l) => conn \cap live \subseteq kept
  <2> HIDE DEF chosen, kept, conn
  <2> QED BY <1>1, <1>2, <1>3, <1>4
<1>6. new = [x \in Id |-> IF x \in conn \ kept THEN both[x] \ {e} ELSE both[x]]
  BY Zenon DEF ConnectOne, Kept, Conn
<1> HIDE DEF new, kept, conn
<1>7. both \in Adjacency /\ kept \in SUBSET Id
  BY <1>2, <1>5 DEF Adjacency
<1>8. new \in Adjacency
  <2> HIDE DEF both
  <2> QED BY <1>6, <1>7 DEF Adjacency
<1>9. ASSUME e # id, NEW x \in Id
      PROVE  both[x] = IF x = e THEN kept ELSE IF x = id THEN adj[id] \cup {e} ELSE adj[x]
  BY <1>9 DEF Adjacency
<1>10. ASSUME e # id, NEW x \in Id
       PROVE  new[x] = (IF x = e THEN kept ELSE IF x = id THEN adj[id] \cup {e} ELSE adj[x])
                          \ (IF x \in conn \ kept THEN {e} ELSE {})
  <2>1. new[x] = both[x] \ (IF x \in conn \ kept THEN {e} ELSE {})
    <3> HIDE DEF both
    <3> QED BY <1>6
  <2> HIDE DEF both
  <2> QED BY <1>9, <1>10, <2>1
<1>11. Effect(new, conn, kept, id, l, live, adj, e)
  BY <1>2, <1>5, <1>8, <1>10 DEF Effect
<1> QED BY <1>11 DEF new, kept, conn

\* A round keeps the edges sound.
LEMMA RoundJoins ==
    ASSUME NEW id \in Id, NEW l \in Levels, NEW live \in SUBSET Id,
           NEW adj \in Adjacency, NEW e \in Id, e # id,
           NEW ids \in SUBSET Id, id \in ids, e \in ids, Level[e] >= l, Level[id] >= l,
           NEW k \in Nat, Joined(adj, ids, id, l, k)
    PROVE  Joined(ConnectOne(id, l, live, adj, e), ids, id, l, k + 1)
<1> DEFINE new == ConnectOne(id, l, live, adj, e)
           conn == Conn(id, adj, e)
           kept == Kept(id, l, live, adj, e)
<1>1. /\ new \in Adjacency /\ kept \in SUBSET conn /\ conn \in SUBSET Id
      /\ Cardinality(kept) <= Cap(l)
      /\ \A x \in Id :
           new[x] = (IF x = e THEN kept ELSE IF x = id THEN adj[id] \cup {e} ELSE adj[x])
                       \ (IF x \in conn \ kept THEN {e} ELSE {})
  <2>1. e \in Id
    OBVIOUS
  <2>2. Effect(new, conn, kept, id, l, live, adj, e)
    BY <2>1, RoundEffect
  <2> HIDE DEF new, conn, kept
  <2> QED BY <2>2 DEF Effect
<1>2. conn = adj[e] \cup {id} /\ e \notin adj[e] /\ e \notin conn /\ e \notin kept
  BY <1>1 DEF Conn, Joined
<1>3. Cap(l) \in Nat
  BY ConstantsAssumption DEF ConstantsAssumption, Cap
<1> HIDE DEF new, conn, kept
<1>4. new[e] = kept
  BY <1>1, <1>2
<1>5. ASSUME NEW x \in Id, x # e
      PROVE  /\ x \in kept => new[x] = IF x = id THEN adj[id] \cup {e} ELSE adj[x]
             /\ x \in conn \ kept => new[x] = adj[x] \ {e}
             /\ x \notin conn => new[x] = adj[x]
             /\ x \in kept <=> e \in new[x]
             /\ new[x] \ {e} = adj[x] \ {e}
  <2>1. (e \in adj[x] => x \in adj[e]) /\ (x \in adj[e] => e \in adj[x])
    BY DEF Joined
  <2>2. new[x] = (IF x = id THEN adj[id] \cup {e} ELSE adj[x])
                    \ (IF x \in conn \ kept THEN {e} ELSE {})
    BY <1>1, <1>5
  <2>3. CASE x \in kept
    BY <1>1, <1>2, <2>1, <2>2, <2>3
  <2>4. CASE x \in conn \ kept
    BY <1>1, <1>2, <2>1, <2>2, <2>4
  <2>5. CASE x \notin conn
    BY <1>1, <1>2, <2>1, <2>2, <2>5
  <2> QED BY <2>3, <2>4, <2>5
<1>6. ASSUME NEW x \in Id PROVE new[x] \subseteq ids \ {x}
  <2>1. adj[x] \subseteq ids \ {x} /\ adj[e] \subseteq ids
    BY DEF Joined
  <2>2. CASE x = e
    BY <1>1, <1>2, <1>4, <2>1, <2>2
  <2>3. CASE x # e
    BY <1>5, <2>1, <2>3
  <2> QED BY <2>2, <2>3
<1>7. ASSUME NEW x \in Id, new[x] # {} PROVE x \in ids /\ Level[x] >= l
  <2>1. CASE x = e \/ x = id
    BY <2>1
  <2>2. CASE x # e /\ x # id
    <3>1. adj[x] # {}
      BY <1>5, <1>7, <2>2
    <3> QED BY <3>1 DEF Joined
  <2> QED BY <2>1, <2>2
<1>8. ASSUME NEW x \in Id, NEW y \in new[x] PROVE x \in new[y]
  <2>1. y \in Id /\ y # x
    BY <1>6
  <2>2. CASE x = e
    BY <1>4, <1>5, <2>1, <2>2
  <2>3. CASE x # e /\ y = e
    BY <1>4, <1>5, <2>3
  <2>4. CASE x # e /\ y # e
    <3>1. y \in adj[x]
      BY <1>5, <2>4
    <3>2. x \in adj[y]
      BY <3>1 DEF Joined
    <3> QED BY <1>5, <2>1, <2>4, <3>2
  <2> QED BY <2>2, <2>3, <2>4
<1>9. ASSUME NEW x \in Id
      PROVE  Cardinality(new[x]) <= IF x = id THEN k + 1 ELSE Cap(l)
  <2>1. /\ IsFiniteSet(adj[x]) /\ Cardinality(adj[x]) \in Nat /\ adj[x] \in SUBSET Id
        /\ new[x] \in SUBSET Id /\ Cardinality(new[x]) \in Nat
    <3>1. adj[x] \in SUBSET Id /\ new[x] \in SUBSET Id
      BY <1>1 DEF Adjacency
    <3> QED BY <3>1, IdsFinite
  <2>2. Cardinality(adj[x]) <= IF x = id THEN k ELSE Cap(l)
    BY DEF Joined
  <2>3. CASE x = e
    BY <1>1, <1>4, <2>3
  <2>4. CASE x = id
    <3>1. new[x] \subseteq adj[x] \cup {e}
      BY <1>5, <2>4
    <3>2. IsFiniteSet(adj[x] \cup {e})
          /\ Cardinality(adj[x] \cup {e})
               = IF e \in adj[x] THEN Cardinality(adj[x]) ELSE Cardinality(adj[x]) + 1
      BY <2>1, FS_AddElement, Zenon
    <3>3. Cardinality(new[x]) <= Cardinality(adj[x] \cup {e})
      BY <3>1, <3>2, FS_Subset
    <3> QED BY <2>1, <2>2, <2>4, <3>2, <3>3
  <2>5. CASE x # e /\ x # id
    <3>1. new[x] \subseteq adj[x]
      BY <1>5, <2>5
    <3>2. Cardinality(new[x]) <= Cardinality(adj[x])
      BY <2>1, <3>1, FS_Subset
    <3> QED BY <1>3, <2>1, <2>2, <2>5, <3>2
  <2> QED BY <2>3, <2>4, <2>5
<1>10. Joined(new, ids, id, l, k + 1)
  BY <1>6, <1>7, <1>8, <1>9 DEF Joined
<1> QED BY <1>10 DEF new

\* As long as the live nodes of the level fit into one neighbour list, a round
\* cuts no edge between two of them.
LEMMA RoundKeepsLive ==
    ASSUME NEW id \in Id, NEW l \in Levels, NEW live \in SUBSET Id, id \in live,
           NEW adj \in Adjacency, NEW e \in live, e # id,
           NEW ids, Level[e] >= l, Level[id] >= l,
           NEW k, Joined(adj, ids, id, l, k),
           Cardinality({x \in live : Level[x] >= l}) <= Cap(l) + 1
    PROVE  LET new == ConnectOne(id, l, live, adj, e)
           IN  /\ \A x \in live : adj[x] \cap live \subseteq new[x]
               /\ e \in new[id] /\ id \in new[e]
<1> DEFINE new == ConnectOne(id, l, live, adj, e)
           conn == Conn(id, adj, e)
           kept == Kept(id, l, live, adj, e)
           N == {x \in live : Level[x] >= l}
<1>1. /\ new \in Adjacency /\ kept \in SUBSET conn /\ conn \in SUBSET Id
      /\ Cardinality(conn \cap live) <= Cap(l) => conn \cap live \subseteq kept
      /\ \A x \in Id :
           new[x] = (IF x = e THEN kept ELSE IF x = id THEN adj[id] \cup {e} ELSE adj[x])
                       \ (IF x \in conn \ kept THEN {e} ELSE {})
  <2>1. e \in Id
    OBVIOUS
  <2>2. Effect(new, conn, kept, id, l, live, adj, e)
    BY <2>1, RoundEffect
  <2> HIDE DEF new, conn, kept
  <2> QED BY <2>2 DEF Effect
<1>2. conn = adj[e] \cup {id} /\ e \notin adj[e] /\ e \notin conn
  BY <1>1 DEF Conn, Joined
<1>3. conn \cap live \subseteq N \ {e}
  BY <1>2 DEF Joined
<1>4. Cap(l) \in Nat /\ N \in SUBSET Id /\ e \in N
  BY ConstantsAssumption DEF ConstantsAssumption, Cap
<1> HIDE DEF new, conn, kept, N
<1>5. Cardinality(conn \cap live) <= Cap(l)
  <2>1. IsFiniteSet(N) /\ Cardinality(N) \in Nat /\ Cardinality(N) <= Cap(l) + 1
    BY <1>4, IdsFinite DEF N
  <2>2. IsFiniteSet(N \ {e}) /\ Cardinality(N \ {e}) = Cardinality(N) - 1
    BY <1>4, <2>1, FS_RemoveElement
  <2>3. Cardinality(conn \cap live) <= Cardinality(N \ {e}) /\ Cardinality(conn \cap live) \in Nat
    BY <1>3, <2>2, FS_Subset, FS_CardinalityType
  <2> QED BY <1>4, <2>1, <2>2, <2>3
<1>6. conn \cap live \subseteq kept
  BY <1>1, <1>5
<1>7. ASSUME NEW x \in live PROVE adj[x] \cap live \subseteq new[x]
  <2>1. CASE x = e
    BY <1>1, <1>2, <1>6, <2>1
  <2>2. CASE x # e
    <3>1. x \notin conn \ kept
      BY <1>6
    <3> QED BY <1>1, <2>2, <3>1
  <2> QED BY <2>1, <2>2
<1>8. e \in new[id] /\ id \in new[e]
  BY <1>1, <1>2, <1>6
<1> QED BY <1>7, <1>8 DEF new

\* ConnectNeighbors takes its neighbours in order.
Connecting(acc, id, l, n, neighbors) ==
    /\ acc[0] = links[l]
    /\ \A i \in 1 .. n :
          acc[i] = ConnectOne(id, l, active \cup {id}, acc[i - 1], neighbors[i])
    /\ ConnectNeighbors(id, l, neighbors) = acc[n]

LEMMA ConnectInOrder ==
    ASSUME LinksTyped, NEW id \in Id, NEW l \in Levels,
           NEW n \in Nat, NEW neighbors \in [1 .. n -> Id]
    PROVE  \E acc \in [0 .. n -> Adjacency] : Connecting(acc, id, l, n, neighbors)
<1> DEFINE One(adj, e) == ConnectOne(id, l, active \cup {id}, adj, e)
           D == SUBSET (1 .. n)
           f == [i \in 1 .. n |-> [adj \in Adjacency |-> One(adj, neighbors[i])]]
           Body(I) == [s \in D |-> IF s = {} THEN links[l]
                                   ELSE One(I[s \ {Greatest(s)}], neighbors[Greatest(s)])]
<1>1. \A adj \in Adjacency, e \in Id : One(adj, e) \in Adjacency
  <2> SUFFICES ASSUME NEW adj \in Adjacency, NEW e \in Id PROVE One(adj, e) \in Adjacency
    OBVIOUS
  <2>1. active \cup {id} \in SUBSET Id
    BY DEF LinksTyped
  <2>2. Effect(One(adj, e), Conn(id, adj, e), Kept(id, l, active \cup {id}, adj, e),
               id, l, active \cup {id}, adj, e)
    BY <2>1, RoundEffect
  <2> HIDE DEF One
  <2> QED BY <2>2 DEF Effect
<1>2. f \in [1 .. n -> [Adjacency -> Adjacency]] /\ links[l] \in Adjacency
  <2>1. links[l] \in Adjacency
    BY DEF LinksTyped, Adjacency
  <2> HIDE DEF One
  <2> QED BY <1>1, <2>1
<1>3. \A i \in 1 .. n, adj \in Adjacency : f[i][adj] = One(adj, neighbors[i])
  <2> HIDE DEF One
  <2> QED OBVIOUS
<1>4. \A s \in D : s # {} => Greatest(s) \in 1 .. n /\ s \ {Greatest(s)} \in D
  BY GreatestOf
<1>5. PICK r \in [D -> Adjacency] : Folds(r, n, Adjacency, links[l], f)
  <2> HIDE DEF f
  <2> QED BY <1>2, FoldExists
<1> HIDE DEF f, One
<1>6. r = Body(r)
  <2>1. \A s \in D : r[s] = IF s = {} THEN links[l]
                            ELSE One(r[s \ {Greatest(s)}], neighbors[Greatest(s)])
    BY <1>3, <1>4, <1>5 DEF Folds
  <2> HIDE DEF D
  <2> QED BY <1>5, <2>1
<1>7. PICK I : I = Body(I) /\ ConnectNeighbors(id, l, neighbors) = I[1 .. n]
  <2> DEFINE iter == CHOOSE I : I = Body(I)
  <2>1. DOMAIN neighbors = 1 .. n
    OBVIOUS
  <2>2. ConnectNeighbors(id, l, neighbors) = iter[1 .. n]
    BY <2>1, Zenon DEF One, ConnectNeighbors, Greatest, S!FoldLeft, S!MapThenFoldSet, S!Max
  <2>3. iter = Body(iter)
    <3> HIDE DEF Body
    <3> QED BY <1>6
  <2> HIDE DEF iter, Body
  <2> QED BY <2>2, <2>3
<1>8. Folds(I, n, Adjacency, links[l], f)
  <2>1. \A s \in D : I[s] = IF s = {} THEN links[l]
                            ELSE One(I[s \ {Greatest(s)}], neighbors[Greatest(s)])
    <3>1. \A s \in D : Body(I)[s] = IF s = {} THEN links[l]
                                    ELSE One(I[s \ {Greatest(s)}], neighbors[Greatest(s)])
      <4> HIDE DEF D
      <4> QED OBVIOUS
    <3> HIDE DEF Body, D
    <3> QED BY <1>7, <3>1
  <2> QED BY <1>3, <1>4, <2>1 DEF Folds
<1>9. PICK acc \in [0 .. n -> Adjacency] : InOrder(acc, n, links[l], f) /\ I[1 .. n] = acc[n]
  <2> HIDE DEF D, Body
  <2> QED BY <1>2, <1>8, FoldInOrder
<1>10. \A i \in 1 .. n : acc[i] = One(acc[i - 1], neighbors[i])
  BY <1>3, <1>9 DEF InOrder
<1>11. acc[0] = links[l]
  BY <1>9 DEF InOrder
<1> QED BY <1>7, <1>9, <1>10, <1>11 DEF Connecting, One

\* What holds after k rounds: the edges are sound, and when the live nodes of
\* the level fit into one neighbour list no edge between two of them is lost
\* and the neighbours taken so far are neighbours.
Rounds(adj, ids, id, l, k, neighbors) ==
    /\ Joined(adj, ids, id, l, k)
    /\ Cardinality({x \in active \cup {id} : Level[x] >= l}) <= Cap(l) + 1 =>
          /\ \A x \in active \cup {id} : links[l][x] \cap (active \cup {id}) \subseteq adj[x]
          /\ \A i \in 1 .. k : neighbors[i] \in adj[id] /\ id \in adj[neighbors[i]]

LEMMA NextRound ==
    ASSUME LinksTyped, NEW id \in Id, NEW l \in Levels, Level[id] >= l,
           NEW ids \in SUBSET Id, id \in ids, active \subseteq ids, id \notin active,
           NEW n \in Nat, NEW neighbors \in [1 .. n -> active],
           \A i \in 1 .. n : Level[neighbors[i]] >= l,
           NEW adj \in Adjacency, NEW k \in Nat, k + 1 <= n,
           Rounds(adj, ids, id, l, k, neighbors)
    PROVE  Rounds(ConnectOne(id, l, active \cup {id}, adj, neighbors[k + 1]),
                  ids, id, l, k + 1, neighbors)
<1> DEFINE live == active \cup {id}
           e == neighbors[k + 1]
           new == ConnectOne(id, l, live, adj, e)
           fits == Cardinality({x \in live : Level[x] >= l}) <= Cap(l) + 1
<1>1. /\ k + 1 \in 1 .. n /\ live \in SUBSET Id /\ id \in live
      /\ e \in active /\ e \in live /\ e \in Id /\ e # id /\ e \in ids /\ Level[e] >= l
  BY DEF LinksTyped
<1>2. /\ Joined(adj, ids, id, l, k)
      /\ fits => /\ \A x \in live : links[l][x] \cap live \subseteq adj[x]
                 /\ \A i \in 1 .. k : neighbors[i] \in adj[id] /\ id \in adj[neighbors[i]]
  BY DEF Rounds
<1> HIDE DEF live, e
<1>3. Joined(new, ids, id, l, k + 1)
  BY <1>1, <1>2, RoundJoins
<1>4. ASSUME fits
      PROVE  /\ \A x \in live : adj[x] \cap live \subseteq new[x]
             /\ e \in new[id] /\ id \in new[e]
  BY <1>1, <1>2, <1>4, RoundKeepsLive
<1>5. \A i \in 1 .. n : neighbors[i] \in live /\ neighbors[i] \in active
  BY DEF live
<1> HIDE DEF new, fits
<1>6. ASSUME fits, NEW x \in live PROVE links[l][x] \cap live \subseteq new[x]
  BY <1>2, <1>4, <1>6
<1>7. ASSUME fits, NEW i \in 1 .. k + 1 PROVE neighbors[i] \in new[id] /\ id \in new[neighbors[i]]
  <2>1. CASE i = k + 1
    BY <1>4, <1>7, <2>1 DEF e
  <2>2. CASE i # k + 1
    <3>1. i \in 1 .. k /\ i \in 1 .. n
      BY <2>2
    <3>2. neighbors[i] \in adj[id] /\ id \in adj[neighbors[i]]
      BY <1>2, <1>7, <3>1
    <3> QED BY <1>1, <1>4, <1>5, <1>7, <3>1, <3>2
  <2> QED BY <2>1, <2>2
<1>8. Rounds(new, ids, id, l, k + 1, neighbors)
  BY <1>3, <1>6, <1>7 DEF Rounds, fits, live
<1> QED BY <1>8 DEF new, live, e

\* A level on which a node was connected.
LEMMA ConnectRounds ==
    ASSUME LinksTyped, NEW id \in Id, NEW l \in Levels, Level[id] >= l,
           NEW ids \in SUBSET Id, id \notin ids, active \subseteq ids,
           SoundLevel(links[l], ids, l),
           NEW n \in Nat, NEW neighbors \in [1 .. n -> active],
           \A i \in 1 .. n : Level[neighbors[i]] >= l
    PROVE  /\ ConnectNeighbors(id, l, neighbors) \in Adjacency
           /\ Rounds(ConnectNeighbors(id, l, neighbors), ids \cup {id}, id, l, n, neighbors)
<1> DEFINE One(adj, e) == ConnectOne(id, l, active \cup {id}, adj, e)
           all == ids \cup {id}
<1>0. /\ neighbors \in [1 .. n -> Id] /\ active \cup {id} \in SUBSET Id
      /\ all \in SUBSET Id /\ id \in all /\ active \subseteq all /\ id \notin active
  BY DEF LinksTyped
<1>2. PICK acc \in [0 .. n -> Adjacency] : Connecting(acc, id, l, n, neighbors)
  BY <1>0, ConnectInOrder
<1>1. /\ acc[0] = links[l] /\ ConnectNeighbors(id, l, neighbors) = acc[n]
      /\ \A i \in 1 .. n : acc[i] = One(acc[i - 1], neighbors[i])
  BY <1>2 DEF Connecting
<1>3. Rounds(links[l], all, id, l, 0, neighbors)
  <2>1. links[l][id] = {} /\ Cardinality({}) = 0
    BY FS_EmptySet DEF SoundLevel
  <2>2. ASSUME NEW x \in Id PROVE Cardinality(links[l][x]) <= IF x = id THEN 0 ELSE Cap(l)
    <3>1. CASE x = id
      <4>1. Cardinality(links[l][x]) = 0
        BY <2>1, <3>1
      <4> QED BY <3>1, <4>1
    <3>2. CASE x # id
      BY <3>2 DEF SoundLevel
    <3> QED BY <3>1, <3>2
  <2>3. ASSUME NEW x \in Id
        PROVE  /\ links[l][x] \subseteq all \ {x}
               /\ links[l][x] # {} => x \in all /\ Level[x] >= l
               /\ \A y \in links[l][x] : x \in links[l][y]
    BY DEF SoundLevel
  <2>4. Joined(links[l], all, id, l, 0)
    <3> HIDE DEF all
    <3> QED BY <2>2, <2>3 DEF Joined
  <2> QED BY <2>4 DEF Rounds
<1> DEFINE T == {i \in Nat : i <= n => Rounds(acc[i], all, id, l, i, neighbors)}
<1>4. T = Nat
  <2>1. 0 \in T
    BY <1>1, <1>3
  <2>2. ASSUME NEW i \in T PROVE i + 1 \in T
    <3>1. ASSUME i + 1 <= n PROVE Rounds(acc[i + 1], all, id, l, i + 1, neighbors)
      <4>1. /\ i \in Nat /\ i <= n /\ i + 1 \in 1 .. n /\ (i + 1) - 1 = i /\ acc[i] \in Adjacency
            /\ Rounds(acc[i], all, id, l, i, neighbors)
        BY <3>1
      <4>2. acc[i + 1] = One(acc[i], neighbors[i + 1])
        <5> HIDE DEF One, T, all
        <5> QED BY <1>1, <4>1
      <4>3. Rounds(One(acc[i], neighbors[i + 1]), all, id, l, i + 1, neighbors)
        <5> HIDE DEF T, all
        <5> QED BY <1>0, <3>1, <4>1, NextRound
      <4> HIDE DEF One, T, all
      <4> QED BY <4>2, <4>3
    <3> HIDE DEF all
    <3> QED BY <3>1
  <2>3. T \in SUBSET Nat
    OBVIOUS
  <2> HIDE DEF T
  <2> QED BY <2>1, <2>2, <2>3, Numbers
<1>5. Rounds(acc[n], all, id, l, n, neighbors) /\ acc[n] \in Adjacency
  <2> HIDE DEF all
  <2> QED BY <1>4
<1> HIDE DEF One
<1> QED BY <1>1, <1>5

-----------------------------------------------------------------------------
(* The invariant of the graph.                                             *)

\* Edges are sound on every level, and a reindex inserts only new nodes.
GraphInv == /\ links \in [Levels -> Adjacency]
            /\ \A l \in Levels : SoundLevel(links[l], nodes, l)
            /\ pending \cap nodes = {}
            /\ crowded \in BOOLEAN

\* Until the index gets crowded, any two active nodes are neighbours on every
\* level both reach.
Complete(adj, l, ids) ==
    \A x, y \in ids : x # y /\ Level[x] >= l /\ Level[y] >= l => y \in adj[x]
CompleteInv == ~crowded => \A l \in Levels : Complete(links[l], l, active)

LEMMA GraphSearchable ==
    IndexInv /\ EntryInv /\ GraphInv /\ entry # NoEntry => Searchable
<1> SUFFICES ASSUME IndexInv, EntryInv, GraphInv, entry # NoEntry PROVE Searchable
  OBVIOUS
<1>1. LinksTyped
  BY DEF LinksTyped, IndexInv, Typed, GraphInv, Adjacency
<1>2. ASSUME NEW l \in Levels, NEW id \in Id, NEW e \in links[l][id] PROVE Level[e] >= l
  <2>1. e \in Id
    BY <1>1 DEF LinksTyped
  <2>2. id \in links[l][e]
    BY DEF GraphInv, SoundLevel
  <2> QED BY <2>1, <2>2 DEF GraphInv, SoundLevel
<1> QED BY <1>1, <1>2 DEF Searchable, EdgesReach, EntryInv

\* The active nodes that reach up to a level.
Reaching(l) == {y \in active : Level[y] >= l}

\* What a new node meets on level l: nodes that reach up to it, and all of
\* them when everyone knows everyone and ef leaves room.
LEMMA Meets ==
    ASSUME Searchable, NEW id \in Id, NEW l \in Levels, l <= top, l <= Level[id]
    PROVE  LET q == VectorOf[id]
               met == SearchLevel(q, Descend(q, 1, Level[id]), EfConstruction, l)
           IN  /\ met \in SUBSET Reaching(l)
               /\ Complete(links[l], l, active) /\ Cardinality(Reaching(l)) <= EfConstruction
                     => met = Reaching(l)
<1> DEFINE q == VectorOf[id]
           start == Descend(q, 1, Level[id])
           met == SearchLevel(q, start, EfConstruction, l)
           N == Reaching(l)
<1>1. /\ q \in Point /\ EfConstruction \in Nat \ {0} /\ Level[id] \in Levels
      /\ LinksTyped /\ active \in SUBSET Id /\ N \in SUBSET Id /\ N \in SUBSET active
  BY ConstantsAssumption DEF ConstantsAssumption, Searchable, LinksTyped, Reaching
<1>2. l \in Int /\ top \in Int /\ Level[id] \in Int
  <2>1. top = Level[entry] /\ entry \in Id
    BY DEF Searchable, LinksTyped
  <2> QED BY <2>1, LevelIsNumber DEF Levels
<1>3. start \in active /\ Level[start] >= l
  <2>1. /\ start \in active
        /\ Level[id] <= top => Level[start] >= Level[id]
        /\ Level[id] > top => Level[start] = top
    <3> HIDE DEF q
    <3> QED BY <1>1, DescendArrives
  <2>2. Level[start] \in Int
    BY <1>1, <2>1, LevelIsNumber
  <2> HIDE DEF start
  <2> QED BY <1>2, <2>1, <2>2
<1>4. start \in N /\ start \in Id
  BY <1>1, <1>3 DEF Reaching
<1>5. \A x \in N : links[l][x] \cap active \subseteq N
  BY <1>1 DEF Reaching, Searchable, EdgesReach
<1> HIDE DEF q, start, N
<1>6. met \in SUBSET N
  BY <1>1, <1>4, <1>5, SearchFinds
<1>7. ASSUME Complete(links[l], l, active), Cardinality(N) <= EfConstruction
      PROVE  met = N
  <2>1. \A x \in N : {x} \cup (links[l][x] \cap active) = N
    BY <1>5, <1>7 DEF Complete, N, Reaching
  <2> QED BY <1>1, <1>4, <1>7, <2>1, SearchExhausts
<1> QED BY <1>6, <1>7 DEF N, q, start

\* A level a new node does not reach, or that it is the first to reach, keeps
\* its edges.
LEMMA SoundMore ==
    ASSUME NEW adj, NEW ids, NEW more, ids \subseteq more, NEW l, SoundLevel(adj, ids, l)
    PROVE  SoundLevel(adj, more, l)
BY DEF SoundLevel

\* A level on which a new node is connected.
LEMMA ConnectedLevel ==
    ASSUME IndexInv, EntryInv, GraphInv, entry # NoEntry, NEW id \in Id, id \notin nodes,
           NEW l \in Levels
    PROVE  /\ Connected(id)[l] \in Adjacency
           /\ SoundLevel(Connected(id)[l], nodes \cup {id}, l)
           /\ Complete(links[l], l, active) /\ ~Crowded(active \cup {id})
                 => Complete(Connected(id)[l], l, active \cup {id})
<1> DEFINE q == VectorOf[id]
           met == SearchLevel(q, Descend(q, 1, Level[id]), EfConstruction, l)
           chosen == SelectNeighbors(q, met, l, active)
           new == ConnectNeighbors(id, l, chosen)
           n == Len(chosen)
           live == active \cup {id}
           all == nodes \cup {id}
<1>1. Searchable /\ LinksTyped
  BY GraphSearchable DEF Searchable
<1>2. /\ active \in SUBSET Id /\ nodes \in SUBSET Id /\ active \subseteq nodes
      /\ id \notin active /\ links[l] \in Adjacency /\ SoundLevel(links[l], nodes, l)
      /\ l \in Int /\ Level[id] \in Int /\ top \in Int /\ q \in Point
      /\ EfConstruction \in Nat \ {0} /\ Cap(l) \in Nat
      /\ \A x \in active : Level[x] \in Int /\ Level[x] <= top
  BY LevelIsNumber, ConstantsAssumption
     DEF IndexInv, Typed, GraphInv, Levels, ConstantsAssumption, Cap
<1>3. CASE ~(l <= top /\ l <= Level[id])
  <2>1. Connected(id)[l] = links[l]
    BY <1>3 DEF Connected
  <2>2. SoundLevel(links[l], all, l)
    <3>1. nodes \subseteq all
      OBVIOUS
    <3> HIDE DEF all
    <3> QED BY <1>2, <3>1, SoundMore
  <2>3. ASSUME Complete(links[l], l, active) PROVE Complete(links[l], l, live)
    <3> SUFFICES ASSUME NEW x \in live, NEW y \in live, x # y, Level[x] >= l, Level[y] >= l
                 PROVE  y \in links[l][x]
      BY DEF Complete
    <3>1. x \in active /\ y \in active
      BY <1>2, <1>3
    <3> QED BY <2>3, <3>1 DEF Complete
  <2> QED BY <1>2, <2>1, <2>2, <2>3
<1>4. CASE l <= top /\ l <= Level[id]
  <2>1. Connected(id)[l] = new
    BY <1>4 DEF Connected
  <2>2. /\ met \in SUBSET Reaching(l)
        /\ Complete(links[l], l, active) /\ Cardinality(Reaching(l)) <= EfConstruction
              => met = Reaching(l)
    BY <1>1, <1>4, Meets
  <2>3. /\ n \in Nat /\ n <= Cap(l)
        /\ chosen \in [1 .. n -> met \cap active]
        /\ Cardinality(met \cap active) <= Cap(l) => S!ToSet(chosen) = met \cap active
    <3>1. Picks(chosen, met \cap active, l)
      BY <1>2, Selected
    <3> HIDE DEF q, met, chosen
    <3> QED BY <3>1 DEF Picks
  <2> HIDE DEF q, met, chosen
  <2>4. /\ chosen \in [1 .. n -> active]
        /\ \A i \in 1 .. n : Level[chosen[i]] >= l
    BY <2>2, <2>3 DEF Reaching
  <2>5. new \in Adjacency /\ Rounds(new, all, id, l, n, chosen)
    <3> HIDE DEF n
    <3> QED BY <1>1, <1>2, <1>4, <2>3, <2>4, ConnectRounds
  <2> HIDE DEF new, n, all
  <2>6. SoundLevel(new, all, l)
    <3>1. Joined(new, all, id, l, n)
      BY <2>5 DEF Rounds
    <3>2. ASSUME NEW x \in Id PROVE Cardinality(new[x]) <= Cap(l)
      <4>1. Cardinality(new[x]) \in Nat
        BY <2>5, IdsFinite DEF Adjacency
      <4>2. Cardinality(new[x]) <= IF x = id THEN n ELSE Cap(l)
        BY <3>1 DEF Joined
      <4> QED BY <1>2, <2>3, <4>1, <4>2
    <3> QED BY <3>1, <3>2 DEF Joined, SoundLevel
  <2>7. ASSUME Complete(links[l], l, active), ~Crowded(live) PROVE Complete(new, l, live)
    <3> DEFINE N == Reaching(l)
               most == IF EfConstruction < Cap(l) THEN EfConstruction ELSE Cap(l)
    <3>1. {x \in live : Level[x] >= l} = N \cup {id} /\ id \notin N /\ N \in SUBSET Id
      BY <1>2, <1>4 DEF Reaching
    <3>2. Cardinality({x \in live : Level[x] >= l}) = Cardinality(N) + 1 /\ Cardinality(N) \in Nat
      <4>1. IsFiniteSet(N) /\ Cardinality(N) \in Nat
        BY <3>1, IdsFinite
      <4> HIDE DEF N, live
      <4> QED BY <3>1, <4>1, FS_AddElement
    <3>3. ~(Cardinality({x \in live : Level[x] >= l}) > most + 1)
      BY <2>7 DEF Crowded
    <3>4. Cardinality(N) <= EfConstruction /\ Cardinality(N) <= Cap(l)
          /\ Cardinality({x \in live : Level[x] >= l}) <= Cap(l) + 1
      <4> HIDE DEF N, live
      <4> QED BY <1>2, <3>2, <3>3
    <3>5. met = N /\ met \cap active = N
      BY <2>2, <2>7, <3>4 DEF Reaching
    <3>6. S!ToSet(chosen) = N
      BY <2>3, <3>4, <3>5
    <3>7. /\ \A x \in live : links[l][x] \cap live \subseteq new[x]
          /\ \A i \in 1 .. n : chosen[i] \in new[id] /\ id \in new[chosen[i]]
      BY <2>5, <3>4 DEF Rounds
    <3>8. \A y \in N : y \in new[id] /\ id \in new[y]
      <4> SUFFICES ASSUME NEW y \in N PROVE y \in new[id] /\ id \in new[y]
        OBVIOUS
      <4>1. PICK i \in 1 .. n : chosen[i] = y
        BY <2>3, <3>6 DEF S!ToSet
      <4> QED BY <3>7, <4>1
    <3> SUFFICES ASSUME NEW x \in live, NEW y \in live, x # y, Level[x] >= l, Level[y] >= l
                 PROVE  y \in new[x]
      BY DEF Complete
    <3>9. CASE x = id
      BY <3>8, <3>9 DEF Reaching
    <3>10. CASE y = id
      BY <3>8, <3>10 DEF Reaching
    <3>11. CASE x # id /\ y # id
      BY <2>7, <3>7, <3>11 DEF Complete
    <3> QED BY <3>9, <3>10, <3>11
  <2> QED BY <2>1, <2>5, <2>6, <2>7 DEF all
<1> QED BY <1>3, <1>4

\* A new node keeps the edges sound, and an index that is not crowded complete.
LEMMA InsertNodeGraph ==
    ASSUME IndexInv, EntryInv, GraphInv, CompleteInv,
           NEW id \in Id, id \notin nodes, InsertNode(id)
    PROVE  /\ links' \in [Levels -> Adjacency]
           /\ \A l \in Levels : SoundLevel(links'[l], nodes \cup {id}, l)
           /\ crowded' \in BOOLEAN
           /\ CompleteInv'
<1>1. /\ active' = active \cup {id} /\ id \notin active
      /\ crowded' = ((crowded /\ active # {}) \/ Crowded(active \cup {id}))
  BY DEF InsertNode, IndexInv
<1>2. crowded' \in BOOLEAN
  BY <1>1
<1>3. CASE entry = NoEntry
  <2>1. links' = links /\ active = {}
    BY <1>3 DEF InsertNode, IndexInv
  <2>2. \A l \in Levels : SoundLevel(links[l], nodes \cup {id}, l)
    BY SoundMore DEF GraphInv
  <2>3. CompleteInv'
    BY <1>1, <2>1 DEF CompleteInv, Complete
  <2> QED BY <1>2, <2>1, <2>2, <2>3 DEF GraphInv
<1>4. CASE entry # NoEntry
  <2>1. links' = Connected(id) /\ active # {}
    BY <1>4 DEF InsertNode, EntryInv
  <2>2. Connected(id) = [l \in Levels |-> Connected(id)[l]]
    BY DEF Connected
  <2>3. \A l \in Levels :
           /\ Connected(id)[l] \in Adjacency
           /\ SoundLevel(Connected(id)[l], nodes \cup {id}, l)
           /\ Complete(links[l], l, active) /\ ~Crowded(active \cup {id})
                 => Complete(Connected(id)[l], l, active \cup {id})
    BY <1>4, ConnectedLevel
  <2>4. links' \in [Levels -> Adjacency]
    BY <2>1, <2>2, <2>3
  <2>5. ~crowded' => \A l \in Levels : Complete(links'[l], l, active \cup {id})
    BY <1>1, <2>1, <2>3 DEF CompleteInv
  <2>6. CompleteInv'
    BY <1>1, <2>5 DEF CompleteInv
  <2> QED BY <1>2, <2>1, <2>3, <2>4, <2>6
<1> QED BY <1>3, <1>4

\* No edges at all.
NoEdges == links' = [l \in Levels |-> [id \in Id |-> {}]]

LEMMA EmptyGraph ==
    ASSUME NoEdges
    PROVE  links' \in [Levels -> Adjacency] /\ \A l \in Levels : \A ids : SoundLevel(links'[l], ids, l)
<1>1. \A l \in Levels : Cap(l) \in Nat
  BY ConstantsAssumption DEF ConstantsAssumption, Cap
<1>2. links' \in [Levels -> Adjacency]
  BY DEF NoEdges, Adjacency
<1>3. \A l \in Levels, x \in Id : links'[l][x] = {}
  BY DEF NoEdges
<1>4. Cardinality({}) = 0
  BY FS_EmptySet
<1> QED BY <1>1, <1>2, <1>3, <1>4 DEF SoundLevel

\* A cleanup leaves the edges between active nodes.
LEMMA CleanupGraph ==
    ASSUME IndexInv, GraphInv, CompleteInv, Cleanup
    PROVE  /\ links' \in [Levels -> Adjacency]
           /\ \A l \in Levels : SoundLevel(links'[l], active, l)
           /\ CompleteInv'
<1>1. /\ active \in SUBSET Id /\ active' = active /\ crowded' = crowded
      /\ links \in [Levels -> Adjacency]
      /\ \A l \in Levels : SoundLevel(links[l], nodes, l)
  BY DEF IndexInv, Typed, GraphInv, Cleanup
<1>2. \A l \in Levels, x \in Id : links[l][x] \in SUBSET Id
  BY <1>1 DEF Adjacency
<1>3. links' = [l \in Levels |-> [x \in Id |->
                  IF x \in active THEN links[l][x] \cap active ELSE {}]]
  BY DEF Cleanup
<1>4. links' \in [Levels -> Adjacency]
  BY <1>2, <1>3 DEF Adjacency
<1>5. \A l \in Levels, x \in Id :
         links'[l][x] = IF x \in active THEN links[l][x] \cap active ELSE {}
  BY <1>3
<1>6. ASSUME NEW l \in Levels PROVE SoundLevel(links'[l], active, l)
  <2> SUFFICES ASSUME NEW x \in Id
               PROVE  /\ links'[l][x] \subseteq active \ {x}
                      /\ links'[l][x] # {} => x \in active /\ Level[x] >= l
                      /\ \A y \in links'[l][x] : x \in links'[l][y]
                      /\ Cardinality(links'[l][x]) <= Cap(l)
    BY DEF SoundLevel
  <2>1. /\ links[l][x] \subseteq nodes \ {x}
        /\ links[l][x] # {} => Level[x] >= l
        /\ \A y \in links[l][x] : x \in links[l][y]
        /\ Cardinality(links[l][x]) <= Cap(l)
    BY <1>1 DEF SoundLevel
  <2>2. links'[l][x] \subseteq active \ {x} /\ links'[l][x] \subseteq links[l][x]
    <3>1. CASE x \in active
      <4>1. links'[l][x] = links[l][x] \cap active
        BY <1>5, <3>1
      <4> QED BY <2>1, <4>1
    <3>2. CASE x \notin active
      <4>1. links'[l][x] = {}
        BY <1>5, <3>2
      <4> QED BY <4>1
    <3> QED BY <3>1, <3>2
  <2>3. links'[l][x] # {} => x \in active /\ Level[x] >= l
    BY <1>5, <2>1, <2>2
  <2>4. ASSUME NEW y \in links'[l][x] PROVE x \in links'[l][y]
    BY <1>1, <1>5, <2>1, <2>2, <2>3, <2>4
  <2>5. Cardinality(links'[l][x]) <= Cap(l)
    <3>1. /\ IsFiniteSet(links[l][x]) /\ Cardinality(links[l][x]) \in Nat
          /\ Cap(l) \in Nat
      BY <1>2, IdsFinite, ConstantsAssumption DEF ConstantsAssumption, Cap
    <3>2. Cardinality(links'[l][x]) <= Cardinality(links[l][x]) /\ Cardinality(links'[l][x]) \in Nat
      BY <2>2, <3>1, FS_Subset, FS_CardinalityType
    <3> QED BY <2>1, <3>1, <3>2
  <2> QED BY <2>2, <2>3, <2>4, <2>5
<1>7. CompleteInv'
  <2> SUFFICES ASSUME ~crowded', NEW l \in Levels, NEW x \in active, NEW y \in active,
                      x # y, Level[x] >= l, Level[y] >= l
               PROVE  y \in links'[l][x]
    BY <1>1 DEF CompleteInv, Complete
  <2>1. y \in links[l][x]
    BY <1>1 DEF CompleteInv, Complete
  <2> QED BY <1>1, <1>5, <2>1
<1> QED BY <1>4, <1>6, <1>7

\* Every step keeps both.
LEMMA GraphStep ==
    ASSUME Reinserts = FALSE
    PROVE  IndexInv /\ EntryInv /\ GraphInv /\ CompleteInv /\ [Next]_vars
               => GraphInv' /\ CompleteInv'
<1> SUFFICES ASSUME IndexInv, EntryInv, GraphInv, CompleteInv, [Next]_vars
             PROVE  GraphInv' /\ CompleteInv'
  OBVIOUS
<1>1. ASSUME NEW id \in Id, Insert(id) PROVE GraphInv' /\ CompleteInv'
  <2>1. /\ pending = {} /\ pending' = pending /\ id \notin nodes /\ InsertNode(id)
        /\ nodes' = nodes \cup {id}
    BY <1>1 DEF Insert, InsertNode
  <2> QED BY <2>1, InsertNodeGraph DEF GraphInv
<1>2. ASSUME NEW id \in Id, Remove(id) PROVE GraphInv' /\ CompleteInv'
  <2>1. /\ UNCHANGED <<nodes, links, pending, crowded>> /\ active' \subseteq active
    BY <1>2 DEF Remove, RemoveNode, index
  <2>2. GraphInv'
    BY <2>1 DEF GraphInv
  <2>3. CompleteInv'
    BY <2>1 DEF CompleteInv, Complete
  <2> QED BY <2>2, <2>3
<1>3. CASE Cleanup
  <2>1. nodes' = active /\ pending' = {} /\ crowded' = crowded
    BY <1>3 DEF Cleanup
  <2> QED BY <1>3, <2>1, CleanupGraph DEF GraphInv
<1>4. ASSUME NoEdges, nodes' = {}, active' = {}, crowded' \in BOOLEAN
      PROVE  GraphInv' /\ CompleteInv'
  <2>1. links' \in [Levels -> Adjacency] /\ \A l \in Levels : SoundLevel(links'[l], {}, l)
    BY <1>4, EmptyGraph
  <2>2. CompleteInv'
    BY <1>4 DEF CompleteInv, Complete
  <2> QED BY <1>4, <2>1, <2>2 DEF GraphInv
<1>5. CASE BeginReindex
  BY <1>4, <1>5 DEF BeginReindex, NoEdges
<1>6. ASSUME NEW id \in Id, ReindexNode(id) PROVE GraphInv' /\ CompleteInv'
  <2>1. /\ id \in pending /\ pending' = pending \ {id} /\ id \notin nodes
        /\ InsertNode(id) /\ nodes' = nodes \cup {id}
    BY <1>6 DEF ReindexNode, InsertNode, GraphInv
  <2> QED BY <2>1, InsertNodeGraph DEF GraphInv
<1>7. CASE Reload
  <2>1. pending' = pending /\ crowded' = crowded
    BY <1>7 DEF Reload
  <2>2. CASE stored = {}
    BY <1>4, <1>7, <2>1, <2>2 DEF Reload, NoEdges, GraphInv
  <2>3. CASE stored # {}
    <3>1. UNCHANGED <<nodes, active, links>>
      BY <1>7, <2>3 DEF Reload
    <3> QED BY <2>1, <3>1 DEF GraphInv, CompleteInv, Complete
  <2> QED BY <2>2, <2>3
<1>8. CASE UNCHANGED vars
  BY <1>8 DEF vars, index, GraphInv, CompleteInv, Complete
<1> QED BY <1>1, <1>2, <1>3, <1>5, <1>6, <1>7, <1>8 DEF Next

\* The empty index has no edges.
LEMMA GraphInit == Init => GraphInv /\ CompleteInv
<1> SUFFICES ASSUME Init PROVE GraphInv /\ CompleteInv
  OBVIOUS
<1>1. /\ links \in [Levels -> Adjacency] /\ \A l \in Levels, x \in Id : links[l][x] = {}
      /\ pending = {} /\ active = {} /\ crowded \in BOOLEAN
  BY DEF Init, Adjacency
<1>2. \A l \in Levels : Cap(l) \in Nat
  BY ConstantsAssumption DEF ConstantsAssumption, Cap
<1>3. Cardinality({}) = 0
  BY FS_EmptySet
<1>4. \A l \in Levels : SoundLevel(links[l], nodes, l)
  BY <1>1, <1>2, <1>3 DEF SoundLevel
<1> QED BY <1>1, <1>4 DEF GraphInv, CompleteInv, Complete

\* What holds in every state of an index that is never asked to insert an id
\* it has soft-removed.
HnswInv == IndexInv /\ EntryInv /\ GraphInv /\ CompleteInv

LEMMA HnswInvariant ==
    ASSUME Reinserts = FALSE
    PROVE  Spec => []HnswInv
<1>1. Init => HnswInv
  BY IndexInit, GraphInit DEF HnswInv
<1>2. HnswInv /\ [Next]_vars => HnswInv'
  BY IndexStep, EntryStep, GraphStep DEF HnswInv
<1> QED BY <1>1, <1>2, PTL DEF Spec

\* Every variable stays in its set.
THEOREM TypeCorrect ==
    ASSUME Reinserts = FALSE
    PROVE  Spec => []TypeOK
<1>1. HnswInv => TypeOK
  BY DEF HnswInv, IndexInv, Typed, EntryInv, GraphInv, Adjacency, TypeOK
<1> QED BY <1>1, HnswInvariant, PTL

\* Neighbours exist, know each other, reach up to the level of the edge and
\* are never too many, whatever was pruned.
THEOREM GraphIsSound ==
    ASSUME Reinserts = FALSE
    PROVE  Spec => []GraphSound
<1>1. HnswInv => GraphSound
  BY DEF HnswInv, GraphInv, SoundLevel, GraphSound
<1> QED BY <1>1, HnswInvariant, PTL

\* The first answer of a search.
LEMMA FirstAnswer ==
    ASSUME HnswInv, NEW q \in Point, NEW ef \in Nat \ {0}
    PROVE  /\ Search(q, 1, ef) = << >> <=> active = {}
           /\ active # {} =>
                 /\ Search(q, 1, ef)[1] \in active
                 /\ \A e \in links[0][Search(q, 1, ef)[1]] \cap active :
                       Far(q, Search(q, 1, ef)[1]) <= Far(q, e)
<1> DEFINE start == Descend(q, ef, 0)
           R == SearchLevel(q, start, ef, 0)
           found == Search(q, 1, ef)
<1>1. 0 \in Levels
  BY ConstantsAssumption DEF ConstantsAssumption, Levels
<1>2. CASE entry = NoEntry
  BY <1>2 DEF Search, HnswInv, IndexInv
<1>3. CASE entry # NoEntry
  <2>1. Searchable /\ LinksTyped /\ active \in SUBSET Id /\ active # {}
    BY <1>3, GraphSearchable DEF HnswInv, Searchable, LinksTyped
  <2>2. start \in active /\ start \in Id
    BY <1>1, <2>1, DescendArrives
  <2> HIDE DEF start
  <2>3. R \in SUBSET active /\ R # {}
    BY <1>1, <2>1, <2>2, SearchFinds
  <2>4. found = FirstOf(ByDistance(q, R), 1)
    BY <1>3 DEF Search, start
  <2>5. \A e \in links[0][Nearest(q, R)] \cap active : Far(q, Nearest(q, R)) <= Far(q, e)
    BY <1>1, <2>1, <2>2, SearchOptimum
  <2> HIDE DEF R, found
  <2>6. Cardinality(R) \in Nat /\ Cardinality(R) # 0 /\ R \in SUBSET Id
    BY <2>1, <2>3, IdsFinite, FS_EmptySet
  <2>7. Len(found) = 1 /\ found[1] = Nearest(q, R)
    <3>1. PICK k \in Nat : k = 1
      OBVIOUS
    <3> DEFINE s == FirstOf(ByDistance(q, R), k)
    <3>2. /\ Len(s) = IF Cardinality(R) < k THEN Cardinality(R) ELSE k
          /\ Cardinality(R) # 0 /\ k # 0 => s[1] = Nearest(q, R)
      BY <2>6, FirstNearest
    <3> HIDE DEF s
    <3>3. Len(s) = 1 /\ s[1] = Nearest(q, R)
      BY <2>6, <3>1, <3>2
    <3> QED BY <2>4, <3>1, <3>3 DEF s
  <2>8. found # << >>
    BY <2>7
  <2>9. found[1] \in active
    BY <2>3, <2>6, <2>7, NearestNear
  <2>10. \A e \in links[0][found[1]] \cap active : Far(q, found[1]) <= Far(q, e)
    BY <2>5, <2>7
  <2> QED BY <2>1, <2>8, <2>9, <2>10 DEF found
<1> QED BY <1>2, <1>3

\* However few nodes a search may keep, it answers when a node is active, and
\* no active neighbour of its first answer is nearer to the query.
THEOREM SearchIsLocalOptimum ==
    ASSUME Reinserts = FALSE
    PROVE  Spec => []SearchLocalOptimum
<1>1. \A q \in Query, ef \in Beam : q \in Point /\ ef \in Nat \ {0}
  BY ConstantsAssumption DEF ConstantsAssumption
<1>2. HnswInv => SearchLocalOptimum
  BY <1>1, FirstAnswer DEF SearchLocalOptimum
<1> QED BY <1>2, HnswInvariant, PTL

\* As long as the index has not been crowded, a search that may keep every
\* node returns what the flat index returns.
THEOREM ExactWhileUncrowded ==
    ASSUME Reinserts = FALSE
    PROVE  Spec => []ExactUntilCrowded
<1>1. HnswInv => ExactUntilCrowded
  <2> SUFFICES ASSUME HnswInv, ~crowded, NEW q \in Query
               PROVE  Search(q, Wide, Wide) = FlatSearch(q, Wide)
    BY DEF ExactUntilCrowded
  <2>1. q \in Point /\ 0 \in Levels
    BY ConstantsAssumption DEF ConstantsAssumption, Levels
  <2>2. Wide \in Nat /\ IsFiniteSet(Id)
    BY IdsFinite DEF Wide
  <2>3. CASE entry = NoEntry
    <3>1. Search(q, Wide, Wide) = << >> /\ active = {}
      BY <2>3 DEF Search, HnswInv, IndexInv
    <3>2. Cardinality({}) = 0
      BY FS_EmptySet
    <3>3. FirstOf(ByDistance(q, {}), Wide) = << >>
      <4> DEFINE s == FirstOf(ByDistance(q, {}), Wide)
      <4>1. {} \in SUBSET Id
        OBVIOUS
      <4>2. s \in [1 .. 0 -> {}] /\ Len(s) = 0
        BY <2>1, <2>2, <3>2, <4>1, FirstNearest
      <4>3. \A seq \in Seq({}) : seq # << >> => Len(seq) \in Nat \ {0}
        OBVIOUS
      <4> HIDE DEF s
      <4>4. s \in Seq({})
        BY <4>2
      <4>5. s = << >>
        BY <4>2, <4>3, <4>4
      <4> QED BY <4>5 DEF s
    <3> QED BY <3>1, <3>3 DEF FlatSearch
  <2>4. CASE entry # NoEntry
    <3>1. Searchable /\ LinksTyped /\ active \in SUBSET Id /\ active # {}
      BY <2>4, GraphSearchable DEF HnswInv, Searchable, LinksTyped
    <3>2. Cardinality(active) <= Wide /\ Cardinality(active) \in Nat /\ Cardinality(active) # 0
      BY <2>2, <3>1, FS_Subset, FS_EmptySet, IdsFinite DEF Wide
    <3>3. Wide \in Nat \ {0}
      BY <2>2, <3>2
    <3>4. Descend(q, Wide, 0) \in active
      BY <2>1, <3>1, <3>3, DescendArrives
    <3>5. \A x \in active : {x} \cup (links[0][x] \cap active) = active
      <4>1. \A x \in active : Level[x] >= 0
        BY <3>1, LevelIsNumber
      <4> QED BY <2>1, <4>1 DEF HnswInv, CompleteInv, Complete
    <3>6. SearchLevel(q, Descend(q, Wide, 0), Wide, 0) = active
      BY <2>1, <3>1, <3>2, <3>3, <3>4, <3>5, SearchExhausts
    <3> QED BY <2>4, <3>3, <3>6 DEF Search, FlatSearch
  <2> QED BY <2>3, <2>4
<1> QED BY <1>1, HnswInvariant, PTL

-----------------------------------------------------------------------------
(* A cleanup changes no answer: a search from an active node sees the same *)
(* nodes in the state before and the state after.                          *)

\* Active nodes keep their active neighbours.
SameNeighbors == /\ active' = active
                 /\ \A l \in Levels, x \in active : links'[l][x] \cap active = links[l][x] \cap active

\* The rules of a search and of a descent, for the state after a step.
LEMMA RulesAfter == SearchRule' /\ DescendRule'
BY SearchEnds, DescendLoops, PTL

LEMMA SameSearch ==
    ASSUME LinksTyped, LinksTyped', SameNeighbors,
           NEW q \in Point, NEW start \in active, NEW ef \in Nat \ {0}, NEW l \in Levels
    PROVE  SearchLevel(q, start, ef, l)' = SearchLevel(q, start, ef, l)
<1>1. active \in SUBSET Id /\ start \in Id
  BY DEF LinksTyped
<1>2. PICK E : Loops(E, q, ef, l) /\ SearchLevel(q, start, ef, l) = E[Begin(start)]
  BY <1>1, SearchLoops
<1> DEFINE Pre == {f \in Frontier : f.open \subseteq active /\ E[f] = E[Begin(start)]}
<1>3. Pre \in SUBSET Frontier /\ Begin(start) \in Pre
  BY <1>1 DEF Begin, Frontier
<1>4. ASSUME NEW f \in Pre, ~Ends(q, ef, f)
      PROVE  Onward(q, ef, l, f)' = Onward(q, ef, l, f) /\ Onward(q, ef, l, f) \in Pre
  <2>1. f \in Frontier /\ f.open # {} /\ f.open \in SUBSET Id /\ f.open \subseteq active
    BY <1>1, <1>4 DEF Ends
  <2>2. Nearest(q, f.open) \in active
    BY <2>1, NearestNear
  <2>3. Found(q, l, f)' = Found(q, l, f) /\ Found(q, l, f) \subseteq active
    BY <2>2 DEF Found, SameNeighbors
  <2>4. Onward(q, ef, l, f)' = Onward(q, ef, l, f)
    BY <2>3 DEF Onward
  <2>5. Onward(q, ef, l, f) \in Frontier
    BY <2>1, SearchProgress
  <2>6. E[Onward(q, ef, l, f)] = E[f]
    BY <1>2, <1>4, <2>1 DEF Loops
  <2>7. Onward(q, ef, l, f).open \subseteq active
    BY <2>1, <2>3 DEF Onward
  <2> QED BY <2>4, <2>5, <2>6, <2>7
<1>5. PICK e \in Pre : Ends(q, ef, e) /\ SearchLevel(q, start, ef, l)' = e.best
  <2>1. SearchRule'
    BY RulesAfter
  <2>2. \A f \in Pre : ~Ends(q, ef, f) => Onward(q, ef, l, f)' \in Pre
    BY <1>4
  <2> HIDE DEF Pre
  <2> QED BY <1>1, <1>3, <2>1, <2>2 DEF SearchRule
<1>6. E[e] = e.best /\ E[e] = E[Begin(start)]
  BY <1>2, <1>5 DEF Loops
<1> QED BY <1>2, <1>5, <1>6

LEMMA SameDescend ==
    ASSUME Searchable, Searchable', SameNeighbors, UNCHANGED <<entry, top>>,
           NEW q \in Point, NEW ef \in Nat \ {0}, NEW l \in Levels
    PROVE  Descend(q, ef, l)' = Descend(q, ef, l)
<1>1. PICK A : Descends(A, q, ef) /\ Descend(q, ef, l) = A[l]
  BY DescendLoops DEF DescendRule
<1>2. PICK B : Descends(B, q, ef)' /\ Descend(q, ef, l)' = B[l]
  BY RulesAfter DEF DescendRule
<1>3. \A k \in Levels : A[k] \in active
  BY <1>1, DescendPath
<1>4. top \in Levels /\ top \in Nat /\ MaxLevel \in Nat
  BY ConstantsAssumption DEF Searchable, LinksTyped, ConstantsAssumption, Levels
<1> DEFINE mu == [k \in Levels |-> MaxLevel - k]
           Wrong == {k \in Levels : A[k] # B[k]}
<1>5. Wrong = {}
  <2> SUFFICES ASSUME Wrong # {} PROVE FALSE
    OBVIOUS
  <2>1. mu \in [Levels -> Nat] /\ Wrong \in SUBSET Levels
    BY <1>4 DEF Levels
  <2>2. PICK k \in Wrong : \A j \in Wrong : mu[k] <= mu[j]
    <3> HIDE DEF mu, Wrong
    <3> QED BY <2>1, LeastMeasure
  <2>3. k \in Levels /\ A[k] # B[k]
    OBVIOUS
  <2>4. /\ A[k] = IF k >= top THEN entry ELSE Nearest(q, SearchLevel(q, A[k + 1], ef, k + 1))
        /\ B[k] = IF k >= top THEN entry ELSE Nearest(q, SearchLevel(q, B[k + 1], ef, k + 1)')
    BY <1>1, <1>2, <2>3 DEF Descends
  <2>5. ~(k >= top)
    BY <2>3, <2>4
  <2>6. k + 1 \in Levels /\ mu[k + 1] < mu[k]
    BY <1>4, <2>3, <2>5 DEF Levels
  <2>7. A[k + 1] = B[k + 1] /\ A[k + 1] \in active
    BY <1>3, <1>4, <2>2, <2>6 DEF Levels
  <2>8. SearchLevel(q, A[k + 1], ef, k + 1)' = SearchLevel(q, A[k + 1], ef, k + 1)
    BY <2>6, <2>7, SameSearch DEF Searchable
  <2> QED BY <2>3, <2>4, <2>5, <2>7, <2>8
<1> QED BY <1>1, <1>2, <1>5

\* A search answers the same before and after.
LEMMA SameAnswer ==
    ASSUME entry # NoEntry => Searchable /\ Searchable', SameNeighbors, UNCHANGED <<entry, top>>,
           NEW q \in Point, NEW ef \in Nat \ {0}, NEW k
    PROVE  Search(q, k, ef)' = Search(q, k, ef)
<1>1. CASE entry = NoEntry
  BY <1>1 DEF Search
<1>2. CASE entry # NoEntry
  <2>1. 0 \in Levels
    BY ConstantsAssumption DEF ConstantsAssumption, Levels
  <2>2. Searchable /\ Searchable' /\ LinksTyped /\ LinksTyped'
    BY <1>2 DEF Searchable
  <2>3. Descend(q, ef, 0)' = Descend(q, ef, 0) /\ Descend(q, ef, 0) \in active
    BY <2>1, <2>2, SameDescend, DescendArrives
  <2> DEFINE start == Descend(q, ef, 0)
  <2>4. PICK x \in active : x = Descend(q, ef, 0)
    BY <2>3
  <2>5. SearchLevel(q, x, ef, 0)' = SearchLevel(q, x, ef, 0)
    BY <2>1, <2>2, SameSearch
  <2>6. SearchLevel(q, Descend(q, ef, 0), ef, 0)' = SearchLevel(q, Descend(q, ef, 0), ef, 0)
    BY <2>3, <2>4, <2>5
  <2> QED BY <1>2, <2>6 DEF Search
<1> QED BY <1>1, <1>2

\* A cleanup that does not reindex is invisible to searches.
THEOREM CleanupIsInvisible ==
    ASSUME Reinserts = FALSE
    PROVE  Spec => CleanupInvisible
<1>1. HnswInv /\ entry # NoEntry => Searchable
  BY GraphSearchable DEF HnswInv
<1>2. (HnswInv /\ entry # NoEntry => Searchable)'
  BY <1>1, PTL
<1>3. ASSUME HnswInv, HnswInv', [Next]_vars, pending = {}, nodes' # nodes, active' = active
      PROVE  UNCHANGED Answers
  <2>1. \A q \in Query, ef \in Beam : q \in Point /\ ef \in Nat \ {0}
    BY ConstantsAssumption DEF ConstantsAssumption
  <2>2. Cleanup \/ BeginReindex
    <3>1. ASSUME NEW id \in Id, Insert(id) PROVE FALSE
      BY <1>3, <3>1 DEF Insert, InsertNode, HnswInv, IndexInv, index
    <3>2. ASSUME NEW id \in Id, Remove(id) PROVE FALSE
      BY <1>3, <3>2 DEF Remove, RemoveNode, index
    <3>3. ASSUME NEW id \in Id, ReindexNode(id) PROVE FALSE
      BY <1>3, <3>3 DEF ReindexNode
    <3>4. ASSUME Reload PROVE FALSE
      BY <1>3, <3>4 DEF Reload, HnswInv, IndexInv
    <3>5. ASSUME UNCHANGED vars PROVE FALSE
      BY <1>3, <3>5 DEF vars, index
    <3> QED BY <1>3, <3>1, <3>2, <3>3, <3>4, <3>5 DEF Next
  <2>3. ASSUME NEW q \in Query, NEW ef \in Beam PROVE Search(q, Wide, ef)' = Search(q, Wide, ef)
    <3>1. CASE Cleanup
      <4>1. SameNeighbors /\ UNCHANGED <<entry, top>>
        <5>1. \A l \in Levels, x \in Id :
                 links'[l][x] = IF x \in active THEN links[l][x] \cap active ELSE {}
          BY <3>1 DEF Cleanup
        <5>2. active \in SUBSET Id
          BY <1>3 DEF HnswInv, IndexInv, Typed
        <5> QED BY <3>1, <5>1, <5>2 DEF Cleanup, SameNeighbors
      <4>2. entry # NoEntry => Searchable /\ Searchable'
        BY <1>1, <1>2, <1>3, <4>1
      <4> QED BY <2>1, <4>1, <4>2, SameAnswer
    <3>2. CASE BeginReindex
      <4>1. entry = NoEntry /\ entry' = NoEntry
        BY <1>3, <3>2 DEF BeginReindex, HnswInv, EntryInv
      <4> QED BY <4>1 DEF Search
    <3> QED BY <2>2, <3>1, <3>2
  <2>4. ASSUME NEW q \in Query
        PROVE  [ef \in Beam |-> Search(q, Wide, ef)'] = [ef \in Beam |-> Search(q, Wide, ef)]
    BY <2>3
  <2> QED BY <2>4 DEF Answers
<1>4. HnswInv /\ HnswInv' /\ [Next]_vars
        => (pending = {} /\ nodes' # nodes /\ active' = active => UNCHANGED Answers)
  BY <1>3
<1> QED BY <1>4, HnswInvariant, PTL DEF Spec, CleanupInvisible
=============================================================================
