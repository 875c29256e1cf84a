----------------------------- MODULE HnswIndex -----------------------------
(***************************************************************************)
(* The HNSW index of one table and the store in front of it: levels,       *)
(* neighbours, entry point, soft removal, cleanup, reindexing and a reload *)
(* from the snapshot files.                                                *)
(*                                                                         *)
(* Every operation holds rw_mutex_ of the index and is one action.  A      *)
(* reindex holds it too, across one InsertNoLock per node: until `pending' *)
(* is empty no other operation runs and no search looks at the graph.  An  *)
(* id keeps one vector, and its level is a function of the id              *)
(* (GetRandomLevel seeds its generator with it).                           *)
(***************************************************************************)
EXTENDS Integers, FiniteSets, Sequences

S == INSTANCE SequencesExt

CONSTANTS Id,              \* vector identifiers, numbers: they break ties of distance
          Point,           \* vectors of the table's dimensionality
          Query,           \* those that are searched for
          Beam,            \* values of ef_search
          VectorOf,        \* the vector inserted under an id
          Distance,        \* Distance[p, q]: the metric
          Level,           \* Level[id]: GetRandomLevel
          MaxLevel,        \* no id has a greater level
          M, M0,           \* neighbours a node keeps on a level above 0, and on level 0
          EfConstruction,  \* nodes an insertion looks at
          Reinserts        \* TRUE: an id may be inserted while its node is soft-removed

Levels == 0 .. MaxLevel
NoEntry == -1

ASSUME ConstantsAssumption ==
    /\ Id \subseteq Nat /\ IsFiniteSet(Id)
    /\ VectorOf \in [Id -> Point]
    /\ Query \subseteq Point /\ Beam \subseteq Nat \ {0}
    /\ Distance \in [Point \X Point -> Nat]
    /\ MaxLevel \in Nat
    /\ Level \in [Id -> Levels]
    /\ {M, M0, EfConstruction} \subseteq Nat \ {0}
    /\ Reinserts \in BOOLEAN

VARIABLES stored,   \* ids in VectorStore::store_
          nodes,    \* ids in nodes_, the soft-removed ones included
          active,   \* ids of the nodes with active = true
          links,    \* links[l][id]: nodes_[id].neighbors[l]
          byLevel,  \* node_levels_
          entry,    \* entry_point_, or NoEntry
          top,      \* max_level_
          pending,  \* nodes a running Reindex has still to insert
          crowded   \* history: some level held more nodes than a node has neighbours

index == <<nodes, active, links, byLevel, entry, top>>
vars == <<stored, index, pending, crowded>>

-----------------------------------------------------------------------------
(* Searching.                                                              *)

Far(q, id) == Distance[q, VectorOf[id]]

\* Order of the pairs (distance, id).
Nearer(q, x, y) == \/ Far(q, x) < Far(q, y)
                   \/ Far(q, x) = Far(q, y) /\ x < y

Nearest(q, ids) == CHOOSE x \in ids : \A y \in ids \ {x} : Nearer(q, x, y)
Farthest(q, ids) == CHOOSE x \in ids : \A y \in ids \ {x} : Nearer(q, y, x)

\* The ids, nearest first.
ByDistance(q, ids) ==
    [i \in 1 .. Cardinality(ids) |->
        CHOOSE x \in ids : Cardinality({y \in ids : Nearer(q, y, x)}) = i - 1]

FirstOf(s, k) == SubSeq(s, 1, IF Len(s) < k THEN Len(s) ELSE k)

\* The frontier of a search: nodes to look at, best nodes so far, nodes seen.
Frontier == [open : SUBSET Id, best : SUBSET Id, seen : SUBSET Id]

\* Mutant: the search stops at the first candidate once ef nodes are found.
SearchLevelHasty(q, start, ef, l) ==
    LET Explore[f \in Frontier] ==
          IF f.open = {} \/ Cardinality(f.best) = ef THEN f.best
          ELSE LET n == Nearest(q, f.open)
                   fresh == (links[l][n] \cap active) \ f.seen
               IN  Explore[[open |-> (f.open \ {n}) \cup fresh,
                            best |-> f.best \cup {n},
                            seen |-> f.seen \cup fresh]]
    IN  Explore[[open |-> {start}, best |-> {}, seen |-> {start}]]

\* SearchLevel: the ef nearest nodes met on level l, walking from start over
\* active nodes and giving up at a candidate farther than the worst of ef.
SearchLevel(q, start, ef, l) ==
    LET Explore[f \in Frontier] ==
          IF f.open = {} THEN f.best
          ELSE LET n == Nearest(q, f.open)
                   full == Cardinality(f.best) = ef
                   worst == Farthest(q, f.best)
                   fresh == (links[l][n] \cap active) \ f.seen
               IN  IF full /\ Far(q, n) > Far(q, worst) THEN f.best
                   ELSE Explore[[open |-> (f.open \ {n}) \cup fresh,
                                 best |-> {n} \cup (IF full THEN f.best \ {worst} ELSE f.best),
                                 seen |-> f.seen \cup fresh]]
    IN  IF ef = 0 THEN {} ELSE Explore[[open |-> {start}, best |-> {}, seen |-> {start}]]

\* Where the greedy descent from the entry point arrives on level l.
Descend(q, ef, l) ==
    LET At[k \in Levels] == IF k >= top THEN entry
                            ELSE Nearest(q, SearchLevel(q, At[k + 1], ef, k + 1))
    IN  At[l]

Search(q, k, ef) ==
    IF entry = NoEntry \/ ef = 0 THEN << >>
    ELSE FirstOf(ByDistance(q, SearchLevel(q, Descend(q, ef, 0), ef, 0)), k)

\* FlatIndex::Search over the same vectors.
FlatSearch(q, k) == FirstOf(ByDistance(q, active), k)

-----------------------------------------------------------------------------
(* Connecting a new node.                                                  *)

Cap(l) == IF l = 0 THEN M0 ELSE M

\* Mutant: soft-removed nodes compete for the places of a neighbour list.
SelectNeighborsAny(q, candidates, l, live) == FirstOf(ByDistance(q, candidates), Cap(l))

SelectNeighbors(q, candidates, l, live) ==
    FirstOf(ByDistance(q, candidates \cap live), Cap(l))

\* Mutant: the pruned node is not forgotten by the node it is pruned from.
ConnectOneWay(id, l, live, adj, e) ==
    LET conn == adj[e] \cup {id}
        kept == IF Cardinality(conn) > Cap(l)
                THEN S!ToSet(SelectNeighbors(VectorOf[e], conn, l, live)) ELSE conn
    IN  [adj EXCEPT ![id] = @ \cup {e}, ![e] = kept]

\* One round of ConnectNeighbors: id and e become neighbours, and when e then
\* has too many it keeps its nearest and is forgotten by the others, which
\* may include id.
ConnectOne(id, l, live, adj, e) ==
    LET conn == adj[e] \cup {id}
        kept == IF Cardinality(conn) > Cap(l)
                THEN S!ToSet(SelectNeighbors(VectorOf[e], conn, l, live)) ELSE conn
        both == [adj EXCEPT ![id] = @ \cup {e}, ![e] = kept]
    IN  [x \in Id |-> IF x \in conn \ kept THEN both[x] \ {e} ELSE both[x]]

ConnectNeighbors(id, l, neighbors) ==
    S!FoldLeft(LAMBDA adj, e : ConnectOne(id, l, active \cup {id}, adj, e), links[l], neighbors)

\* The levels on which a new node meets the others, all searched from the
\* node the descent to its own level arrives at.
Connected(id) ==
    LET q == VectorOf[id]
        start == Descend(q, 1, Level[id])
        Chosen(l) == SelectNeighbors(q, SearchLevel(q, start, EfConstruction, l), l, active)
    IN  [l \in Levels |-> IF l <= top /\ l <= Level[id]
                          THEN ConnectNeighbors(id, l, Chosen(l)) ELSE links[l]]

Crowded(ids) == \E l \in Levels :
                 LET most == IF EfConstruction < Cap(l) THEN EfConstruction ELSE Cap(l)
                 IN  Cardinality({id \in ids : Level[id] >= l}) > most + 1

-----------------------------------------------------------------------------
Init == /\ stored = {} /\ nodes = {} /\ active = {}
        /\ links = [l \in Levels |-> [id \in Id |-> {}]]
        /\ byLevel = [l \in Levels |-> {}]
        /\ entry = NoEntry /\ top = -1
        /\ pending = {}
        /\ crowded = FALSE

\* Mutant: a new node on a higher level does not become the entry point.
InsertNodeBelow(id) ==
    /\ nodes' = nodes \cup {id}
    /\ active' = active \cup {id}
    /\ byLevel' = [byLevel EXCEPT ![Level[id]] = @ \cup {id}]
    /\ IF entry = NoEntry THEN /\ entry' = id /\ top' = Level[id] /\ UNCHANGED links
                          ELSE /\ UNCHANGED <<entry, top>> /\ links' = Connected(id)
    /\ crowded' = ((crowded /\ active # {}) \/ Crowded(active'))

\* InsertNoLock, and the part of Insert behind its guard.
InsertNode(id) ==
    /\ nodes' = nodes \cup {id}
    /\ active' = active \cup {id}
    /\ byLevel' = [byLevel EXCEPT ![Level[id]] = @ \cup {id}]
    /\ IF entry = NoEntry \/ Level[id] > top
       THEN entry' = id /\ top' = Level[id]
       ELSE UNCHANGED <<entry, top>>
    /\ links' = IF entry = NoEntry THEN links ELSE Connected(id)
    /\ crowded' = ((crowded /\ active # {}) \/ Crowded(active'))

\* VectorStore::Insert: the index ignores an id it still carries.
Insert(id) ==
    /\ pending = {}
    /\ id \notin stored
    /\ id \in nodes => Reinserts
    /\ stored' = stored \cup {id}
    /\ IF id \in nodes THEN UNCHANGED <<index, crowded>> ELSE InsertNode(id)
    /\ UNCHANGED pending

\* Mutant: the search for a new entry point runs past level 0.
RemoveNodePastEnd(id) ==
    LET left == [byLevel EXCEPT ![Level[id]] = @ \ {id}]
        high == {l \in 0 .. top : left[l] # {}}
    IN  /\ active' = active \ {id}
        /\ byLevel' = left
        /\ IF id # entry THEN UNCHANGED <<entry, top>>
           ELSE IF high = {} THEN entry' = NoEntry /\ top' = -2
           ELSE \E l \in high : top' = l /\ entry' \in left[l]
        /\ UNCHANGED <<nodes, links>>

\* The node stays, inactive.  An entry point that goes is replaced by any
\* active node of the highest level that has one.
RemoveNode(id) ==
    LET left == [byLevel EXCEPT ![Level[id]] = @ \ {id}]
        high == {l \in 0 .. top : left[l] # {}}
    IN  /\ active' = active \ {id}
        /\ byLevel' = left
        /\ IF id # entry THEN UNCHANGED <<entry, top>>
           ELSE IF high = {} THEN entry' = NoEntry /\ top' = -1
           ELSE \E l \in high : /\ \A k \in high : k <= l
                                /\ top' = l
                                /\ entry' \in left[l] \cap active'
        /\ UNCHANGED <<nodes, links>>

\* VectorStore::Remove.
Remove(id) ==
    /\ pending = {}
    /\ id \in stored
    /\ stored' = stored \ {id}
    /\ IF entry # NoEntry /\ id \in active THEN RemoveNode(id) ELSE UNCHANGED index
    /\ UNCHANGED <<pending, crowded>>

\* Mutant: a node of a level above 0 loses its neighbours there.
CleanupFlattening ==
    /\ pending = {}
    /\ nodes' = active
    /\ links' = [l \in Levels |-> [id \in Id |->
                    IF id \in active /\ l = 0 THEN links[l][id] \cap active ELSE {}]]
    /\ UNCHANGED <<stored, active, byLevel, entry, top, pending, crowded>>

\* HNSWIndex::Cleanup: removed nodes go, and with them the edges to them.
Cleanup ==
    /\ pending = {}
    /\ nodes' = active
    /\ links' = [l \in Levels |-> [id \in Id |->
                    IF id \in active THEN links[l][id] \cap active ELSE {}]]
    /\ UNCHANGED <<stored, active, byLevel, entry, top, pending, crowded>>

\* Mutant: Reindex without the Cleanup that comes before it.
BeginReindexUncleaned ==
    /\ pending = {}
    /\ pending' = nodes
    /\ nodes' = {} /\ active' = {}
    /\ links' = [l \in Levels |-> [id \in Id |-> {}]]
    /\ byLevel' = [l \in Levels |-> {}]
    /\ entry' = NoEntry /\ top' = -1
    /\ crowded' = FALSE
    /\ UNCHANGED stored

\* VectorStore::Cleanup(true): HNSWIndex::Cleanup, then Reindex empties the
\* index and inserts the nodes that were left, in the order of a hash map.
BeginReindex ==
    /\ pending = {}
    /\ pending' = active
    /\ nodes' = {} /\ active' = {}
    /\ links' = [l \in Levels |-> [id \in Id |-> {}]]
    /\ byLevel' = [l \in Levels |-> {}]
    /\ entry' = NoEntry /\ top' = -1
    /\ crowded' = FALSE
    /\ UNCHANGED stored

ReindexNode(id) ==
    /\ id \in pending
    /\ pending' = pending \ {id}
    /\ InsertNode(id)
    /\ UNCHANGED stored

\* SaveSnapshot after the shutdown's forced cleanup, and LoadSnapshot at the
\* next start.  A snapshot without vectors is ignored and the table starts
\* with an empty index.  The file's entry point is a plain integer: an entry
\* point that was not set is read as 0.
Reload ==
    /\ pending = {}
    /\ nodes = active
    /\ IF stored = {}
       THEN /\ nodes' = {} /\ active' = {}
            /\ links' = [l \in Levels |-> [id \in Id |-> {}]]
            /\ byLevel' = [l \in Levels |-> {}]
            /\ entry' = NoEntry /\ top' = -1
       ELSE /\ entry' = IF entry = NoEntry THEN 0 ELSE entry
            /\ UNCHANGED <<nodes, active, links, byLevel, top>>
    /\ UNCHANGED <<stored, pending, crowded>>

Next == \/ \E id \in Id : Insert(id) \/ Remove(id)
        \/ Cleanup
        \/ BeginReindex
        \/ \E id \in Id : ReindexNode(id)
        \/ Reload

Spec == Init /\ [][Next]_vars

-----------------------------------------------------------------------------
(* Properties.                                                             *)

\* Every variable stays in its set.
TypeOK ==
    /\ {stored, nodes, active, pending} \subseteq SUBSET Id
    /\ links \in [Levels -> [Id -> SUBSET Id]]
    /\ byLevel \in [Levels -> SUBSET Id]
    /\ entry \in Id \cup {NoEntry}
    /\ top \in Levels \cup {-1}
    /\ crowded \in BOOLEAN

\* node_levels_ lists exactly the active nodes, each on its own level.
LevelsListed == \A l \in Levels : byLevel[l] = {id \in active : Level[id] = l}

\* ENTRY POINT.  A search starts at an active node of the highest level any
\* active node has, and there is none only when no node is active: Insert,
\* Remove, Reindex and the loader each keep entry_point_ and max_level_
\* (hnsw_index.cc) in step with the nodes and with node_levels_.
EntryHighest ==
    /\ LevelsListed
    /\ active \subseteq nodes
    /\ entry = NoEntry <=> active = {}
    /\ entry = NoEntry => top = -1
    /\ entry # NoEntry => entry \in active /\ top = Level[entry]
    /\ \A id \in active : Level[id] <= top

\* GRAPH.  Neighbours exist, know each other, both reach up to the level of
\* the edge, and are at most m (m0 on level 0): ConnectNeighbors prunes one
\* neighbour list and has to take the edge out of the other one too.
GraphSound ==
    \A l \in Levels, id \in Id :
        /\ links[l][id] \subseteq nodes \ {id}
        /\ links[l][id] # {} => id \in nodes /\ Level[id] >= l
        /\ \A e \in links[l][id] : id \in links[l][e]
        /\ Cardinality(links[l][id]) <= Cap(l)

\* LOCAL OPTIMUM.  However few nodes a search may keep (ef_search), no active
\* neighbour of its first answer is nearer to the query than that answer.
SearchLocalOptimum ==
    pending = {} =>
        \A q \in Query, ef \in Beam :
            LET found == Search(q, 1, ef)
            IN  /\ found = << >> <=> active = {}
                /\ found # << >> =>
                     /\ found[1] \in active
                     /\ \A e \in links[0][found[1]] \cap active : Far(q, found[1]) <= Far(q, e)

Wide == Cardinality(Id)

\* EXACTNESS.  As long as no level has ever held more active nodes than one
\* node can have neighbours (since the index was last empty or reindexed), a
\* search that may keep every node returns what the flat index returns:
\* soft-removed nodes between active ones and in their neighbour lists cut
\* off nothing (hnsw_index.cc, SearchLevel skips them without going through).
ExactUntilCrowded ==
    pending = {} /\ ~crowded =>
        \A q \in Query : Search(q, Wide, Wide) = FlatSearch(q, Wide)

Answers == [q \in Query |-> [ef \in Beam |-> Search(q, Wide, ef)]]

\* A cleanup that does not reindex is invisible to searches, narrow ones
\* included: it takes out only nodes that no search visits.
CleanupInvisible ==
    [][pending = {} /\ nodes' # nodes /\ active' = active => UNCHANGED Answers]_vars

\* An entry point read from a snapshot is an active node; the constructor of
\* HNSWIndex says "If snapshot didn't have an entry point, set a new one from
\* the highest level" (hnsw_index.cc).
LoadedEntryUsable == entry # NoEntry => entry \in active

-----------------------------------------------------------------------------
(* The index implements StoreMembership: levels, edges and reindexing      *)
(* change nothing about which ids are stored, active or soft-removed.      *)

Membership == INSTANCE StoreMembership
                  WITH active <- active \cup pending, soft <- nodes \ active

\* Refinement: every operation changes the membership as StoreMembership says,
\* and a reindex never loses a node or brings a removed one back.
ImplementsMembership == Membership!Spec
=============================================================================
