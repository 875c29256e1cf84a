---------------------------- MODULE BatchSearch ----------------------------
(***************************************************************************)
(* Batch searches of one table: the result cache (LRUCache), the thread    *)
(* pool that runs one task per request, and the writes that invalidate the *)
(* cache.                                                                  *)
(*                                                                         *)
(* On a primary, searches and writes all hold engine_mutex_ in shared mode *)
(* and interleave freely; LRUCache, ThreadPool and VectorStore lock inside *)
(* each of their operations.  On a replica ApplyWALEntry takes             *)
(* engine_mutex_ exclusively.  The contents of the store are reduced to a  *)
(* version, the number of writes that changed it.                          *)
(***************************************************************************)
EXTENDS Naturals, FiniteSets, Sequences

CONSTANTS Searcher,    \* threads calling BatchSearch
          Writer,      \* threads calling Insert, Remove, BatchInsert, BatchRemove
          Worker,      \* threads of the pool
          Batch,       \* batches: sequences of requests [k, param, even, odd]:
                       \* vector components at even and odd places
          Asks,        \* <<s, b>> in it: searcher s may search for batch b
          Capacity,    \* max_cache_size_
          Replicated,  \* TRUE: the primary has replicas, so a sync loop
          Roles,       \* what the engine may be: "primary", "replica"
          Nothing,     \* no result, no task
          MaxVersion   \* bound: writes that change the store

Request == UNION {{b[i] : i \in DOMAIN b} : b \in Batch}

ASSUME ConstantsAssumption ==
    /\ Worker # {}
    /\ Batch # {}
    /\ \A b \in Batch : Len(b) \in Nat \ {0} /\ b = [i \in 1 .. Len(b) |-> b[i]]
    /\ Asks \subseteq Searcher \X Batch
    /\ Capacity \in Nat \ {0}
    /\ Replicated \in BOOLEAN
    /\ Roles \subseteq {"primary", "replica"}
    /\ MaxVersion \in Nat
    /\ Nothing \notin (Searcher \X Nat) \cup [request : Request, version : Nat]

VARIABLES role,      \* metadata_.primary
          asked,     \* per searcher: the batch of its call, or NoBatch
          sent,      \* per searcher: tasks enqueued
          got,       \* per searcher: per request the result in its future, or Nothing
          tasks,     \* tasks_: <<searcher, position>>
          doing,     \* per worker: the task it runs, or Nothing
          asleep,    \* workers waiting on cv_
          cache,     \* cache_: key -> results
          keys,      \* keys_: least recently used first
          version,   \* number of writes that changed the store
          modified,  \* modified flag of StatsManager
          wpc,       \* per writer: where its call is
          made,      \* per writer: the version its call made, or 0
          recent,    \* history: keys used since the last InvalidateAll, last use last
          settled,   \* history: newest version whose write has been answered
          cut,       \* history, per searcher: InvalidateAll came after a read it outdated
          late,      \* history: keys stored by a searcher that was cut
          skipped    \* history: a write found the flag down and did not invalidate

calls == <<asked, sent, got>>
pool == <<tasks, doing, asleep>>
lru == <<cache, keys, recent>>
writes == <<version, modified, wpc, made, settled>>
races == <<cut, late, skipped>>
vars == <<role, calls, pool, lru, writes, races>>

NoBatch == << >>

-----------------------------------------------------------------------------
(* The cache key.                                                          *)

\* The xor of the number of requests and of every request's k, search
\* parameter and even vector components: what occurs an odd number of times.
\* The odd components are skipped.
BatchKey(b) ==
    LET Occurrences(c) == {<<0, "size">> : x \in {Len(b)} \cap {c}} \cup
                          {o \in (DOMAIN b) \X {"k", "param", "even"} : b[o[1]][o[2]] = c}
    IN  {c \in {Len(b)} \cup UNION {{b[i].k, b[i].param, b[i].even} : i \in DOMAIN b} :
            Cardinality(Occurrences(c)) % 2 = 1}

Key == {BatchKey(b) : b \in Batch}

-----------------------------------------------------------------------------
(* LRUCache.                                                               *)

Holds(s, k) == \E i \in DOMAIN s : s[i] = k

\* keys_.erase of the one place of k.
Without(s, k) ==
    LET place == CHOOSE i \in DOMAIN s : s[i] = k
    IN  IF Holds(s, k) THEN [i \in 1 .. Len(s) - 1 |-> IF i < place THEN s[i] ELSE s[i + 1]] ELSE s

\* ... and push_back.
MovedLast(s, k) == Append(Without(s, k), k)

\* Mutant: a hit leaves the key where it is.
TouchNot(k) == recent' = MovedLast(recent, k) /\ UNCHANGED <<cache, keys>>

\* Get finds key k.
Touch(k) == /\ keys' = MovedLast(keys, k)
            /\ recent' = MovedLast(recent, k)
            /\ UNCHANGED cache

\* Store: a new key evicts the least recently used one of a full cache.
Store(k, results) ==
    LET full == k \notin DOMAIN cache /\ Cardinality(DOMAIN cache) = Capacity
        kept == IF full THEN DOMAIN cache \ {Head(keys)} ELSE DOMAIN cache
    IN  /\ cache' = [x \in kept \cup {k} |-> IF x = k THEN results ELSE cache[x]]
        /\ keys' = MovedLast(IF full THEN Tail(keys) ELSE keys, k)
        /\ recent' = MovedLast(recent, k)

InvalidateAll == cache' = << >> /\ keys' = << >> /\ recent' = << >>

-----------------------------------------------------------------------------
Init == /\ role \in Roles
        /\ asked = [s \in Searcher |-> NoBatch]
        /\ sent = [s \in Searcher |-> 0]
        /\ got = [s \in Searcher |-> << >>]
        /\ tasks = << >>
        /\ doing = [w \in Worker |-> Nothing]
        /\ asleep = {}
        /\ cache = << >> /\ keys = << >> /\ recent = << >>
        /\ version = 0 /\ modified = FALSE
        /\ wpc = [w \in Writer |-> "idle"]
        /\ made = [w \in Writer |-> 0]
        /\ settled = 0
        /\ cut = [s \in Searcher |-> FALSE]
        /\ late = {} /\ skipped = FALSE

(* BatchSearch.                                                            *)

\* A call that finds its batch in the cache returns.
Hit(s, b) ==
    /\ asked[s] = NoBatch
    /\ BatchKey(b) \in DOMAIN cache
    /\ Touch(BatchKey(b))
    /\ UNCHANGED <<role, calls, pool, writes, races>>

Miss(s, b) ==
    /\ asked[s] = NoBatch
    /\ BatchKey(b) \notin DOMAIN cache
    /\ asked' = [asked EXCEPT ![s] = b]
    /\ got' = [got EXCEPT ![s] = [i \in DOMAIN b |-> Nothing]]
    /\ cut' = [cut EXCEPT ![s] = FALSE]
    /\ UNCHANGED <<role, sent, pool, lru, writes, late, skipped>>

\* Mutant: only a call's first task wakes a worker.
EnqueueTaskQuietly(s) ==
    /\ sent[s] < Len(asked[s])
    /\ sent' = [sent EXCEPT ![s] = @ + 1]
    /\ tasks' = Append(tasks, <<s, sent[s] + 1>>)
    /\ IF asleep = {} \/ sent[s] # 0 THEN UNCHANGED asleep
       ELSE \E w \in asleep : asleep' = asleep \ {w}
    /\ UNCHANGED <<role, asked, got, doing, lru, writes, races>>

\* EnqueueTask for the next request, with its notify_one.
EnqueueTask(s) ==
    /\ sent[s] < Len(asked[s])
    /\ sent' = [sent EXCEPT ![s] = @ + 1]
    /\ tasks' = Append(tasks, <<s, sent[s] + 1>>)
    /\ IF asleep = {} THEN UNCHANGED asleep
                      ELSE \E w \in asleep : asleep' = asleep \ {w}
    /\ UNCHANGED <<role, asked, got, doing, lru, writes, races>>

\* Mutant: a returning call leaves its count of tasks to the next one.
StoreResultsCounted(s) ==
    /\ asked[s] # NoBatch
    /\ \A i \in DOMAIN got[s] : got[s][i] # Nothing
    /\ LET k == BatchKey(asked[s])
       IN  /\ Store(k, got[s])
           /\ late' = (IF cut[s] THEN late \cup {k} ELSE late \ {k}) \cap DOMAIN cache'
    /\ asked' = [asked EXCEPT ![s] = NoBatch]
    /\ got' = [got EXCEPT ![s] = << >>]
    /\ cut' = [cut EXCEPT ![s] = FALSE]
    /\ UNCHANGED <<role, sent, pool, writes, skipped>>

\* All futures are ready: the results are cached and the call returns.
StoreResults(s) ==
    /\ asked[s] # NoBatch
    /\ \A i \in DOMAIN got[s] : got[s][i] # Nothing
    /\ LET k == BatchKey(asked[s])
       IN  /\ Store(k, got[s])
           /\ late' = (IF cut[s] THEN late \cup {k} ELSE late \ {k}) \cap DOMAIN cache'
    /\ asked' = [asked EXCEPT ![s] = NoBatch]
    /\ sent' = [sent EXCEPT ![s] = 0]
    /\ got' = [got EXCEPT ![s] = << >>]
    /\ cut' = [cut EXCEPT ![s] = FALSE]
    /\ UNCHANGED <<role, pool, writes, skipped>>

(* ThreadPool.                                                             *)

\* The predicate of cv_.wait is false: the worker sleeps.
Sleep(w) ==
    /\ doing[w] = Nothing /\ w \notin asleep
    /\ tasks = << >>
    /\ asleep' = asleep \cup {w}
    /\ UNCHANGED <<role, calls, tasks, doing, lru, writes, races>>

\* Mutant: the task is moved from the front of the queue and not popped.
TakeFront(w) ==
    /\ doing[w] = Nothing /\ w \notin asleep
    /\ tasks # << >>
    /\ doing' = [doing EXCEPT ![w] = Head(tasks)]
    /\ UNCHANGED <<role, calls, tasks, asleep, lru, writes, races>>

Take(w) ==
    /\ doing[w] = Nothing /\ w \notin asleep
    /\ tasks # << >>
    /\ doing' = [doing EXCEPT ![w] = Head(tasks)]
    /\ tasks' = Tail(tasks)
    /\ UNCHANGED <<role, calls, asleep, lru, writes, races>>

\* Mutant: the loop variables are captured by reference.
RunTaskByReference(w) ==
    /\ doing[w] # Nothing
    /\ LET s == doing[w][1]
           i == doing[w][2]
       IN  got' = [got EXCEPT ![s][i] = [request |-> asked[s][sent[s]], version |-> version]]
    /\ doing' = [doing EXCEPT ![w] = Nothing]
    /\ UNCHANGED <<role, asked, sent, tasks, asleep, lru, writes, races>>

\* The task searches the store and fulfils its promise.
RunTask(w) ==
    /\ doing[w] # Nothing
    /\ LET s == doing[w][1]
           i == doing[w][2]
       IN  got' = [got EXCEPT ![s][i] = [request |-> asked[s][i], version |-> version]]
    /\ doing' = [doing EXCEPT ![w] = Nothing]
    /\ UNCHANGED <<role, asked, sent, tasks, asleep, lru, writes, races>>

(* Writes.                                                                 *)

\* VectorStore::Insert or Remove, which may be refused.
ApplyWrite(w) ==
    /\ role = "primary"
    /\ wpc[w] = "idle"
    /\ \/ /\ version < MaxVersion
          /\ version' = version + 1
          /\ made' = [made EXCEPT ![w] = version + 1]
          /\ wpc' = [wpc EXCEPT ![w] = "applied"]
       \/ /\ wpc' = [wpc EXCEPT ![w] = "flagged"]
          /\ UNCHANGED <<version, made>>
    /\ UNCHANGED <<role, calls, pool, lru, modified, settled, races>>

SetModifiedFlag(w) ==
    /\ wpc[w] = "applied"
    /\ modified' = TRUE
    /\ wpc' = [wpc EXCEPT ![w] = "flagged"]
    /\ UNCHANGED <<role, calls, pool, lru, version, made, settled, races>>

Answered(w) ==
    /\ wpc' = [wpc EXCEPT ![w] = "idle"]
    /\ made' = [made EXCEPT ![w] = 0]
    /\ settled' = IF made[w] > settled THEN made[w] ELSE settled

\* GetModifiedFlag decides whether the call invalidates the cache.
ReadModifiedFlag(w) ==
    /\ wpc[w] = "flagged"
    /\ IF modified
       THEN /\ wpc' = [wpc EXCEPT ![w] = "invalidates"]
            /\ UNCHANGED <<made, settled, skipped>>
       ELSE /\ Answered(w)
            /\ skipped' = (skipped \/ made[w] # 0)
    /\ UNCHANGED <<role, calls, pool, lru, version, modified, cut, late>>

Outdated(results) ==
    \E i \in DOMAIN results : results[i] # Nothing /\ results[i].version < version

\* Mutant: Invalidate of one key in the place of InvalidateAll.
InvalidateOne(w) ==
    /\ wpc[w] = "invalidates"
    /\ Answered(w)
    /\ IF keys = << >> THEN UNCHANGED <<lru, late>>
       ELSE /\ cache' = [k \in DOMAIN cache \ {Head(keys)} |-> cache[k]]
            /\ keys' = Tail(keys)
            /\ recent' = Without(recent, Head(keys))
            /\ late' = late \ {Head(keys)}
    /\ cut' = [s \in Searcher |-> cut[s] \/ Outdated(got[s])]
    /\ skipped' = FALSE
    /\ UNCHANGED <<role, calls, pool, version, modified>>

Invalidate(w) ==
    /\ wpc[w] = "invalidates"
    /\ InvalidateAll
    /\ Answered(w)
    /\ cut' = [s \in Searcher |-> cut[s] \/ Outdated(got[s])]
    /\ late' = {} /\ skipped' = FALSE
    /\ UNCHANGED <<role, calls, pool, version, modified>>

\* ReplicaManager::Sync of the primary's sync loop clears the flag, which it
\* may do at any time (module Replication).
SyncClearsFlag ==
    /\ role = "primary" /\ Replicated
    /\ modified
    /\ modified' = FALSE
    /\ UNCHANGED <<role, calls, pool, lru, version, wpc, made, settled, races>>

\* ApplyWALEntry on a replica: exclusive, and without the cache.
ApplyWALEntry ==
    /\ role = "replica"
    /\ \A s \in Searcher : asked[s] = NoBatch
    /\ version < MaxVersion
    /\ version' = version + 1
    /\ settled' = version + 1
    /\ UNCHANGED <<role, calls, pool, lru, modified, wpc, made, races>>

-----------------------------------------------------------------------------
SearcherStep(s) == EnqueueTask(s) \/ StoreResults(s)
WorkerStep(w) == Sleep(w) \/ Take(w) \/ RunTask(w)
WriterStep(w) == SetModifiedFlag(w) \/ ReadModifiedFlag(w) \/ Invalidate(w)

Next == \/ \E ask \in Asks : Hit(ask[1], ask[2]) \/ Miss(ask[1], ask[2])
        \/ \E s \in Searcher : SearcherStep(s)
        \/ \E w \in Worker : WorkerStep(w)
        \/ \E w \in Writer : ApplyWrite(w) \/ WriterStep(w)
        \/ SyncClearsFlag
        \/ ApplyWALEntry

Spec == Init /\ [][Next]_vars

\* Threads inside a call and the threads of the pool run; nobody has to call.
FairSpec == /\ Spec
            /\ \A s \in Searcher : WF_vars(SearcherStep(s))
            /\ \A w \in Worker : WF_vars(WorkerStep(w))
            /\ \A w \in Writer : WF_vars(WriterStep(w))

-----------------------------------------------------------------------------
(* Properties.                                                             *)

Result == [request : Request, version : 0 .. MaxVersion]

\* Every variable stays in its set.
TypeOK ==
    /\ role \in Roles
    /\ asked \in [Searcher -> Batch \cup {NoBatch}]
    /\ \A s \in Searcher : /\ sent[s] \in 0 .. Len(asked[s])
                           /\ got[s] \in [DOMAIN asked[s] -> Result \cup {Nothing}]
    /\ \A i \in DOMAIN tasks : tasks[i] \in Searcher \X Nat
    /\ \A w \in Worker : doing[w] = Nothing \/ doing[w] \in Searcher \X Nat
    /\ asleep \subseteq Worker
    /\ DOMAIN cache \subseteq Key
    /\ \A k \in DOMAIN cache : \A i \in DOMAIN cache[k] : cache[k][i] \in Result
    /\ \A i \in DOMAIN keys : keys[i] \in Key
    /\ {version, settled} \subseteq 0 .. MaxVersion
    /\ modified \in BOOLEAN
    /\ wpc \in [Writer -> {"idle", "applied", "flagged", "invalidates"}]
    /\ made \in [Writer -> 0 .. MaxVersion]

\* EVERY TASK HAS ONE PLACE.  A request of a running call is unsent, queued,
\* running on one worker or answered, and in one of these places only; no
\* task outlives the call whose futures it fills (EnqueueTask, the worker
\* loop of ThreadPool and the futures of BatchSearch).
TaskPlaces(s, i) == Cardinality({j \in DOMAIN tasks : tasks[j] = <<s, i>>})
                    + Cardinality({w \in Worker : doing[w] = <<s, i>>})
TasksAccounted ==
    /\ \A s \in Searcher : \A i \in DOMAIN asked[s] :
          TaskPlaces(s, i) = IF i <= sent[s] /\ got[s][i] = Nothing THEN 1 ELSE 0
    /\ \A j \in DOMAIN tasks : tasks[j][2] \in DOMAIN asked[tasks[j][1]]
    /\ \A w \in Worker : doing[w] # Nothing => doing[w][2] \in DOMAIN asked[doing[w][1]]

\* LRU.  The cache holds the most recently used keys since it was last
\* emptied, as many as fit, and keys_ lists them in that order: the list and
\* the map are updated separately by Get, Store and InvalidateAll
\* (lru_cache.cc).
LeastRecentlyUsed ==
    LET n == Len(recent)
        m == IF n < Capacity THEN n ELSE Capacity
    IN  /\ keys = SubSeq(recent, n - m + 1, n)
        /\ DOMAIN cache = {keys[i] : i \in DOMAIN keys}

\* The requests that an entry's results are for, in order.
RequestsOf(results) == [i \in DOMAIN results |-> results[i].request]

\* ENTRIES.  What is cached under a key answers, request by request and in
\* order, one batch that has this key, although its results were computed by
\* tasks that several threads ran in any order while other calls filled their
\* own futures (engine.cc, BatchSearch).
EntryAnswersOneBatch ==
    \A k \in DOMAIN cache : \E b \in Batch : BatchKey(b) = k /\ RequestsOf(cache[k]) = b

\* Does not hold (README, known disagreements).  engine.cc: "Generate a unique
\* hash as a key for the cache".  A hit answers the batch that was asked for.
HitsAnswerTheirBatch ==
    \A ask \in Asks : BatchKey(ask[2]) \in DOMAIN cache => RequestsOf(cache[BatchKey(ask[2])]) = ask[2]

\* FRESHNESS.  On a primary a cached result is older than the store only
\* while the write that outdated it has still to invalidate the cache, or
\* because of one of two races: the search read the store before a write and
\* stored its result after that write's InvalidateAll, or Sync cleared the
\* modified flag between SetModifiedFlag and GetModifiedFlag of a write
\* (engine.cc).
StaleOnlyIfRaced ==
    role = "primary" =>
        \A k \in DOMAIN cache :
            Outdated(cache[k]) => \/ \E w \in Writer : made[w] # 0
                                  \/ k \in late
                                  \/ skipped

\* No cached result is older than a write that has been answered: what is
\* cached is cleared on writes (cache.h, "Clear the cache completely to
\* indicate that the cache is stale, typically on writes with HNSW index").
CachedSeesAnswered ==
    \A k \in DOMAIN cache : \A i \in DOMAIN cache[k] : cache[k][i].version >= settled

\* Every batch search returns: no task is left behind by sleeping workers.
CallsReturn == \A s \in Searcher : asked[s] # NoBatch ~> asked[s] = NoBatch
=============================================================================
