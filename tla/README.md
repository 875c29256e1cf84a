# Verification of vector-database

TLA+ modules, TLC runs and TLAPS proofs about the engine under `src/engine`:
what a table promises its clients across crashes and restarts, what a primary and
its replicas promise each other, what the HNSW graph and the result cache return,
what passes from one life of a table name to the next, and how the process ends.

## The system

The engine (`engine.h`, `engine.cc`) serves tables. Each table has a vector store
with an index, a persistence manager with four files, counters and flags, metrics
and a result cache. A primary accepts writes and sends its log to replicas; a
replica accepts only what the primary sends it. Three kinds of threads act on a
table at once: callers (gRPC handlers), the cleaner, and the replication loop; the
constructor and the destructor run on the main thread beside the last two.

| Component | State | Operations | Interacts with | Correct if |
|---|---|---|---|---|
| Write path (`Engine::Insert`, `Remove`, `BatchInsert`, `BatchRemove`) | log file `wal_out_`, `store_`, flags | append to the log, change the store, set flags and counters, clear the cache | callers share `engine_mutex_`; the log has `wal_log_mutex_`, the store `rw_mutex_` | answered writes survive; log and store agree |
| Persistence (`persistence_manager.cc`) | store, index and metadata files, log | save, load, replay, clear, serialize past an offset | constructor, destructor, Sync | files rebuild what was served |
| Cleaner (`cleaner.cc`, `Engine::Cleanup`) | soft-removed nodes, counters | drop soft-removed nodes, reindex, adjust the counters | takes `engine_mutex_` exclusively | nothing visible changes |
| Statistics (`stats_manager.cc`) | three unsigned counters, modified and removed flag | increment, set, adjust | written by callers, replay, cleaner, Sync | counts describe the store; flags are not lost |
| HNSW index (`hnsw_index.cc`) | nodes, neighbours, levels, entry point | insert, soft remove, search, cleanup, reindex | inside the store's lock | active nodes can be found, no dangling neighbour |
| Flat index (`flat_index.cc`) | map of vectors | insert, remove, search | inside the store's lock | holds exactly the stored ids |
| Replication (`replica_manager.cc`, `replica_manager_service_impl.cc`) | an offset per table and replica, modified flag | background loop, `Sync`, replica handlers `Sync` and `GetChecksum` | reads the log and the store of the primary without `engine_mutex_`; gRPC | a replica holds a prefix of the primary's history and catches up |
| Table lifecycle (`CreateTable`, `DropTable`, `...OnReplica`, constructor) | the per-table maps, all files | create, drop, discover | Sync, replay | a table's files and offsets belong to its present life |
| Batch search and cache (`BatchSearch`, `lru_cache.cc`, `thread_pool.cc`) | cached results, recency list, task queue | get, store, invalidate, enqueue | writes clear the cache | a hit is a result of the present store |
| Shutdown (`~Engine`, `~ReplicaManager`, `~Cleaner`, `main.cc`) | `shutdown_`, condition variables | stop calls, threads, server | every thread | ends; files are complete |
| gRPC server (`main.cc`, `vector_db_service_impl.cc`) | the server, the signal flag | translate requests, shut down, wait | calls the engine | no handler is left when the engine is destroyed |
| Input validation, metrics, loggers, deployment files | - | stateless or write-only | - | not modelled |

What is hard to test here: the two halves of a write (log, store) are separate
critical sections; `Sync` works on what it read some steps ago and takes no lock;
the loop's `Sync` and the destructor's or `DropTable`'s overlap; an RPC may be applied and
its answer lost; a crash may fall between any two file operations; replay, cleaner
and index see removed ids in three different ways; connecting a node prunes two
neighbour lists; a search result is cached some steps after the store was read; dropping a
table leaves the files one by one and the offsets not at all; a condition variable may be
notified between a check and a sleep. `PROJECT.json` lists the hazards at their lines.

## The modules

| Module | What it is |
|---|---|
| `WriteAheadLog` | lines of the log, what one does to a store (`Effect`, `Succeeds`) and what a sequence of them leaves (`Yields`, stated without recursion) |
| `DurableMap` | abstract: a map on which logged writes are atomic and which crashes do not touch |
| `DurableTable` | one primary table with its files: calls, cleaner, shutdown, crash, restart, replay; `Abstract` is its refinement mapping to `DurableMap` |
| `MCDurableTable` | instances of `DurableTable` |
| `StateFollower` | abstract: a follower goes through the states of its leader one by one |
| `Replication` | one table on a primary and its replicas; `Followed` is its refinement mapping to `StateFollower` |
| `MCReplication` | instances of `Replication` |
| `StoreMembership` | abstract: which ids a store holds, which its index finds and which it still carries |
| `HnswIndex` | the HNSW graph of one table behind its store; `Membership` is its refinement mapping to `StoreMembership` |
| `MCHnswIndex` | instances of `HnswIndex`: points on a line |
| `BatchSearch` | batch searches, thread pool, result cache and the writes that clear it |
| `MCBatchSearch` | instances of `BatchSearch` |
| `TableLifecycle` | the lives of one table name on a primary |
| `MCTableLifecycle` | instances of `TableLifecycle` |
| `ReplicatedTable` | `TableLifecycle` with a replica and every `Sync` step by step |
| `MCReplicatedTable` | instances of `ReplicatedTable` |
| `Shutdown` | the end of the process, with every thread that has to end first |
| `MCShutdown` | instances of `Shutdown` |
| `WriteAheadLog_proofs`, `DurableTable_proofs`, `Replication_proofs`, `HnswIndex_proofs`, `BatchSearch_proofs`, `TableLifecycle_proofs`, `Shutdown_proofs` | lemmas and theorems |
| `Recursion_proofs` | lemmas about recursive functions, tail recursions and folds, used by the proofs about `HnswIndex` |

The modules take the engine apart along its locks. `DurableTable` and `Replication` share
`WriteAheadLog`: the first takes the log as what rebuilds a table, the second as what is sent.
`DurableTable` uses the index at the level of `StoreMembership`, which `HnswIndex` implements.
`TableLifecycle` follows what outlives a table in its files, with a write as one step, and `ReplicatedTable` composes it with
`Sync`, for what outlives a table in the replication. `BatchSearch` reduces the store to a version, `Shutdown` to a count of changes.

Operators named in a comment beginning with "Mutant" are plausible bugs. They are
used nowhere in the specifications: replacing the definition that follows by them
must break a property, and `PROJECT.json` says which.

### DurableTable

A call holds `engine_mutex_` in shared mode while `todo[c]` is not empty: the
batch it was given and has not processed. An item is `LogWrite` (the append, flushed)
and then `ApplyWrite` (the store operation, the counters, the success flag). `Insert` and
`Remove` are batches of one. The cleaner (`Cleanup`) and the destructor
(`ForcedCleanup`) need the mutex exclusively (`NoCallInside`). `~Engine` sets
`shutdown_` (`BeginShutdown`: no call begins after it), cleans up, rewrites the store,
index and metadata files (one action per opened and closed file) and truncates the log.
`Crash` may come anywhere, with `TornFiles` inside a rewrite too, where any part
of what was being written may have reached the file. `Restart` is the constructor up
to the replay: it reads the metadata, creates the table (which appends a create line),
loads the snapshot unless it holds no vector; `ReplayEntry` and `EndReplay` are the
replay. Without usable metadata the table is skipped (`RestartWithoutTable`).

What is abstracted: a payload is a vector with its content, and `Misfit` payloads are those whose
vector has the wrong dimension (`VectorStore::Insert` refuses them after they were
logged; the validator does not check the dimension). An index is the set of ids it
can return (`active`) and the set of soft-removed ones (`soft`): the graph is left to
its own module. The counters of one store operation change together with it, although other
threads may see the store changed and the counter not yet. The modified flag is part of
`Replication`; the cache and the metrics are left out. `promised` and `crashes` are
history: `promised[id]` holds the values a client may expect after the answers it got
(the value the last write left, and after a crash also what an unanswered write would have left).

### Replication

The state of one call of `ReplicaManager::Sync` is `sync[s]`, for the thread of the
background loop (`"loop"`) and the destructor's (`"main"`). Its steps are those between which
others can act: read the log past the offset (`ReadLog`), compute the checksum
(`ComputeChecksum`), one handler step per entry on the replica (`ReplicaApply`), the answer
(`Acknowledge`), the checksum comparison (`Compare`), the return (`Finish`). `NextAttempt`,
`MissedAttempt` and `NextReplica` are the loop `i < kRetryCount + 1` with its `continue`,
`break` and `failed = true`. A failed RPC is `LoseSync` (before the replica applied anything,
or after) or `LoseChecksum`. A write of a client has three steps here, for the flag is set
after the store changed. The checksum is the store itself: hash collisions, and the vectors
that `ComputeChecksum` leaves out, play no part in the properties. A call that is given up
while its handler still runs is not modelled here; drops, and restarts of either side, are in
`ReplicatedTable`. `due`, `base`, `delivered` and `overlapped` are history: how long the log was when a Sync began, where
its batch begins, which lines each replica has applied (the offset is only a count of answers, to which overlapping Syncs
add the same lines twice), and whether the destructor's Sync began beside the loop's.

### HnswIndex

Each operation of `HNSWIndex` holds `rw_mutex_` and is one action, with the store operation around
it (`Insert`, `Remove`). A reindex is one step per node, in any order (the code iterates over a
hash map), and excludes every other operation while `pending` is not empty. `SearchLevel` is a
recursive function over its two heaps and the set of seen ids; `Descend` is the walk down the
levels; `Connected` is what an insertion does to the edges, with `ConnectOne` for one round of
`ConnectNeighbors`, where the back edge of a pruned neighbour goes too. `RemoveNode` deactivates a node
and looks for another entry point level by level; `Cleanup` takes the inactive nodes out. `Reload` is a save after the
forced cleanup, and a load.

What is abstracted: an id keeps one vector and one level (the code seeds its generator with the id), and
distances are a function on points; ties are broken by id, as in the code's heaps of pairs. `Reinserts`
says whether an id may be inserted while its removed node is still there, which the index ignores.
`crowded` is a history variable: some level held more nodes than one insertion connects.

### BatchSearch

A search that misses (`Miss`) enqueues one task per request (`EnqueueTask`, with its `notify_one`), waits
for all results and stores them (`StoreResults`); a hit (`Hit`) returns. A worker sleeps, takes a task,
runs it (`Sleep`, `Take`, `RunTask`). A writer changes the store (`ApplyWrite`), sets the modified flag,
reads it again, and clears the cache if it is up (`SetModifiedFlag`, `ReadModifiedFlag`, `Invalidate`):
these are separate steps because the locks are, and the sync loop may clear the flag between them. `Touch`, `Store` and
`InvalidateAll` are the operations of `LRUCache`, on `keys_` and `cache_` as two variables. On a replica,
`ApplyWALEntry` changes the store alone. A request is its k, its search parameter, and what its vector has at even and at odd
places; `BatchKey` is the xor of the key: what occurs an odd number of times, odd places left out as in the code. A
result is the request it answers and the version of the store it was read from.
`cut`, `late` and `skipped` are history: who was overtaken by which `InvalidateAll`.

### TableLifecycle

One table name, and one id whose value is the life it was written in. `CreateTable` appends to whatever log
the name has; `DropTable` is five steps (`AppendDrop`, `DropSync`, `RemoveSnapshot`, `RemoveLog`,
`RemoveMetadata`), between which a crash may fall; `~Engine` is five more. `Restart` appends a create line, as the code
does, loads the snapshot and replays; a drop line in the log makes it hang, because `DropTable` asks for the
mutex of the log that `ReplayWAL` holds. `expect`, `mixed` and `torn` are history.
A single value stands for a store and one line for a batch: what happens inside one life is the business of `DurableTable`.

### ReplicatedTable

`TableLifecycle` with one replica (`copy`), the flag, the offset and, per thread, the local state of its `Sync`. Its actions say what
each action of `TableLifecycle` does to them: `Call`, `Erase`, `Local`, `Reload` and `End` (a process ends), while
`BeginMain` is where `DropTable` and `~Engine` call `Sync`, whatever the loop is doing, and only the `Finish` of that call lets them go
on. The steps of `Sync` are those of `Replication`; between any two of them the table is written, dropped, created again,
saved or replayed. `Holds` says that the managers a Sync looked up are still those of the table, `LogFree` that no replay holds the log's
mutex. What the loop's Sync does after `DropTable` has erased its managers is undefined behaviour: `Abandon` lets it end, with its answer counted
or not, and `Crash` may come too. A handler on the replica outlives the Sync that called it
(`Orphaned`). A restart of the replica empties it. `disturbed` is history: which of the things that `Sync` does not allow for have
happened (`"overlap"`: two Syncs at once, `"loss"`, `"process"`: the end of either process, `"life"`: a second table of the name).

A write is one step here, its log line, store and flag together: what falls between them is in `Replication`. There is
one replica because `Sync` treats them one after the other, and several are in `Replication`.

### Shutdown

The signal, the gRPC server that waits for its handlers, `~Engine` with one table after the other, and the
members destroyed in reverse order of declaration, each joining its threads. A wait on a condition variable is
two steps (`WorkerCheck` and `WorkerSleep`, `WaiterCheck` and `WaiterSleep`) with the mutex held in between, so that a notification without the mutex can
fall there. Waits with a time limit (`WakeCleaner`, `WakeSync`) end by themselves. A table is a number of
changes and whether soft-removed vectors are left; handlers write or search, the
sync server of a replica applies lines.

## Runs

| Run | Result | What it shows |
|---|---|---|
| `durable_table` | pass | with an HNSW index, two writers and one crash: `TypeOK`, `PromiseKept`, `CrashSafe`, `FilesKeepPromise` (a table that a restart skipped keeps its data on disk), `SearchReturnsStored`, and the refinement `ImplementsDurableMap` |
| `durable_flat` | pass | with a flat index, batches and misfits: `StoredIsSearchable`, `StatsCountStored`; shutdowns end (`ShutdownCompletes`) |
| `replication` | pass | `TypeOK`, `ReplicaHoldsPrefix`, `FlaggedLinesArrive`, and the refinement `ImplementsStateFollower`; with the destructor's Sync too, and the loop's beside it: `FlagClearedWhenSent` (which promises nothing once they overlap) and `QuietShutdownSyncs` |
| `hnsw` | pass | `TypeOK`, `EntryHighest`, `GraphSound`; searches are locally optimal with any beam (`SearchLocalOptimum`) and exact until a level is crowded (`ExactUntilCrowded`); `CleanupInvisible`, and the refinement `ImplementsMembership` |
| `batch_search` | pass | `TypeOK`, `TasksAccounted`, `LeastRecentlyUsed`; an entry answers one batch of its key, in order (`EntryAnswersOneBatch`); a stale result has one of two named causes (`StaleOnlyIfRaced`); searches return (`CallsReturn`) |
| `lifecycle` | pass | `TypeOK`; what is served belongs to the last life (`ServedTableIsTheLast`, `NoValueFromOlderLife`); `HangsOnlyAfterTornDrop` |
| `replicated_table` | pass | `ReplicatedTypeOK`; with a write, a drop or a shutdown in any gap of a Sync, a first life is mirrored to the replica until something disturbs it (`FirstLifeMirrored`) |
| `shutdown` | pass | `TypeOK`, `SavedIsFinal`, `QuietWhileSaved`, `MembersOutliveThreads`, and `ShutdownEnds` |
| `overlap` | violation | `InSyncAtClear`: a replica is behind for ever when the log is cleared, with a working network |
| `lost_entry` | violation | `LoadedEntryUsable`: an index without active nodes is loaded with entry point 0 |
| `stale_result` | violation | `CachedSeesAnswered`: a replica goes on answering from its cache after it applied a line |
| `recreated` | violation | `CreatedReachesReplica`: a table that is dropped and created again never reaches the replica |

The violations are the findings of `PROJECT.json`, each with the line of the repository
it disagrees with.

### Known disagreements

Further configurations reproduce disagreements between the code and what it says of itself. They are
run by hand (`tlc -config <configuration> <module>`), and each violates the one property it names.

| Configuration | Module | Property | What happens |
|---|---|---|---|
| `DurableTableTornFile.cfg` | `MCDurableTable` | `PromiseKept` | `SaveSnapshot` truncates the files of the previous shutdown, which cleared the log that could rebuild them; a crash while they are rewritten loses both (`persistence_manager.cc:59`; `engine.cc:143`, "On startup after a crash, replay the WAL to ensure durability") |
| `DurableTableSharedId.cfg` | `MCDurableTable` | `PromiseKept` | two writes of one id are logged in one order and applied in the other; a replay brings back the other outcome (`engine.cc:183`; `engine.h:32`, "Operations are thread-safe at a table level") |
| `DurableTableFirstRun.cfg` | `MCDurableTable` | `RestartRestoresTable` | only the destructor writes metadata: after a crash of a table's first process the table is skipped (`engine.cc:113`; `engine.cc:143` as above) |
| `DurableTableReinsert.cfg` | `MCDurableTable` | `StoredIsSearchable` | `HNSWIndex::Insert` ignores an id whose removed node is still there: the vector is stored, the call succeeds, no search finds it (`hnsw_index.cc:46`; `engine.h:60`, "Returns true on success and false on failure") |
| `ReplicationLostFlag.cfg` | `MCReplication` | `FlagCoversUnsent` | `Sync` clears the flag that a write set after the log was read (`replica_manager.cc:170`; `engine.cc:187`, "Indicate the table has been modified to trigger sync on all replicas") |
| `ReplicationRefused.cfg` | `MCReplication` | `LoggedLinesArrive` | a refused write is in the log all the same; the replica refuses it at every `Sync` and nothing behind it arrives (`replica_manager_service_impl.cc:17`; `engine.cc:182`, "Update the WAL ahead of time for durability and replay for primary and replicas") |
| `ReplicationOverlapFlag.cfg` | `MCReplication` | `FlagClearedWhenSentByBoth` | two Syncs that overlap count lines twice (`replica_manager.cc:144`), and the flag is cleared although the last line was never applied (`replica_manager.cc:165`, "Only indicate the modified flag is false if all sync operations are successful"). The log is create, insert, remove, insert: the destructor's Sync has applied two of the last three when the loop's gets its insert in, which makes the third refused; three lines are counted as four |
| `DurableTableWrappedCount.cfg` | `MCDurableTable` | `StatsCountStored` | after a crash between `SaveMetadata` and `ClearWAL` the replay of a removal leaves one deleted vector and the start sets the count to none: the table has one vector less than none (`engine.cc:145`, `stats_manager.cc:62`; `stats_manager.h:10`, "including the count of vectors, as well as the count of deleted vectors") |
| `BatchSearchSharedKey.cfg` | `MCBatchSearch` | `HitsAnswerTheirBatch` | two queries that differ in an odd component share a cache entry (`engine.cc:348`; `engine.cc:342`, "Generate a unique hash as a key for the cache") |
| `ReplicatedTableDropOverlap.cfg` | `MCReplicatedTable` | `DropReachesReplica` | the loop's Sync has read the create line when `DropTable`'s delivers create and drop; its own RPC then creates the table again on the replica, and nothing is left to drop it (`replica_manager.cc:130`; `engine.cc:570`, "Trigger sync directly before the table is destroyed on the primary") |

Others show in the models without a configuration of their own:

- two batches that differ in the order of their requests, in odd vector components (`engine.cc:348`), or in which of k and
  `search_param` is which, have one cache key, and one may be answered with the other's results (`engine.cc:342` says
  "Generate a unique hash"; `BatchSearchSharedKey.cfg` has the second case);
- a table created over the log that a crashed first process left mixes the lines of both at the next replay
  (`engine.cc:485`; `mixed` in `TableLifecycle`), and metadata that outlives a torn drop makes a dropped
  table come back (`persistence_manager.cc:464`; `torn`);
- a start that meets a drop line in the log never returns (`engine.cc:568`; `hung`);
- a restarted primary sends its create line first, which a replica that has the table refuses
  (`replica_manager.h:71`; `End` and `Reload` in `ReplicatedTable`): no line arrives any more;
- a replica's sync server goes on applying lines while `~Engine` saves the replica's tables
  (`SavedIsFinal` and `QuietWhileSaved` speak of primaries);
- a replica whose waiter misses the one notification of `~ReplicaManager` never ends
  (`replica_manager.cc:49`; `missed` in `Shutdown`);
- `InputValidator` does not refuse a cache of size 0, for which `LRUCache::Store` takes the front of an empty
  list (`lru_cache.cc:55`), and `hardware_concurrency()` may be 0, for which nobody runs a search. Both are excluded by `ConstantsAssumption`
  of `BatchSearch`.

### Bounds

`durable_table` has two clients with one id each, two payloads, three log lines before no
more calls begin and one crash: enough for a write of each client to be in flight at a
crash, for removes, for a snapshot followed by a crash before the log is truncated, and for a second life with
snapshot and log together. `durable_flat` has a client with two ids, batches of two and
four lines, which is enough for an insert, a duplicate, a misfit and a removal in one life; it has
no crash because the counters do not survive one (`DurableTableWrappedCount.cfg`). `MaxBatch` bounds a batch, `MaxLog` the length of the log at the begin of a
call, `MaxCrashes` the crashes, `MaxLosses` the failed RPCs, `ShutdownBound` the lines in the log
plus the failed RPCs while the primary shuts down. `CounterModulus` stands for 2^64 and is 16, above every count reached
without wrap-around. `replication` has two replicas, `kRetryCount` 3 as in the code, four log lines
(create and three writes, of which one may be refused) and one lost call; with one id and one payload a
line is told from the others by its kind, and more would only rename them. It shuts down with three lines, or with two and a failed
RPC, which leaves a write in every place of either Sync.

`hnsw` has five nodes on three levels (2, 1, 1, 0, 0) and degrees 1 and 2, so that levels fill up, edges are
pruned, nodes lose their last neighbour and the entry point moves between levels; ids are inserted again only after
a cleanup (`lost_entry` has the other case). Places on a line are chosen so that nearest neighbours, far
neighbours and equal distances occur; searches keep one or two nodes, or all of them.
`batch_search` has two searchers, one writer and one worker, four batches with three keys for a cache of two and one effective write, as a primary
with a sync loop and as a replica: evictions, hits by the other searcher, a write in every gap of a search and a cleared flag
in every gap of a write. A second effective write would find the cache as the first left it.
`lifecycle` creates a table three times with two dimensionalities, with up to three crashes anywhere: the third life is the
first that may follow a torn one that followed a torn one. `MaxLog` lines end the writes of
a life, not the restarts. `replicated_table` has one life, three lines before a drop line, a `kRetryCount` of 2 (an attempt that does not
count, one that does, and the last), one crash, one restart of the replica and one lost RPC, each in every gap of the two Syncs; what
a second life meets is the subject of `recreated`. `shutdown` has two handlers, one worker and two tables, on a primary and a replica, with and
without peers; a table is changed once, which is enough to tell the saved from the final one.

Deadlock is checked for `DurableTable`, which never stops (it can always restart), for `HnswIndex` and for
`BatchSearch`. It is not checked for `Replication`, which stops when the primary has shut down and, with a full log
and a cleared flag, has nothing left to do; nor for `Shutdown`, whose process ends; nor for `TableLifecycle` and `ReplicatedTable`, where a
start that hangs on a drop line stays as it is once the crashes are used up.

### Fairness

In `DurableTable` and `Replication`, a thread that entered a call proceeds (`ClientStep`), the destructor and
the constructor proceed once started (`SaveStep`, `ReplayStep`), a started Sync proceeds
(`SyncStep`), and the loop's timer fires again and again (`BeginLoop`). Nobody has to call,
crash, lose an RPC or shut down. Weak fairness is enough: the code polls with timeouts, takes
mutexes that are released, and none of these steps is disabled again and again by others - with one
exception the model does not make: the forced cleanup needs the exclusive lock, and after
`shutdown_` no call enters, so the callers it waits for only get fewer.

In `BatchSearch` the threads inside a call and the workers run (weak fairness each); nobody has to search or
write. In `Shutdown` several threads want `engine_mutex_` and the queue's mutex and take them again and again,
so weak fairness would let one of them wait for ever; `HandlerStep`, `WorkerStep`, `CleanerStep` and `MainStep`
are strongly fair, which says that the mutexes are handed on. No signal has to come, no client or primary has to
call, and a wait need not end spuriously: the model allows it and the properties do not rely on it. `ShutdownEnds`
makes an exception for the missed notification, which is a disagreement (above). `TableLifecycle`, `ReplicatedTable` and `HnswIndex` state no
liveness.

## Proofs

For every value of the constants, checked by TLAPS:

- `TypeCorrect`: `Spec => []TypeOK` (DurableTable).
- `CrashSafety`: `Spec => []CrashSafe`, `PromiseHolds`: `Spec => []PromiseKept` and
  `Implementation`: `Spec => ImplementsDurableMap`, assuming `SingleWriter` (no id has two
  writers) and `TornFiles = FALSE`. Both assumptions are needed: the configurations
  `DurableTableSharedId.cfg` and `DurableTableTornFile.cfg` violate `PromiseKept` without them (Known disagreements).
- `FilesKeep`: `Spec => []FilesKeepPromise`, under the same assumptions.
- `SearchIsStored`: `Spec => []SearchReturnsStored`, assuming `TornFiles = FALSE`, and `StoredIsFound`: `Spec =>
  []StoredIsSearchable`, assuming also a flat index. Ids may have several writers here. The inductive invariant
  `IndexInv` says of every phase which of store, index, store file and index file contains which: the two
  files are written one after the other and replay starts from both.
- `CountIsStored`: `Spec => [](crashes = 0 => StatsCountStored)`, assuming only that there are fewer ids than
  `CounterModulus`. `CountInv` says that, modulo `CounterModulus`, the total without the deleted is the size of the store
  (`Counted`), through writes, refusals, removals and cleanups; and that before the
  first crash a start finds no write in the log, so that the counters it sets are those of the snapshot. After a crash the
  property is not expected: the deleted count keeps what the replay of removes left (`engine.cc:145`; `DurableTableWrappedCount.cfg`).

The promises, `FilesKeep` and `Implementation` follow from an inductive invariant, `IInv`. `CrashSafe` speaks of the
phases in which the table is served; to carry it through a shutdown and a replay one needs what
the files hold while the snapshot is being rewritten (`RewriteRecovers`: the log still rebuilds
the store from what has been written or was there before, once whole), that the snapshot is the store
once closed (`SnapshotWhole`), that the store is what the replayed part of the log leaves
(`ReplayFollows`), that no call is inside while files are written (`Quiet`) and that only the owner of an id has a
write of it pending (`Owned`). `ServedPromise` and `FilesPromise` tie the promises to the store and to the files.
The key lemma about the log is `YieldsIdempotent`: replaying a log over the store it
produced changes nothing, because the last effective line of an id wins whatever
came before. It is why a crash between `SaveSnapshot` and `ClearWAL` is harmless, and it holds
because inserts of present ids and removals of absent ones are refused.
`YieldsStep` (one more line is one more effect), `YieldsUnique` and `YieldsAppend` do the rest.

For `Replication`, with any number of clients, ids, replicas, retries, lost calls and lines,
and without further assumptions:

- `TypeCorrect`: `Spec => []TypeOK`, from which `Sync` never looks past the last replica, sends no empty
  batch and gives up after `kRetryCount + 1` attempts. `Sound` is what it says of one local state.
- `FlagHonest`: `Spec => FlagClearedWhenSent`. The inductive invariant `FlagInv` has two parts. `AllCovered`: what a
  Sync has left behind without a failure has got the lines that were there when it began, and so has
  the replica it tries for the last time, because a failed attempt before that has set `failed` and only
  an empty rest of the log gets there without one (`Covers`). It is carried by the fact that offsets never
  decrease (`CoversMonotone`), whatever the other Sync does. `MainTurn`: the destructor's Sync
  runs in a phase of its own, so that no line disappears under it. An offset that passes the end of the log says nothing of the
  replica if two Syncs have counted the same lines. So `SentInv` ties offsets to applied lines: the loop's `Sync` runs beside
  the destructor's only if it did when that one began (`Apart`), and unless they overlapped an offset counts only lines its
  replica has applied, and a batch begins where the target's offset is (`AllSent`, `Sent`). Together: every line that was due has been
  applied by every replica. Once two have overlapped nothing is claimed, and `ReplicationOverlapFlag.cfg` shows why.
- `PrefixHeld`: `Spec => []ReplicaHoldsPrefix`. It needs `Ahead` (the lines under way are the ones that
  follow the target's offset in the present log, although the log grows) to know which line the replica is about to
  apply, and that the answer moves the count into the offset and nothing else.
- `Follows`: `Spec => ImplementsStateFollower`, from the same invariant `PrefixInv`: an accepted line is
  a `Follow` of the target, a logged write a `Write`, a failed call or a shutdown an `Abandon`, all else a stutter.

For `HnswIndex`, with any ids, vectors, metric, levels and parameters:

- `EntryIsHighest`: `Spec => []EntryHighest`, assuming `Reinserts = FALSE`, without which `Reload` meets a store
  that is not empty and an index that is. `IndexInv` and `EntryInv` keep `node_levels_`, `max_level_` and the entry
  point in step through insertions, removals and a half-done reindex.
- `MembershipImplemented`: `Spec => ImplementsMembership`, in all cases.
- `TypeCorrect`: `Spec => []TypeOK`, and `GraphIsSound`: `Spec => []GraphSound`. `GraphInv` says that on every level neighbours
  exist, know each other, reach up to the level and are never too many. Each round of `ConnectNeighbors`
  leaves edges that go both ways: one is added at both ends, and a neighbour that prunes takes both ends of what it drops.
- `SearchIsLocalOptimum`: `Spec => []SearchLocalOptimum`. The walk down the levels arrives at an active node. A node that the search of level 0
  has looked at has its neighbours seen, and something as near as it among the best so far (`SearchOptimum`); when the search
  gives up, no candidate left is nearer than those.
- `ExactWhileUncrowded`: `Spec => []ExactUntilCrowded`. `CompleteInv` says that until some level is crowded any two active nodes
  that reach a level are neighbours on it, so a beam that keeps every node sees every node.
- `CleanupIsInvisible`: `Spec => CleanupInvisible`. Inactive nodes lead nowhere in a search (`hnsw_index.cc` skips them), so
  two graphs with the same edges between active nodes give the same answers.

All but `MembershipImplemented` assume `Reinserts = FALSE`. Together the invariants are `HnswInv`. They are about recursive
functions and folds, for which `Recursion_proofs` has what is needed. Its induction is over a set of numbers in
the place of a predicate, from the least number of a set (`Numbers`, `LeastMeasure`). `LinearRecursion` says that a recursive
function whose measure decreases is what its definition says; `TailInvariant`, that a tail recursion returns what it finds
where it stops, with whatever each step keeps; `FoldInOrder`, that a fold takes the positions of a sequence in order. The measure of
`SearchLevel` is the number of unseen nodes and of candidates; that of `Descend` the levels left.

For `BatchSearch`, with any searchers, writers, workers, batches and capacity:

- `FreshUnlessRaced`: `Spec => []StaleOnlyIfRaced`. `FreshInv` adds that results not yet stored are outdated for a reason too
  (`GotExplained`).
- `EntriesAnswer`: `Spec => []EntryAnswersOneBatch`, whatever the keys of the batches are. `AnswersInv` says
  of every result which request it answers, from the queue to the cache.
- `CacheOrdered`: `Spec => []LeastRecentlyUsed`. `OrderInv` says that `recent` holds no key twice and that `keys_` is its end; an
  eviction takes the oldest key that is left and a hit moves one key in both.
- `TasksKept`: `Spec => []TasksAccounted`. `TasksPlaced` says that the requests that were sent and not answered are the
  queued and the running tasks, and that no task is in two places; the counts follow.
- `TypeCorrect`: `Spec => []TypeOK`, from the invariants above.

For `TableLifecycle`, with any number of lives, crashes and restarts and a log of any length:

- `NeverHangs`: `Spec => []HangsOnlyAfterTornDrop`, from `DropsUnderWay`: without a torn drop, a drop line is in
  the log only while `DropTable` runs.
- `NoOlderValue`: `Spec => []NoValueFromOlderLife`, from `FilesApart` and `OneLife`: unless lives are mixed, log and
  snapshot hold values of one life, and the files that a torn drop leaves do not meet another life's log.
- `ServedIsTheLast`: `Spec => []ServedTableIsTheLast`. `Kept` says in every phase that the log, replayed over the
  snapshot, leaves what clients were told. `Leave` says what lines leave of a table without recursion, and is idempotent, as
  `Yields` is in `WriteAheadLog`.
- `TypeCorrect`: `Spec => []TypeOK`, from `Typed`.

For `ReplicatedTable`, the same life with the steps of both Syncs between its own, any number of attempts and of writes:

- `ReplicationTyped`: `ReplicatedSpec => []ReplicatedTypeOK`, from `Typed` and `SyncTyped` (the replica, the offset, the flag and the
  two local states).
- `FirstLife`: `ReplicatedSpec => []FirstLifeMirrored`. `Mirrored` is the invariant, up to the first overlap, lost call, crash
  or second life: which `Sync` runs in which phase (`Turns`); while there is something to share (`Following`), that no line of the log
  is refused (`Chained`), so that its first `k` lines leave one table (`After`), that the replica is that table for the
  offset and what the `Sync` under way has counted, that a batch is the lines that follow the offset (`Batched`) and that
  `DropTable`'s `Sync` has caught up when its first attempt ends (`CatchingUp`); and once the drop is shared, that the replica has none
  (`Finished`). `RestMirrors` and `SendMirrors` carry it through the steps of `Sync`.

For `Shutdown`, with any number of handlers, workers, tables and changes: `TypeCorrect`, `SavedFinal`, `SavingQuiet` and
`MembersOutlive` (`Spec =>` its `TypeOK`, `SavedIsFinal`, `QuietWhileSaved`, `MembersOutliveThreads`). The inductive invariant
`IInv` says where a search may be (`SearchesPlaced`), that the server closes before the engine ends (`ServerFirst`),
which threads run while (`ServerThreads`) and that what is saved is clean and no cleanup is under way (`SavingClean`).

Only model-checked: the properties that need fairness, because liveness and ENABLED are out of the prover's reach:
`CallsReturn` (of `BatchSearch`), `ShutdownCompletes`, `FlaggedLinesArrive`, `QuietShutdownSyncs` and `ShutdownEnds`.
`StatsCountStored` is proved up to the first crash, where the passing runs check it too. `EntryHighest`, `GraphSound` and the properties of searches
are proved for indexes that do not ignore an insertion (`Reinserts = FALSE`), where the runs check them; the run
`lost_entry` and `DurableTableReinsert.cfg` show what can go wrong without it. `Yields` and `Leave` say without recursion what a sequence of lines leaves, which keeps
induction out of most proofs; where the code's own recursion is the subject, the lemmas of `Recursion_proofs` stand in for it.

## Plan

All modules of the plan are written: `WriteAheadLog`, `DurableTable`, `Replication`, `HnswIndex`, `BatchSearch`,
`TableLifecycle`, `ReplicatedTable`, `Shutdown`, their abstract specifications and their proofs. What is left: what the counters say after a
crash, that is of `total` alone, which the deleted count does not touch.

## Not modelled

Input validation (stateless), metrics (never read back), loggers and the
deployment files have no state that a property could be about; of the gRPC server, the service's methods
only translate requests. The text format of the log (a content with a line break, the precision of floats) and
hash collisions of the checksum and of single components of the cache key are data the modules abstract from. Data
races on the per-table maps (`replica_manager.cc:120`, `engine.cc:593`) are undefined behaviour without a list of
outcomes that a model could choose from; the modules assume that a table a thread has looked up is there.
