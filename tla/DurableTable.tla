---------------------------- MODULE DurableTable ----------------------------
(***************************************************************************)
(* One table of a primary engine, with its files: concurrent Insert,       *)
(* Remove, BatchInsert and BatchRemove calls, the write-ahead log, the     *)
(* cleaner, the graceful shutdown of ~Engine, a crash at any point, and    *)
(* the constructor that loads the snapshot and replays the log.            *)
(*                                                                         *)
(* A call holds engine_mutex_ in shared mode from BeginCall until its last *)
(* item is applied.  Between AppendInsert/AppendRemove (which take only    *)
(* wal_log_mutex_) and VectorStore::Insert/Remove (which take only         *)
(* rw_mutex_) other calls run: a write is therefore two actions, LogWrite  *)
(* and ApplyWrite.                                                         *)
(***************************************************************************)
EXTENDS WriteAheadLog, FiniteSets

CONSTANTS Client,          \* threads calling the engine
          CanWrite,        \* <<c, id>> in it: client c may write id
          Hnsw,            \* TRUE: HNSW index (soft removal); FALSE: flat index
          TornFiles,       \* TRUE: a crash may fall inside a file rewrite
          CounterModulus,  \* the counters of StatsManager are kept modulo this
          ReindexNum, ReindexDen,  \* reindex_threshold as a fraction
          MaxBatch,        \* bound: items of one batch call
          MaxLog,          \* bound: no call begins once the log is this long
          MaxCrashes       \* bound: crashes in one behaviour

ASSUME ConstantsAssumption ==
    /\ CanWrite \subseteq Client \X Id
    /\ IsFiniteSet(Id)
    /\ {Hnsw, TornFiles} \subseteq BOOLEAN
    /\ CounterModulus \in Nat \ {0}
    /\ ReindexNum \in Nat /\ ReindexDen \in Nat \ {0}
    /\ {MaxBatch, MaxLog, MaxCrashes} \subseteq Nat

VARIABLES phase,      \* where the engine process is (see Phase)
          todo,       \* per client: items of its call still to be processed
          logged,     \* per client: the head of todo is in the log, not yet applied
          reply,      \* per client: success flag of its latest item
          data,       \* VectorStore::store_
          active,     \* ids the index can return
          soft,       \* ids of removed HNSW nodes not yet cleaned up
          stats,      \* StatsManager::stats_
          removed,    \* StatsManager::removed_
          wal,        \* the log file
          pos,        \* log lines replayed by the constructor so far
          storeFile,  \* store snapshot file (all Absent: missing or empty)
          indexFile,  \* index snapshot file: the active ids in it
          metadata,   \* metadata file: "absent", "torn" or "saved"
          promised,   \* history: per id, the values clients may rely on
          crashes     \* number of crashes so far

calls == <<todo, logged, reply>>
store == <<data, active, soft>>
counters == <<stats, removed>>
log == <<wal, pos>>
files == <<storeFile, indexFile, metadata>>
vars == <<phase, calls, store, counters, log, files, promised, crashes>>

-----------------------------------------------------------------------------
\* What a restart would bring back for id from the files as they are now.
Recovers(id, v) == Yields(storeFile[id], wal, Len(wal), id, v)

-----------------------------------------------------------------------------
(* The store, its index and its counters.                                  *)

\* HNSWIndex::Insert and FlatIndex::Insert do nothing for an id they contain,
\* and the HNSW index still contains a soft-removed one.
IndexInsert(id) == /\ active' = IF id \in soft THEN active ELSE active \cup {id}
                   /\ UNCHANGED soft

\* Mutant: the store forgets to call index_->Remove.
IndexRemoveForgotten(id) == UNCHANGED <<active, soft>>

IndexRemove(id) == /\ active' = active \ {id}
                   /\ soft' = IF Hnsw /\ id \in active THEN soft \cup {id} ELSE soft

\* Mutant: counters that go below zero instead of wrapping around.
PlusSigned(n, k) == n + k

\* Arithmetic of the unsigned counters.
Plus(n, k) == (n + k) % CounterModulus

ZeroStats == [vector |-> 0, deleted |-> 0, stale |-> 0]

\* The store and counter part of a write, shared by the calls and the replay.
ApplyEntry(e) ==
    IF ~Succeeds(data[e.id], e)
    THEN UNCHANGED <<store, counters>>
    ELSE /\ data' = [data EXCEPT ![e.id] = Effect(@, e, e.id)]
         /\ IF e.op = "insert"
            THEN /\ IndexInsert(e.id)
                 /\ stats' = [stats EXCEPT !.vector = Plus(@, 1)]
                 /\ UNCHANGED removed
            ELSE /\ IndexRemove(e.id)
                 /\ stats' = [stats EXCEPT !.deleted = Plus(@, 1), !.stale = Plus(@, 1)]
                 /\ removed' = TRUE

\* Engine::Cleanup: the index drops its soft-removed nodes, and a reindex
\* additionally forgets how many there were.
Reindexes == LET nodes == Plus(stats.vector + stats.stale, -stats.deleted)
             IN  nodes > 0 /\ stats.stale * ReindexDen > ReindexNum * nodes

CleanUp == /\ soft' = {}
           /\ removed' = FALSE
           /\ stats' = [vector  |-> Plus(stats.vector, -stats.deleted),
                        deleted |-> 0,
                        stale   |-> IF Reindexes THEN 0 ELSE stats.stale]
           /\ UNCHANGED <<data, active>>

\* The process is gone and its memory with it.
ForgetMemory == /\ data' = EmptyMap /\ active' = {} /\ soft' = {}
                /\ stats' = ZeroStats /\ removed' = FALSE

-----------------------------------------------------------------------------
Phase == {"replay", "up", "closing", "cleaned", "storeOpen", "indexOpen",
          "indexDone", "snapshotSaved", "metaOpen", "metaSaved", "down", "orphan"}

\* The files are being rewritten: a crash here leaves a partial file behind.
RewritingSnapshot == phase \in {"storeOpen", "indexOpen", "indexDone"}
Rewriting == RewritingSnapshot \/ phase = "metaOpen"

\* Mutant: Cleanup takes engine_mutex_ in shared mode.
NoCallInsideShared == TRUE

\* No call holds engine_mutex_ in shared mode.
NoCallInside == \A c \in Client : todo[c] = << >>

\* The table has just been created: CreateTable has logged its entry.
Init == /\ phase = "up"
        /\ todo = [c \in Client |-> << >>]
        /\ logged = [c \in Client |-> FALSE]
        /\ reply = [c \in Client |-> "none"]
        /\ data = EmptyMap /\ active = {} /\ soft = {}
        /\ stats = ZeroStats /\ removed = FALSE
        /\ wal = <<CreateEntry>> /\ pos = 0
        /\ storeFile = EmptyMap /\ indexFile = {} /\ metadata = "absent"
        /\ promised = [id \in Id |-> {Absent}]
        /\ crashes = 0

(* Calls: Insert and Remove are batches of one item.                       *)

BeginCall(c, batch) ==
    /\ phase = "up"
    /\ todo[c] = << >>
    /\ Len(wal) < MaxLog
    /\ todo' = [todo EXCEPT ![c] = batch]
    /\ reply' = [reply EXCEPT ![c] = "none"]
    /\ UNCHANGED <<phase, logged, store, counters, log, files, promised, crashes>>

\* Mutant: the line stays in the stream's buffer.
LogWriteUnflushed(c) ==
    /\ todo[c] # << >> /\ ~logged[c]
    /\ logged' = [logged EXCEPT ![c] = TRUE]
    /\ UNCHANGED <<phase, todo, reply, store, counters, log, files, promised, crashes>>

\* Mutant: a write waits, inside its call, until the cleaner has swept.
LogWriteSweeping(c) ==
    /\ todo[c] # << >> /\ ~logged[c]
    /\ IF removed
       THEN UNCHANGED vars
       ELSE /\ wal' = Append(wal, Head(todo[c]))
            /\ logged' = [logged EXCEPT ![c] = TRUE]
            /\ UNCHANGED <<phase, todo, reply, store, counters, pos, files, promised, crashes>>

\* AppendInsert or AppendRemove of the next item, flushed to the file.
LogWrite(c) ==
    /\ todo[c] # << >> /\ ~logged[c]
    /\ wal' = Append(wal, Head(todo[c]))
    /\ logged' = [logged EXCEPT ![c] = TRUE]
    /\ UNCHANGED <<phase, todo, reply, store, counters, pos, files, promised, crashes>>

\* VectorStore::Insert or Remove of the item, its counters and its answer.
ApplyWrite(c) ==
    /\ logged[c]
    /\ LET e == Head(todo[c])
       IN  /\ ApplyEntry(e)
           /\ reply' = [reply EXCEPT ![c] = IF Succeeds(data[e.id], e) THEN "ok" ELSE "failed"]
           /\ promised' = [promised EXCEPT ![e.id] = {data'[e.id]}]
    /\ todo' = [todo EXCEPT ![c] = Tail(@)]
    /\ logged' = [logged EXCEPT ![c] = FALSE]
    /\ UNCHANGED <<phase, log, files, crashes>>

(* The cleaner thread, which may run during the constructor's replay too.  *)

Cleanup ==
    /\ phase \in {"up", "replay"}
    /\ removed
    /\ NoCallInside
    /\ CleanUp
    /\ UNCHANGED <<phase, calls, log, files, promised, crashes>>

(* Graceful shutdown.                                                      *)

Move(from, to) == phase = from /\ phase' = to

BeginShutdown ==
    /\ Move("up", "closing")
    /\ UNCHANGED <<calls, store, counters, log, files, promised, crashes>>

ForcedCleanup ==
    /\ Move("closing", "cleaned")
    /\ NoCallInside
    /\ CleanUp
    /\ UNCHANGED <<calls, log, files, promised, crashes>>

OpenStoreFile ==
    /\ Move("cleaned", "storeOpen")
    /\ storeFile' = EmptyMap
    /\ UNCHANGED <<calls, store, counters, log, indexFile, metadata, promised, crashes>>

OpenIndexFile ==
    /\ Move("storeOpen", "indexOpen")
    /\ indexFile' = {}
    /\ UNCHANGED <<calls, store, counters, log, storeFile, metadata, promised, crashes>>

CloseIndexFile ==
    /\ Move("indexOpen", "indexDone")
    /\ indexFile' = active
    /\ UNCHANGED <<calls, store, counters, log, storeFile, metadata, promised, crashes>>

\* The store file's stream is flushed when SaveSnapshot returns.
CloseStoreFile ==
    /\ Move("indexDone", "snapshotSaved")
    /\ storeFile' = data
    /\ UNCHANGED <<calls, store, counters, log, indexFile, metadata, promised, crashes>>

OpenMetadata ==
    /\ Move("snapshotSaved", "metaOpen")
    /\ metadata' = "torn"
    /\ UNCHANGED <<calls, store, counters, log, storeFile, indexFile, promised, crashes>>

CloseMetadata ==
    /\ Move("metaOpen", "metaSaved")
    /\ metadata' = "saved"
    /\ UNCHANGED <<calls, store, counters, log, storeFile, indexFile, promised, crashes>>

ClearWAL ==
    /\ Move("metaSaved", "down")
    /\ wal' = << >>
    /\ ForgetMemory
    /\ UNCHANGED <<calls, pos, files, promised, crashes>>

(* Crash and restart.                                                      *)

\* The writes a client logged and was not answered for may or may not count.
InDoubt(id) == {Effect(data[id], Head(todo[c]), id) : c \in {d \in Client : logged[d]}}

SubMaps(m) == {[id \in Id |-> IF id \in kept THEN m[id] ELSE Absent] : kept \in SUBSET Id}

Crash ==
    /\ phase \notin {"down", "orphan"}
    /\ crashes < MaxCrashes
    /\ Rewriting => TornFiles
    /\ phase' = "down"
    /\ crashes' = crashes + 1
    /\ todo' = [c \in Client |-> << >>]
    /\ logged' = [c \in Client |-> FALSE]
    /\ reply' = [c \in Client |-> "none"]
    /\ promised' = [id \in Id |-> promised[id] \cup InDoubt(id)]
    /\ storeFile' \in IF RewritingSnapshot THEN SubMaps(data) ELSE {storeFile}
    /\ indexFile' \in IF phase = "indexOpen" THEN SUBSET active ELSE {indexFile}
    /\ ForgetMemory /\ pos' = 0
    /\ UNCHANGED <<wal, metadata>>

\* A snapshot without vectors is ignored, its index included.
LoadSnapshot == /\ data' = storeFile
                /\ active' = IF storeFile = EmptyMap THEN {} ELSE indexFile
                /\ soft' = {}

\* Mutant: the log is opened with trunc instead of app.
RestartTruncating ==
    /\ phase = "down" /\ metadata = "saved"
    /\ phase' = "replay"
    /\ wal' = <<CreateEntry>>
    /\ LoadSnapshot
    /\ stats' = ZeroStats /\ removed' = FALSE /\ pos' = 0
    /\ UNCHANGED <<calls, files, promised, crashes>>

\* Mutant: the store is loaded and the index is created empty.
RestartWithoutIndex ==
    /\ phase = "down" /\ metadata = "saved"
    /\ phase' = "replay"
    /\ wal' = Append(wal, CreateEntry)
    /\ data' = storeFile
    /\ active' = {}
    /\ soft' = {}
    /\ stats' = ZeroStats /\ removed' = FALSE /\ pos' = 0
    /\ UNCHANGED <<calls, files, promised, crashes>>

\* The constructor finds the log file, reads the metadata, creates the table
\* (which logs a create entry) and loads the snapshot unless it is empty.
Restart ==
    /\ phase = "down" /\ metadata = "saved"
    /\ phase' = "replay"
    /\ wal' = Append(wal, CreateEntry)
    /\ LoadSnapshot
    /\ stats' = ZeroStats /\ removed' = FALSE /\ pos' = 0
    /\ UNCHANGED <<calls, files, promised, crashes>>

\* Mutant: a table that cannot be created leaves an empty log.
RestartWithoutTableTruncating ==
    /\ phase = "down" /\ metadata # "saved"
    /\ phase' = "orphan"
    /\ wal' = << >>
    /\ UNCHANGED <<calls, store, counters, pos, files, promised, crashes>>

\* Without usable metadata CreateTable refuses and the constructor moves on.
RestartWithoutTable ==
    /\ phase = "down" /\ metadata # "saved"
    /\ phase' = "orphan"
    /\ UNCHANGED <<calls, store, counters, log, files, promised, crashes>>

StopWithoutTable ==
    /\ Move("orphan", "down")
    /\ UNCHANGED <<calls, store, counters, log, files, promised, crashes>>

\* A create entry is refused: the table exists.
ReplayEntry ==
    /\ phase = "replay" /\ pos < Len(wal)
    /\ pos' = pos + 1
    /\ IF wal[pos + 1].op = "create" THEN UNCHANGED <<store, counters>>
                                     ELSE ApplyEntry(wal[pos + 1])
    /\ UNCHANGED <<phase, calls, wal, files, promised, crashes>>

\* Mutant: the vector count is left at the number of replayed inserts.
EndReplayUncounted ==
    /\ Move("replay", "up")
    /\ pos = Len(wal)
    /\ pos' = 0
    /\ UNCHANGED <<calls, store, counters, wal, files, promised, crashes>>

\* The log is exhausted: the vector count is set to the size of the store.
EndReplay ==
    /\ Move("replay", "up")
    /\ pos = Len(wal)
    /\ pos' = 0
    /\ stats' = [stats EXCEPT !.vector = Cardinality(Present(data)) % CounterModulus]
    /\ UNCHANGED <<calls, store, removed, wal, files, promised, crashes>>

-----------------------------------------------------------------------------
\* The calls client c can make: a batch of inserts or of removals.
Calls(c) ==
    LET mine == {id \in Id : <<c, id>> \in CanWrite}
        ins == [op : {"insert"}, id : mine, payload : Payload]
        rem == [op : {"remove"}, id : mine]
    IN  UNION {[1 .. n -> ins] \cup [1 .. n -> rem] : n \in 1 .. MaxBatch}

ClientStep(c) == LogWrite(c) \/ ApplyWrite(c)

SaveStep == \/ ForcedCleanup
            \/ OpenStoreFile \/ OpenIndexFile \/ CloseIndexFile \/ CloseStoreFile
            \/ OpenMetadata \/ CloseMetadata
            \/ ClearWAL

ReplayStep == ReplayEntry \/ EndReplay

Next == \/ \E c \in Client : \E batch \in Calls(c) : BeginCall(c, batch)
        \/ \E c \in Client : ClientStep(c)
        \/ Cleanup
        \/ BeginShutdown \/ SaveStep
        \/ Crash
        \/ Restart \/ ReplayStep
        \/ RestartWithoutTable \/ StopWithoutTable

Spec == Init /\ [][Next]_vars

\* Threads that run keep running: a call proceeds, the destructor and the
\* constructor proceed once started.  Nobody has to call, crash or restart.
FairSpec == /\ Spec
            /\ \A c \in Client : WF_vars(ClientStep(c))
            /\ WF_vars(SaveStep)
            /\ WF_vars(ReplayStep)

-----------------------------------------------------------------------------
(* Properties.                                                             *)

\* Every variable stays in its set; in particular a logged write is the head of
\* a call that is still running, and only a served table runs calls.
TypeOK ==
    /\ phase \in Phase
    /\ todo \in [Client -> Seq(WriteEntry)]
    /\ logged \in [Client -> BOOLEAN]
    /\ \A c \in Client : logged[c] => todo[c] # << >>
    /\ reply \in [Client -> {"none", "ok", "failed"}]
    /\ data \in [Id -> Value]
    /\ active \in SUBSET Id /\ soft \in SUBSET Id
    /\ stats \in [vector : Nat, deleted : Nat, stale : Nat]
    /\ removed \in BOOLEAN
    /\ wal \in Seq(LogEntry)
    /\ pos \in Nat
    /\ storeFile \in [Id -> Value]
    /\ indexFile \in SUBSET Id
    /\ metadata \in {"absent", "torn", "saved"}
    /\ promised \in [Id -> SUBSET Value]
    /\ crashes \in Nat

\* Client c has a write of id in the log that the store has not seen yet.
Pending(c, id) == logged[c] /\ Head(todo[c]).id = id

\* The value of id once a pending write of it, if any, has reached the store.
Settles(id, v) == \/ v = data[id] /\ \A c \in Client : ~Pending(c, id)
                  \/ \E c \in Client : Pending(c, id) /\ v = Effect(data[id], Head(todo[c]), id)

\* The store is in memory and the snapshot file is not being rewritten.
Served == {"up", "closing", "cleaned", "snapshotSaved", "metaOpen", "metaSaved"}

\* Nobody else writes an id between the two halves of a write to it.
SingleWriter == \A c, d \in Client, id \in Id :
                   <<c, id>> \in CanWrite /\ <<d, id>> \in CanWrite => c = d

\* PROMISE.  While a table is served, an id without a write in flight holds
\* the value the last answered write left, or the one a write that was logged
\* and never answered before a crash would have left: Engine::Insert and
\* Remove answer only after AppendInsert/AppendRemove flushed the log
\* (engine.cc), and the constructor replays it.
PromiseKept ==
    phase = "up" =>
        \A id \in Id : (\A c \in Client : ~Pending(c, id)) => data[id] \in promised[id]

\* CRASH SAFETY.  Whenever the files are whole, replaying the log over the
\* snapshot gives back exactly what the store serves, one pending write per
\* id apart; saving a snapshot of a store whose log is not yet cleared does
\* not change that, because replay over its own result changes nothing.
CrashSafe ==
    phase \in Served => \A id \in Id : \A v \in Value : Recovers(id, v) <=> Settles(id, v)

\* FILES KEEP THE PROMISES.  While the table is not in memory, or is being
\* replayed, its files bring back for every id a value the clients may
\* expect; this includes a table that the constructor skipped for want of
\* metadata (engine.cc), whose log and snapshot stay as they were.
FilesKeepPromise ==
    phase \in {"down", "orphan", "replay"} =>
        \A id \in Id : \E v \in promised[id] : Recovers(id, v)

\* Does not hold (README, known disagreements): an engine started on an
\* existing log file serves the table it belongs to unless that table never
\* held anything (engine.cc, "On startup after a crash, replay the WAL to
\* ensure durability").
RestartRestoresTable ==
    phase = "orphan" => \A id \in Id : Absent \in promised[id]

\* An id that a search can return is one the store holds, whichever of remove,
\* re-insert, cleanup, save, load and replay happened before: index and store
\* are changed in two calls and saved in two files.
SearchReturnsStored == phase \in Served \cup {"replay"} => active \subseteq Present(data)

\* Every stored id is one a search can return.
StoredIsSearchable == phase \in Served => Present(data) \subseteq active

\* The number of vectors a client computes from GetStats is the number stored
\* (stats_manager.h: "keeping metadata about the vector database table,
\* including the count of vectors, as well as the count of deleted vectors").
\* Holds until the first crash: a replay counts the removals of the log, and
\* the constructor then sets the other counter to the size of the store
\* (README, known disagreements).
StatsCountStored ==
    phase = "up" => Plus(stats.vector, -stats.deleted) = Cardinality(Present(data))

\* A graceful shutdown comes to its end, however many calls it found running.
ShutdownCompletes == phase = "closing" ~> phase = "down"

-----------------------------------------------------------------------------
(* The table implements DurableMap: a write takes effect when its log line *)
(* is flushed.  While the snapshot file is being rewritten (and no crash   *)
(* falls there) the map is what is being saved.                            *)

DurableValue(id) == IF RewritingSnapshot THEN data[id] ELSE CHOOSE v \in Value : Recovers(id, v)

\* The answer to a logged write is settled before the client gets it.
Answer(c) == IF logged[c]
             THEN IF Succeeds(data[Head(todo[c]).id], Head(todo[c])) THEN "ok" ELSE "failed"
             ELSE reply[c]

durableMap == [id \in Id |-> DurableValue(id)]
answers == [c \in Client |-> Answer(c)]

Abstract == INSTANCE DurableMap WITH map <- durableMap, reply <- answers

\* Refinement: writes are atomic, durable from the moment they are logged, and
\* answered according to the state they were logged in; shutdown, crash and
\* recovery change nothing a client can see.
ImplementsDurableMap == Abstract!Spec
=============================================================================
