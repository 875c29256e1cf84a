--------------------------- MODULE TableLifecycle ---------------------------
(***************************************************************************)
(* The lives of one table name on a primary: it is created, written,       *)
(* dropped and created again, across graceful shutdowns, crashes (inside   *)
(* DropTable and inside ~Engine too) and restarts.                         *)
(*                                                                         *)
(* DurableTable takes one life of a table apart.  Here its store is one    *)
(* value and a write one step, and what is taken apart is what passes from *)
(* one life to the next: the four files.  ReplicatedTable adds a replica.  *)
(***************************************************************************)
EXTENDS Naturals, Sequences

CONSTANTS Dim,        \* vector dimensionalities
          NoTable,    \* no table of this name
          MaxLives,   \* bound: tables created by clients
          MaxCrashes, \* bound: crashes of the primary
          MaxLog      \* bound: no write begins once the log is this long

ASSUME ConstantsAssumption ==
    /\ NoTable \notin Dim \cup [dim : Dim, value : Nat]
    /\ {MaxLives, MaxCrashes, MaxLog} \subseteq Nat

VARIABLES proc,     \* where the primary process is (see Proc)
          table,    \* its table in memory
          hasLog,   \* the log file exists
          wal,      \* its lines
          snapshot, \* value in the snapshot files, 0 when there is none
          metadata, \* dimensionality in the metadata file, or NoTable
          pos,      \* log lines replayed so far
          life,     \* number of tables created by clients
          crashes,  \* number of crashes
          expect,   \* history: the table as answered calls left it
          mixed,    \* history: the table was created over lines of an older one
          torn      \* history: a crash fell inside DropTable

files == <<hasLog, wal, snapshot, metadata>>
history == <<expect, mixed, torn>>
vars == <<proc, table, files, pos, life, crashes, history>>

-----------------------------------------------------------------------------
Line == [op : {"create", "insert", "remove", "drop"}, dim : Dim, life : Nat]

NewTable(dim) == [dim |-> dim, value |-> 0]

\* Insert and Remove of the only id: the value is the life it was written in.
Succeeds(t, e) == IF e.op = "insert" THEN t.value = 0 /\ t.dim = e.dim ELSE t.value # 0
Effect(t, e) == IF ~Succeeds(t, e) THEN t
                ELSE [t EXCEPT !.value = IF e.op = "insert" THEN e.life ELSE 0]

-----------------------------------------------------------------------------
Dropping == {"dropLogged", "dropSynced", "snapshotGone", "logGone"}
Stopping == {"stopping", "stopSynced", "snapshotSaved", "metadataSaved"}
Proc == {"up", "down", "replay", "hung"} \cup Dropping \cup Stopping

Init == /\ proc = "up"
        /\ table = NoTable
        /\ hasLog = FALSE /\ wal = << >> /\ snapshot = 0 /\ metadata = NoTable
        /\ pos = 0 /\ life = 0 /\ crashes = 0
        /\ expect = NoTable /\ mixed = FALSE /\ torn = FALSE

Move(from, to) == proc = from /\ proc' = to

(* Calls.                                                                  *)

AppendLine(op, dim) == /\ hasLog' = TRUE
                       /\ wal' = Append(wal, [op |-> op, dim |-> dim, life |-> life'])

\* CreateTable logs to the file of that name, whatever it holds, and starts
\* with an empty store.
CreateTable(dim) ==
    /\ proc = "up" /\ table = NoTable
    /\ life < MaxLives
    /\ life' = life + 1
    /\ AppendLine("create", dim)
    /\ table' = NewTable(dim)
    /\ expect' = NewTable(dim)
    /\ mixed' = (wal # << >>)
    /\ UNCHANGED <<proc, snapshot, metadata, pos, crashes, torn>>

\* Mutant: the write is applied and not logged.
WriteUnlogged(op) ==
    /\ proc = "up" /\ table # NoTable
    /\ Len(wal) < MaxLog
    /\ LET e == [op |-> op, dim |-> table.dim, life |-> life]
       IN  /\ Succeeds(table, e)
           /\ table' = Effect(table, e)
           /\ expect' = Effect(table, e)
    /\ UNCHANGED <<proc, files, pos, life, crashes, mixed, torn>>

\* Insert and Remove; refused ones are left to Replication.
Write(op) ==
    /\ proc = "up" /\ table # NoTable
    /\ Len(wal) < MaxLog
    /\ LET e == [op |-> op, dim |-> table.dim, life |-> life]
       IN  /\ Succeeds(table, e)
           /\ table' = Effect(table, e)
           /\ expect' = Effect(table, e)
    /\ UNCHANGED life
    /\ AppendLine(op, table.dim)
    /\ UNCHANGED <<proc, snapshot, metadata, pos, crashes, mixed, torn>>

(* DropTable, which holds engine_mutex_ exclusively.                       *)

\* Mutant: the table is taken out of the maps before Sync and Clear.
AppendDropErasing ==
    /\ Move("up", "dropLogged")
    /\ table # NoTable
    /\ table' = NoTable
    /\ UNCHANGED life
    /\ AppendLine("drop", table.dim)
    /\ UNCHANGED <<snapshot, metadata, pos, crashes, history>>

AppendDrop ==
    /\ Move("up", "dropLogged")
    /\ table # NoTable
    /\ UNCHANGED life
    /\ AppendLine("drop", table.dim)
    /\ UNCHANGED <<table, snapshot, metadata, pos, crashes, history>>

\* Sync returns: whatever it did to the replicas, it touched nothing here.
DropSync ==
    /\ Move("dropLogged", "dropSynced")
    /\ UNCHANGED <<table, files, pos, life, crashes, history>>

\* Mutant: Clear leaves the snapshot.
RemoveSnapshotNot ==
    /\ Move("dropSynced", "snapshotGone")
    /\ UNCHANGED <<table, files, pos, life, crashes, history>>

\* Clear removes the two snapshot files, then the log, then the metadata.
RemoveSnapshot ==
    /\ Move("dropSynced", "snapshotGone")
    /\ snapshot' = 0
    /\ UNCHANGED <<table, hasLog, wal, metadata, pos, life, crashes, history>>

\* Mutant: Clear leaves the log.
RemoveLogNot ==
    /\ Move("snapshotGone", "logGone")
    /\ UNCHANGED <<table, files, pos, life, crashes, history>>

RemoveLog ==
    /\ Move("snapshotGone", "logGone")
    /\ hasLog' = FALSE /\ wal' = << >>
    /\ UNCHANGED <<table, snapshot, metadata, pos, life, crashes, history>>

\* The maps are erased, the offsets of the ReplicaManager are not.
RemoveMetadata ==
    /\ Move("logGone", "up")
    /\ metadata' = NoTable
    /\ table' = NoTable
    /\ expect' = NoTable
    /\ UNCHANGED <<hasLog, wal, snapshot, pos, life, crashes, mixed, torn>>

(* Shutdown, crash and restart of the primary.                             *)

ForgetMemory == table' = NoTable /\ pos' = 0

\* ~Engine without a table to save.
StopEmpty ==
    /\ Move("up", "down")
    /\ table = NoTable
    /\ ForgetMemory
    /\ UNCHANGED <<files, life, crashes, expect, mixed, torn>>

BeginStop ==
    /\ Move("up", "stopping")
    /\ table # NoTable
    /\ UNCHANGED <<table, files, pos, life, crashes, history>>

StopSync ==
    /\ Move("stopping", "stopSynced")
    /\ UNCHANGED <<table, files, pos, life, crashes, history>>

SaveSnapshot ==
    /\ Move("stopSynced", "snapshotSaved")
    /\ snapshot' = table.value
    /\ UNCHANGED <<table, hasLog, wal, metadata, pos, life, crashes, history>>

SaveMetadata ==
    /\ Move("snapshotSaved", "metadataSaved")
    /\ metadata' = table.dim
    /\ UNCHANGED <<table, hasLog, wal, snapshot, pos, life, crashes, history>>

ClearWAL ==
    /\ Move("metadataSaved", "down")
    /\ wal' = << >>
    /\ ForgetMemory
    /\ UNCHANGED <<hasLog, snapshot, metadata, life, crashes, expect, mixed, torn>>

Crash ==
    /\ proc # "down"
    /\ crashes < MaxCrashes
    /\ crashes' = crashes + 1
    /\ proc' = "down"
    /\ ForgetMemory
    /\ torn' = (torn \/ proc \in Dropping)
    /\ UNCHANGED <<files, life, expect, mixed>>

\* The constructor finds the log file and the metadata: CreateTable with what
\* the metadata says, then the snapshot, then the log.
Restart ==
    /\ proc = "down" /\ hasLog /\ metadata # NoTable
    /\ proc' = "replay"
    /\ UNCHANGED life
    /\ AppendLine("create", metadata)
    /\ table' = [dim |-> metadata, value |-> snapshot]
    /\ UNCHANGED <<snapshot, metadata, pos, crashes, history>>

\* No log, or a log without metadata: the engine starts without the table.
RestartWithout ==
    /\ proc = "down" /\ (~hasLog \/ metadata = NoTable)
    /\ proc' = "up"
    /\ UNCHANGED <<table, files, pos, life, crashes, history>>

\* A create line is refused.  A drop line calls DropTable, whose AppendDrop
\* waits for wal_log_mutex_, which ReplayWAL holds.
ReplayEntry ==
    /\ proc = "replay" /\ pos < Len(wal)
    /\ LET e == wal[pos + 1]
       IN  /\ proc' = IF e.op = "drop" THEN "hung" ELSE "replay"
           /\ table' = IF e.op \in {"create", "drop"} THEN table ELSE Effect(table, e)
    /\ pos' = pos + 1
    /\ UNCHANGED <<files, life, crashes, history>>

EndReplay ==
    /\ Move("replay", "up")
    /\ pos = Len(wal)
    /\ pos' = 0
    /\ UNCHANGED <<table, files, life, crashes, history>>

-----------------------------------------------------------------------------
DropStep == DropSync \/ RemoveSnapshot \/ RemoveLog \/ RemoveMetadata
StopStep == StopSync \/ SaveSnapshot \/ SaveMetadata \/ ClearWAL

Next == \/ \E dim \in Dim : CreateTable(dim)
        \/ \E op \in {"insert", "remove"} : Write(op)
        \/ AppendDrop \/ DropStep
        \/ StopEmpty \/ BeginStop \/ StopStep
        \/ Crash
        \/ Restart \/ RestartWithout \/ ReplayEntry \/ EndReplay

Spec == Init /\ [][Next]_vars

-----------------------------------------------------------------------------
(* Properties.                                                             *)

Tables == [dim : Dim, value : Nat] \cup {NoTable}

\* Every variable stays in its set, and a process that serves, drops or saves
\* a table has one.
TypeOK ==
    /\ proc \in Proc
    /\ {table, expect} \subseteq Tables
    /\ proc \in Dropping \cup Stopping \cup {"replay"} => table # NoTable
    /\ proc = "down" => table = NoTable
    /\ {hasLog, mixed, torn} \subseteq BOOLEAN
    /\ wal \in Seq(Line)
    /\ ~hasLog => wal = << >>
    /\ metadata \in Dim \cup {NoTable}
    /\ {snapshot, pos, life, crashes} \subseteq Nat
    /\ pos <= Len(wal)

\* LIVES KEPT APART.  A table that is served is the one last created, with
\* what its answered writes left and nothing of an older table of that name;
\* a dropped table is not served again.  It holds unless a crash fell inside
\* DropTable (the metadata of the dropped table may survive its log) or the
\* table was created over a log that a crash had left without metadata
\* (engine.cc: CreateTable appends to whatever log there is).
ServedTableIsTheLast ==
    proc = "up" /\ table # NoTable /\ ~torn /\ ~mixed => table = expect

\* Even after a crash inside DropTable, a life that was not mixed with an older
\* one never shows an older value: the snapshot, the log and the metadata that
\* such a crash leaves behind never meet a new table's log (engine.cc,
\* persistence_manager.cc).
NoValueFromOlderLife ==
    proc = "up" /\ table # NoTable /\ ~mixed => table.value \in {0, life}

\* The constructor hangs in the replay of a drop line only after a crash
\* inside DropTable: a completed drop leaves no log behind (engine.cc,
\* persistence_manager.cc).
HangsOnlyAfterTornDrop == proc = "hung" => torn
=============================================================================
