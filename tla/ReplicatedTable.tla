-------------------------- MODULE ReplicatedTable --------------------------
(***************************************************************************)
(* TableLifecycle with a replica: every call of ReplicaManager::Sync, the  *)
(* loop's and those of DropTable and ~Engine, step by step beside whatever *)
(* happens to the table, with lost RPCs and restarts of either side.       *)
(*                                                                         *)
(* Replication follows many replicas through one life of a table; here one *)
(* replica goes through many, and what outlives a table is in the model:   *)
(* the offset, the flag, a Sync that is still running.                     *)
(***************************************************************************)
EXTENDS TableLifecycle

CONSTANTS RetryCount,      \* kRetryCount
          MaxReplicaStops, \* bound: restarts of the replica
          MaxLosses        \* bound: RPCs that fail

ASSUME ReplicationAssumption ==
    /\ RetryCount \in Nat \ {0}
    /\ {MaxReplicaStops, MaxLosses} \subseteq Nat

VARIABLES modified, \* StatsManager::modified_ of the table
          offset,   \* wal_offsets_per_replica_map_ of the table's name
          copy,     \* the replica's table
          sync,     \* per thread: the local state of its Sync
          stops,    \* restarts of the replica so far
          losses,   \* failed RPCs so far
          disturbed \* history: what has happened that Sync does not allow for

Syncer == {"loop", "main"}
Disturbance == {"overlap", "loss", "process", "life"}

bounds == <<stops, losses>>
allVars == <<vars, modified, offset, copy, sync, bounds, disturbed>>

-----------------------------------------------------------------------------
Resting == [pc |-> "idle", life |-> 0, attempt |-> 0, batch |-> << >>,
            sum |-> 0, count |-> 0, failed |-> FALSE]

Idle(s) == sync[s].pc = "idle"
Becomes(s, l) == sync' = [sync EXCEPT ![s] = l]

ReplicatedInit ==
    /\ Init
    /\ modified = FALSE /\ offset = 0 /\ copy = NoTable
    /\ sync = [s \in Syncer |-> Resting]
    /\ stops = 0 /\ losses = 0
    /\ disturbed = {}

Mark(what, happens) == disturbed' = IF happens THEN disturbed \cup {what} ELSE disturbed

(* What calls, shutdown, crash and restart mean for the replication.       *)

Begin(s) == Idle(s) /\ Becomes(s, [Resting EXCEPT !.pc = "read", !.life = life])

Call == /\ \/ \E dim \in Dim : CreateTable(dim)
           \/ \E op \in {"insert", "remove"} : Write(op)
        /\ modified' = TRUE
        /\ Mark("life", life' > 1)
        /\ UNCHANGED <<offset, copy, sync, bounds>>

\* DropTable and ~Engine call Sync whatever the loop is doing.
BeginMain == /\ \/ AppendDrop /\ modified' = TRUE
                \/ BeginStop /\ UNCHANGED modified
             /\ Begin("main")
             /\ Mark("overlap", ~Idle("loop"))
             /\ UNCHANGED <<offset, copy, bounds>>

\* The table's StatsManager goes, the offset of the ReplicaManager stays.
Erase == /\ RemoveMetadata
         /\ modified' = FALSE
         /\ UNCHANGED <<offset, copy, sync, bounds, disturbed>>

\* The rest of DropTable, ~Engine and the replay.
Local == /\ \/ RemoveSnapshot \/ RemoveLog
            \/ SaveSnapshot \/ SaveMetadata
            \/ RestartWithout \/ ReplayEntry \/ EndReplay
         /\ UNCHANGED <<modified, offset, copy, sync, bounds, disturbed>>

\* The constructor calls CreateTable, which sets the flag.
Reload == /\ Restart
          /\ modified' = TRUE
          /\ UNCHANGED <<offset, copy, sync, bounds, disturbed>>

\* Of a Sync whose process ends, the handler it called on the replica goes on.
\* ~ReplicaManager lets the loop's call one more before the process has ended.
Orphaned(l, last) == IF l.pc \in last THEN [l EXCEPT !.pc = "send", !.life = 0] ELSE Resting

End == /\ \/ /\ StopEmpty \/ ClearWAL
             /\ sync' = [s \in Syncer |-> Orphaned(sync[s], {"sum", "send"})]
          \/ /\ Crash
             /\ sync' = [s \in Syncer |-> Orphaned(sync[s], {"send"})]
       /\ modified' = FALSE /\ offset' = 0
       /\ Mark("process", TRUE)
       /\ UNCHANGED <<copy, bounds>>

-----------------------------------------------------------------------------
(* ReplicaManager::Sync, run by thread s.                                  *)

\* Mutant: one attempt too many.
NextAttemptOnceMore(l) == IF l.attempt > RetryCount
                          THEN [l EXCEPT !.pc = "finish"]
                          ELSE [l EXCEPT !.attempt = @ + 1, !.pc = "read"]

NextAttempt(l) == IF l.attempt = RetryCount
                  THEN [l EXCEPT !.pc = "finish"]
                  ELSE [l EXCEPT !.attempt = @ + 1, !.pc = "read"]

Failed(l) == [l EXCEPT !.failed = TRUE]

\* An RPC that did not do all it was asked counts at the last attempt but one.
MissedAttempt(l) == NextAttempt(IF l.attempt = RetryCount - 1 THEN Failed(l) ELSE l)

\* The managers that Sync has looked up are still those of the table.
Holds(s) == table # NoTable /\ sync[s].life = life

\* ReplayWAL holds wal_log_mutex_.
LogFree == proc # "hung" /\ (proc = "replay" => pos = 0)

Unsent == SubSeq(wal, offset + 1, Len(wal))

\* RunReplicaSyncLoop finds the flag of a table set and the engine running.
BeginLoop ==
    /\ proc \notin Stopping \cup {"down"} /\ table # NoTable /\ modified
    /\ Begin("loop")
    /\ Mark("overlap", ~Idle("main"))
    /\ UNCHANGED <<vars, modified, offset, copy, bounds>>

ReadLog(s) ==
    /\ sync[s].pc = "read" /\ Holds(s) /\ LogFree
    /\ Becomes(s, IF Unsent = << >>
                  THEN NextAttempt(sync[s])
                  ELSE [sync[s] EXCEPT !.pc = "sum", !.batch = Unsent, !.count = 0])
    /\ UNCHANGED <<vars, modified, offset, copy, bounds, disturbed>>

\* ComputeChecksum and GetChecksum: a missing table counts as an empty one.
Checksum(t) == IF t = NoTable THEN 0 ELSE t.value

ComputeChecksum(s) ==
    /\ sync[s].pc = "sum" /\ Holds(s)
    /\ Becomes(s, [sync[s] EXCEPT !.pc = "send", !.sum = Checksum(table)])
    /\ UNCHANGED <<vars, modified, offset, copy, bounds, disturbed>>

Accepts(t, e) == IF e.op = "create" THEN t = NoTable
                 ELSE t # NoTable /\ (e.op = "drop" \/ Succeeds(t, e))

Outcome(t, e) == CASE e.op = "create" -> NewTable(e.dim)
                   [] e.op = "drop" -> NoTable
                   [] OTHER -> Effect(t, e)

\* The replica's handler applies the next line, or stops at one it refuses.
ReplicaApply(s) ==
    LET l == sync[s]
        e == l.batch[l.count + 1]
    IN  /\ l.pc = "send"
        /\ IF Accepts(copy, e)
           THEN /\ copy' = Outcome(copy, e)
                /\ Becomes(s, [l EXCEPT !.count = @ + 1,
                                        !.pc = IF l.count + 1 = Len(l.batch) THEN "answer" ELSE "send"])
           ELSE UNCHANGED copy /\ Becomes(s, [l EXCEPT !.pc = "answer"])
        /\ UNCHANGED <<vars, modified, offset, bounds, disturbed>>

\* Mutant: what is in the log when the answer arrives counts as sent.
AcknowledgeLatest(s) ==
    LET l == sync[s]
    IN  /\ l.pc = "answer" /\ Holds(s)
        /\ offset' = IF l.count = Len(l.batch) THEN Len(wal) ELSE offset + l.count
        /\ Becomes(s, IF l.count = Len(l.batch) THEN [l EXCEPT !.pc = "compare"] ELSE MissedAttempt(l))
        /\ UNCHANGED <<vars, modified, copy, bounds, disturbed>>

Acknowledge(s) ==
    LET l == sync[s]
    IN  /\ l.pc = "answer" /\ Holds(s)
        /\ offset' = offset + l.count
        /\ Becomes(s, IF l.count = Len(l.batch) THEN [l EXCEPT !.pc = "compare"] ELSE MissedAttempt(l))
        /\ UNCHANGED <<vars, modified, copy, bounds, disturbed>>

Compare(s) ==
    LET l == sync[s]
    IN  /\ l.pc = "compare" /\ Holds(s)
        /\ Becomes(s, IF l.sum = Checksum(copy) THEN [l EXCEPT !.pc = "finish"]
                                                ELSE NextAttempt(Failed(l)))
        /\ UNCHANGED <<vars, modified, offset, copy, bounds, disturbed>>

\* Sync returns, and clears the flag unless an operation failed.
Finish(s) ==
    /\ sync[s].pc = "finish" /\ Holds(s)
    /\ modified' = (modified /\ sync[s].failed)
    /\ Becomes(s, Resting)
    /\ IF s = "main" THEN DropSync \/ StopSync ELSE UNCHANGED vars
    /\ UNCHANGED <<offset, copy, bounds, disturbed>>

\* What the loop's Sync does after DropTable has erased the managers it looked
\* up is undefined: it ends, with its answer counted or not, or the process
\* does (Crash).  An orphaned handler has nobody to answer.
Abandon(s) ==
    LET l == sync[s]
    IN  /\ l.pc \notin {"idle", "send"} /\ ~Holds(s)
        /\ offset' \in {offset} \cup IF l.pc = "answer" /\ l.life # 0 THEN {offset + l.count} ELSE {}
        /\ Becomes(s, Resting)
        /\ UNCHANGED <<vars, modified, copy, bounds, disturbed>>

\* The Sync RPC fails before the replica applied anything, or its answer is lost.
LoseSync(s) ==
    /\ \/ sync[s].pc = "send" /\ sync[s].count = 0
       \/ sync[s].pc = "answer"
    /\ Becomes(s, MissedAttempt(sync[s]))

\* The GetChecksum RPC fails.
LoseChecksum(s) == sync[s].pc = "compare" /\ Becomes(s, NextAttempt(Failed(sync[s])))

Lose(s) == /\ LoseSync(s) \/ LoseChecksum(s)
           /\ losses < MaxLosses /\ losses' = losses + 1
           /\ Mark("loss", TRUE)
           /\ UNCHANGED <<vars, modified, offset, copy, stops>>

\* A replica has no log of its own and starts without the table.
RestartReplica ==
    /\ stops < MaxReplicaStops /\ stops' = stops + 1
    /\ copy' = NoTable
    /\ sync' = [s \in Syncer |-> IF sync[s].pc = "send" THEN MissedAttempt(sync[s]) ELSE sync[s]]
    /\ Mark("process", TRUE)
    /\ UNCHANGED <<vars, modified, offset, losses>>

-----------------------------------------------------------------------------
SyncStep(s) == \/ ReadLog(s) \/ ComputeChecksum(s) \/ ReplicaApply(s)
               \/ Acknowledge(s) \/ Compare(s) \/ Finish(s) \/ Abandon(s)

ReplicatedNext == \/ Call \/ BeginMain \/ Erase \/ Local \/ Reload \/ End
                  \/ BeginLoop \/ RestartReplica
                  \/ \E s \in Syncer : SyncStep(s) \/ Lose(s)

ReplicatedSpec == ReplicatedInit /\ [][ReplicatedNext]_allVars

-----------------------------------------------------------------------------
(* Properties.                                                             *)

SyncState == [pc : {"idle", "read", "sum", "send", "answer", "compare", "finish"},
              life : Nat, attempt : 0 .. RetryCount, batch : Seq(Line),
              sum : Nat, count : Nat, failed : BOOLEAN]

\* Every variable stays in its set; a Sync gives up after kRetryCount + 1
\* attempts and never waits for an answer to no line.
ReplicatedTypeOK ==
    /\ modified \in BOOLEAN
    /\ offset \in Nat
    /\ copy \in Tables
    /\ sync \in [Syncer -> SyncState]
    /\ \A s \in Syncer : sync[s].pc \in {"sum", "send"} => sync[s].count < Len(sync[s].batch)
    /\ {stops, losses} \subseteq Nat
    /\ disturbed \subseteq Disturbance

\* THE FIRST LIFE IS MIRRORED.  As long as no RPC was lost, no process ended, no
\* two Syncs ran at once and the table was not created a second time, a
\* replica for which no line is left to send has the primary's table, whatever
\* was written while a Sync was under way; a drop that has returned has reached
\* it, and so has all a shutdown saves (replica_manager.cc: Sync; engine.cc:
\* DropTable, ~Engine).
FirstLifeMirrored ==
    disturbed = {} =>
        /\ proc = "up" /\ table # NoTable /\ Unsent = << >> => copy = table
        /\ proc = "up" /\ table = NoTable => copy = NoTable
        /\ proc \in Stopping \ {"stopping"} => copy = table

\* Does not hold (README, known disagreements).  engine.cc: "Trigger sync
\* directly before the table is destroyed on the primary".  A drop that has returned has reached
\* the replica, with no RPC lost and none under way.
DropReachesReplica ==
    disturbed \subseteq {"overlap"} /\ proc = "up" /\ table = NoTable /\ sync["loop"].pc # "send"
        => copy = NoTable

\* Does not hold (README, Runs).  engine.cc: "Indicate table has been modified
\* to trigger sync of table creation on replicas".  A table that was created
\* and has nothing left to send exists on the replica, with no RPC lost and no
\* process ended.
CreatedReachesReplica ==
    disturbed \subseteq {"life"} /\ proc = "up" /\ table # NoTable /\ ~modified => copy # NoTable
=============================================================================
