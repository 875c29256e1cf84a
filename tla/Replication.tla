---------------------------- MODULE Replication ----------------------------
(***************************************************************************)
(* One table of a primary and its replicas: clients write the log and the  *)
(* store, the background loop and the shutdown each run                    *)
(* ReplicaManager::Sync, which sends the log lines past an offset to one   *)
(* replica after the other and compares checksums, and the replicas apply  *)
(* the lines they are sent.                                                *)
(*                                                                         *)
(* Sync takes no lock: clients write the log and the store between any two *)
(* of its steps, and the loop's Sync and the shutdown's may overlap.       *)
(***************************************************************************)
EXTENDS WriteAheadLog, FiniteSets

CONSTANTS Client,        \* threads calling the engine
          CanWrite,      \* <<c, id>> in it: client c may write id
          NumReplicas,   \* length of replicas_
          RetryCount,    \* kRetryCount
          OnlyEffective, \* TRUE: clients insert only new ids, remove only stored ones
          MaxLog,        \* bound: no write begins once the log is this long
          MaxLosses,     \* bound: RPCs that fail
          ShutdownBound  \* bound: log lines plus failed RPCs in a shutdown

ASSUME ConstantsAssumption ==
    /\ CanWrite \subseteq Client \X Id
    /\ IsFiniteSet(Id)
    /\ NumReplicas \in Nat \ {0}
    /\ RetryCount \in Nat \ {0}
    /\ OnlyEffective \in BOOLEAN
    /\ {MaxLog, MaxLosses, ShutdownBound} \subseteq Nat

Replica == 1 .. NumReplicas
Syncer == {"loop", "main"}

VARIABLES phase,     \* "up", "closing" (shutdown_ is set), "syncing", "synced" or "down"
          wal,       \* the primary's log file
          data,      \* the primary's store
          stage,     \* per client: "idle", "logged" or "applied"
          entry,     \* per client: the write of its call
          modified,  \* StatsManager::modified_
          offset,    \* wal_offsets_per_replica_map_ of this table
          hosted,    \* per replica: the table exists there
          copy,      \* per replica: its store
          sync,      \* per thread: the local state of its Sync
          losses,    \* number of failed RPCs so far
          due,       \* history, per thread: lines in the log when its Sync began
          base,      \* history, per thread: number of the line before its batch
          delivered, \* history, per replica: numbers of the lines it has applied
          overlapped \* history: the destructor's Sync began while the loop's was running

primary == <<phase, wal, data, stage, entry>>
replicas == <<hosted, copy>>
deliveries == <<base, delivered, overlapped>>
vars == <<primary, modified, offset, replicas, sync, losses, due, deliveries>>

-----------------------------------------------------------------------------
Resting == [pc |-> "idle", target |-> 1, attempt |-> 0, batch |-> << >>,
            sum |-> EmptyMap, count |-> 0, failed |-> FALSE]

Idle(s) == sync[s].pc = "idle"

Init == /\ phase = "up"
        /\ wal = <<CreateEntry>>
        /\ data = EmptyMap
        /\ stage = [c \in Client |-> "idle"]
        /\ entry = [c \in Client |-> CreateEntry]
        /\ modified = TRUE
        /\ offset = [r \in Replica |-> 0]
        /\ hosted = [r \in Replica |-> FALSE]
        /\ copy = [r \in Replica |-> EmptyMap]
        /\ sync = [s \in Syncer |-> Resting]
        /\ losses = 0
        /\ due = [s \in Syncer |-> 0]
        /\ base = [s \in Syncer |-> 0]
        /\ delivered = [r \in Replica |-> {}]
        /\ overlapped = FALSE

(* Writes of clients.                                                      *)

LogWrite(c, e) ==
    /\ phase = "up"
    /\ stage[c] = "idle"
    /\ Len(wal) < MaxLog
    /\ <<c, e.id>> \in CanWrite
    /\ OnlyEffective => Succeeds(data[e.id], e)
    /\ wal' = Append(wal, e)
    /\ stage' = [stage EXCEPT ![c] = "logged"]
    /\ entry' = [entry EXCEPT ![c] = e]
    /\ UNCHANGED <<phase, data, modified, offset, replicas, sync, losses, due, deliveries>>

\* A refused write is not reported to the flags.
ApplyWrite(c) ==
    /\ stage[c] = "logged"
    /\ LET e == entry[c]
       IN  /\ data' = [data EXCEPT ![e.id] = Effect(@, e, e.id)]
           /\ stage' = [stage EXCEPT ![c] = IF Succeeds(data[e.id], e) THEN "applied" ELSE "idle"]
    /\ UNCHANGED <<phase, wal, entry, modified, offset, replicas, sync, losses, due, deliveries>>

FlagWrite(c) ==
    /\ stage[c] = "applied"
    /\ stage' = [stage EXCEPT ![c] = "idle"]
    /\ modified' = TRUE
    /\ UNCHANGED <<phase, wal, data, entry, offset, replicas, sync, losses, due, deliveries>>

-----------------------------------------------------------------------------
(* ReplicaManager::Sync, run by thread s, whose local state is sync[s].     *)

Becomes(s, l) == sync' = [sync EXCEPT ![s] = l]

Begin(s) == /\ Idle(s)
            /\ Becomes(s, [Resting EXCEPT !.pc = "read"])
            /\ due' = [due EXCEPT ![s] = Len(wal)]

\* RunReplicaSyncLoop wakes up, finds the flag set and the engine running.
BeginLoop ==
    /\ phase = "up" /\ modified
    /\ Begin("loop")
    /\ UNCHANGED <<primary, modified, offset, replicas, losses, deliveries>>

\* The next attempt at the same replica, or the next replica after the last one.
NextReplica(l) == [l EXCEPT !.target = @ + 1, !.attempt = 0,
                            !.pc = IF l.target = NumReplicas THEN "finish" ELSE "read"]

\* Mutant: one attempt too many.
NextAttemptOnceMore(l) == IF l.attempt > RetryCount
                          THEN NextReplica(l)
                          ELSE [l EXCEPT !.attempt = @ + 1, !.pc = "read"]

NextAttempt(l) == IF l.attempt = RetryCount
                  THEN NextReplica(l)
                  ELSE [l EXCEPT !.attempt = @ + 1, !.pc = "read"]

Failed(l) == [l EXCEPT !.failed = TRUE]

\* Mutant: a failure counts only at an attempt that is never made.
MissedAttemptLate(l) == NextAttempt(IF l.attempt = RetryCount + 1 THEN Failed(l) ELSE l)

\* An RPC that did not do all it was asked counts at the last attempt but one.
MissedAttempt(l) == NextAttempt(IF l.attempt = RetryCount - 1 THEN Failed(l) ELSE l)

\* Mutant: the line at the offset is taken for one already sent.
UnsentSkipping(r) == SubSeq(wal, offset[r] + 2, Len(wal))

Unsent(r) == SubSeq(wal, offset[r] + 1, Len(wal))

\* SerializeWALEntries from the replica's offset; nothing to send is retried.
ReadLog(s) ==
    LET l == sync[s]
    IN  /\ l.pc = "read"
        /\ Becomes(s, IF Unsent(l.target) = << >>
                      THEN NextAttempt(l)
                      ELSE [l EXCEPT !.pc = "sum", !.batch = Unsent(l.target), !.count = 0])
        /\ base' = [base EXCEPT ![s] = offset[l.target]]
        /\ UNCHANGED <<primary, modified, offset, replicas, losses, due, delivered, overlapped>>

\* The checksum tells any two stores apart that the bounded instances hold.
ComputeChecksum(s) ==
    /\ sync[s].pc = "sum"
    /\ Becomes(s, [sync[s] EXCEPT !.pc = "send", !.sum = data])
    /\ UNCHANGED <<primary, modified, offset, replicas, losses, due, deliveries>>

Accepts(r, e) == IF e.op = "create" THEN ~hosted[r]
                 ELSE hosted[r] /\ Succeeds(copy[r][e.id], e)

\* The replica's Sync handler applies the next entry, or stops at one it refuses.
ReplicaApply(s) ==
    LET l == sync[s]
        r == l.target
        e == l.batch[l.count + 1]
    IN  /\ l.pc = "send"
        /\ IF Accepts(r, e)
           THEN /\ hosted' = [hosted EXCEPT ![r] = TRUE]
                /\ copy' = [copy EXCEPT ![r] = [id \in Id |-> Effect(@[id], e, id)]]
                /\ delivered' = [delivered EXCEPT ![r] = @ \cup {base[s] + l.count + 1}]
                /\ Becomes(s, [l EXCEPT !.count = @ + 1,
                                        !.pc = IF l.count + 1 = Len(l.batch) THEN "answer" ELSE "send"])
           ELSE /\ UNCHANGED <<replicas, delivered>>
                /\ Becomes(s, [l EXCEPT !.pc = "answer"])
        /\ UNCHANGED <<primary, modified, offset, losses, due, base, overlapped>>

\* Mutant: the offset moves by the number of entries sent.
AcknowledgeAll(s) ==
    LET l == sync[s]
    IN  /\ l.pc = "answer"
        /\ offset' = [offset EXCEPT ![l.target] = @ + Len(l.batch)]
        /\ Becomes(s, IF l.count = Len(l.batch) THEN [l EXCEPT !.pc = "compare"] ELSE MissedAttempt(l))
        /\ UNCHANGED <<primary, modified, replicas, losses, due, deliveries>>

\* Mutant: the offset is set to the number of applied entries.
AcknowledgeReset(s) ==
    LET l == sync[s]
    IN  /\ l.pc = "answer"
        /\ offset' = [offset EXCEPT ![l.target] = l.count]
        /\ Becomes(s, IF l.count = Len(l.batch) THEN [l EXCEPT !.pc = "compare"] ELSE MissedAttempt(l))
        /\ UNCHANGED <<primary, modified, replicas, losses, due, deliveries>>

\* The response arrives: the offset moves by the number of applied entries.
Acknowledge(s) ==
    LET l == sync[s]
    IN  /\ l.pc = "answer"
        /\ offset' = [offset EXCEPT ![l.target] = @ + l.count]
        /\ Becomes(s, IF l.count = Len(l.batch) THEN [l EXCEPT !.pc = "compare"] ELSE MissedAttempt(l))
        /\ UNCHANGED <<primary, modified, replicas, losses, due, deliveries>>

\* Bounds the RPCs that fail, and in a shutdown only on a short log.
MayLose == losses < MaxLosses /\ (phase # "up" => Len(wal) + losses < ShutdownBound)

\* The Sync RPC fails before the replica applied anything, or its answer is
\* lost: the response message holds no count.
LoseSync(s) ==
    LET l == sync[s]
    IN  /\ \/ l.pc = "send" /\ l.count = 0
           \/ l.pc = "answer"
        /\ MayLose
        /\ losses' = losses + 1
        /\ Becomes(s, MissedAttempt(l))
        /\ UNCHANGED <<primary, modified, offset, replicas, due, deliveries>>

\* GetChecksum answers: an attempt that ends here in a mismatch is a failure.
Compare(s) ==
    LET l == sync[s]
    IN  /\ l.pc = "compare"
        /\ Becomes(s, IF l.sum = copy[l.target] THEN NextReplica(l) ELSE NextAttempt(Failed(l)))
        /\ UNCHANGED <<primary, modified, offset, replicas, losses, due, deliveries>>

\* The GetChecksum RPC fails.
LoseChecksum(s) ==
    /\ sync[s].pc = "compare"
    /\ MayLose
    /\ losses' = losses + 1
    /\ Becomes(s, NextAttempt(Failed(sync[s])))
    /\ UNCHANGED <<primary, modified, offset, replicas, due, deliveries>>

\* Sync returns, and clears the flag unless an operation failed.
Finish(s) ==
    /\ sync[s].pc = "finish"
    /\ modified' = (modified /\ sync[s].failed)
    /\ Becomes(s, Resting)
    /\ phase' = IF s = "main" THEN "synced" ELSE phase
    /\ UNCHANGED <<wal, data, stage, entry, offset, replicas, losses, due, deliveries>>

-----------------------------------------------------------------------------
(* ~Engine: the forced cleanup waits for the calls, then Sync runs on the  *)
(* destructor's thread whatever the loop is doing, then the log is cleared.*)

BeginShutdown ==
    /\ Len(wal) + losses <= ShutdownBound
    /\ phase = "up" /\ phase' = "closing"
    /\ UNCHANGED <<wal, data, stage, entry, modified, offset, replicas, sync, losses, due, deliveries>>

\* Mutant: Sync is called without force, and returns because shutdown_ is set.
BeginMainUnforced ==
    /\ phase = "closing" /\ phase' = "synced"
    /\ \A c \in Client : stage[c] = "idle"
    /\ UNCHANGED <<wal, data, stage, entry, modified, offset, replicas, sync, losses, due, deliveries>>

BeginMain ==
    /\ phase = "closing" /\ phase' = "syncing"
    /\ \A c \in Client : stage[c] = "idle"
    /\ Begin("main")
    /\ overlapped' = ~Idle("loop")
    /\ UNCHANGED <<wal, data, stage, entry, modified, offset, replicas, losses, base, delivered>>

ClearWAL ==
    /\ phase = "synced" /\ phase' = "down"
    /\ wal' = << >>
    /\ UNCHANGED <<data, stage, entry, modified, offset, replicas, sync, losses, due, deliveries>>

-----------------------------------------------------------------------------
ClientStep(c) == ApplyWrite(c) \/ FlagWrite(c)

SyncStep(s) == \/ ReadLog(s) \/ ComputeChecksum(s)
               \/ ReplicaApply(s) \/ Acknowledge(s)
               \/ Compare(s) \/ Finish(s)

Loss(s) == LoseSync(s) \/ LoseChecksum(s)

Next == \/ \E c \in Client : ClientStep(c) \/ \E e \in WriteEntry : LogWrite(c, e)
        \/ BeginLoop
        \/ \E s \in Syncer : SyncStep(s) \/ Loss(s)
        \/ BeginShutdown \/ BeginMain \/ ClearWAL

Spec == Init /\ [][Next]_vars

\* Calls and Sync proceed, and the loop's timer fires again and again.
FairSpec == /\ Spec
            /\ \A c \in Client : WF_vars(ClientStep(c))
            /\ \A s \in Syncer : WF_vars(SyncStep(s))
            /\ WF_vars(BeginLoop)
            /\ WF_vars(BeginMain) /\ WF_vars(ClearWAL)

-----------------------------------------------------------------------------
(* Properties.                                                             *)

SyncState == [pc : {"idle", "read", "sum", "send", "answer", "compare", "finish"},
              target : 1 .. NumReplicas + 1,
              attempt : 0 .. RetryCount,
              batch : Seq(LogEntry),
              sum : [Id -> Value],
              count : Nat,
              failed : BOOLEAN]

\* Every variable stays in its set; Sync never looks past the last replica and
\* gives up after kRetryCount + 1 attempts at one.
TypeOK ==
    /\ phase \in {"up", "closing", "syncing", "synced", "down"}
    /\ wal \in Seq(LogEntry)
    /\ data \in [Id -> Value]
    /\ stage \in [Client -> {"idle", "logged", "applied"}]
    /\ entry \in [Client -> LogEntry]
    /\ \A c \in Client : stage[c] # "idle" => entry[c] \in WriteEntry
    /\ modified \in BOOLEAN
    /\ offset \in [Replica -> Nat]
    /\ hosted \in [Replica -> BOOLEAN]
    /\ copy \in [Replica -> [Id -> Value]]
    /\ sync \in [Syncer -> SyncState]
    /\ \A s \in Syncer : /\ sync[s].pc \notin {"idle", "finish"} => sync[s].target \in Replica
                         /\ sync[s].pc \in {"sum", "send"} => sync[s].count < Len(sync[s].batch)
    /\ losses \in Nat
    /\ due \in [Syncer -> Nat]
    /\ base \in [Syncer -> Nat]
    /\ delivered \in [Replica -> SUBSET Nat]
    /\ overlapped \in BOOLEAN

\* No call failed and only the loop runs Sync.
Undisturbed == phase = "up" /\ losses = 0

\* Lines of the log that replica r has applied, acknowledged or not.
Applied(r) == offset[r] + (IF sync["loop"].pc \in {"send", "answer"} /\ sync["loop"].target = r
                           THEN sync["loop"].count ELSE 0)

\* PREFIX.  A replica holds what the lines it has applied make of an empty
\* store, although the primary never sends states and keeps the position of
\* the replica only as a count of answers (wal_offsets_per_replica_map_).
ReplicaHoldsPrefix ==
    Undisturbed =>
        \A r \in Replica :
            /\ Applied(r) <= Len(wal)
            /\ hosted[r] <=> Applied(r) > 0
            /\ \A id \in Id : Yields(Absent, wal, Applied(r), id, copy[r][id])

\* HONEST FLAG.  A Sync that ends by clearing the modified flag has had every
\* line that was in the log when it began applied by every replica, refused
\* lines, lost answers and retries notwithstanding, although it knows of the
\* replicas only how many lines they said they applied; unless the
\* destructor's Sync began while the loop's was under way (replica_manager.cc,
\* "Only indicate the modified flag is false if all sync operations are
\* successful").
ClearsDelivered(s) == Finish(s) /\ modified /\ ~modified' => \A r \in Replica : 1 .. due[s] \subseteq delivered[r]
FlagClearedWhenSent == [][~overlapped => \A s \in Syncer : ClearsDelivered(s)]_vars

\* The log up to line n holds no write that was refused.
AllEffective(n) ==
    \A i \in 2 .. n : \E v \in Value : Yields(Absent, wal, i - 1, wal[i].id, v) /\ Succeeds(v, wal[i])

\* PROGRESS.  A line that is in the log while the flag is set and the loop is
\* waiting reaches every replica, if it and the lines before it were not
\* refused.
FlaggedLinesArrive ==
    \A n \in 1 .. MaxLog :
        (n <= Len(wal) /\ modified /\ Idle("loop") /\ AllEffective(n))
            ~> ((\A r \in Replica : offset[r] >= n) \/ ~Undisturbed)

\* A shutdown that finds the loop's Sync at rest and the network working leaves
\* every replica with what the primary holds before the log is cleared, flag or
\* no flag, if no write of the log was refused (engine.cc, ~Engine).
QuietShutdownSyncs ==
    (phase = "closing" /\ Idle("loop") /\ losses = 0 /\ AllEffective(Len(wal))
        /\ \A c \in Client : stage[c] = "idle")
        ~> (phase = "synced" /\ \A r \in Replica : copy[r] = data)

\* Does not hold (README, known disagreements): without a running Sync, a
\* cleared flag means that no write is waiting to be
\* sent (engine.cc, "Indicate the table has been modified to trigger sync on
\* all replicas").
FlagCoversUnsent ==
    /\ phase = "up" /\ ~modified
    /\ Idle("loop") /\ \A c \in Client : stage[c] = "idle"
    => \A r \in Replica : Unsent(r) = << >>

\* Does not hold (README, Runs).  With a working network, every replica ends up
\* with what the primary held when it cleared the log (engine.cc, "Ensure
\* replicas are all in sync before the WAL is cleared").
InSyncAtClear == phase = "down" /\ Idle("loop") /\ losses = 0 => \A r \in Replica : copy[r] = data

\* Does not hold (README, known disagreements): the flag stays honest with
\* overlapping Syncs too, as long as the log has not been cleared
\* (replica_manager.cc, "Only indicate the modified flag is false if all sync
\* operations are successful").  Both count the lines that either sent, so that
\* the offset passes a line the replica refused.
FlagClearedWhenSentByBoth == [][phase # "down" => \A s \in Syncer : ClearsDelivered(s)]_vars

\* Does not hold (README, known disagreements) when a write is refused: with a
\* working network, every logged line reaches every replica (engine.cc,
\* "Update the WAL ahead of time for durability and replay for primary and
\* replicas").
LoggedLinesArrive ==
    \A n \in 1 .. MaxLog : \A r \in Replica :
        (n <= Len(wal) /\ modified /\ Idle("loop")) ~> (offset[r] >= n \/ ~Undisturbed)

-----------------------------------------------------------------------------
(* An undisturbed primary and its replicas implement StateFollower.        *)

StateAfter(n) == [id \in Id |-> CHOOSE v \in Value : Yields(Absent, wal, n, id, v)]

primaryStates == IF Undisturbed THEN [n \in 1 .. Len(wal) |-> StateAfter(n)] ELSE << >>
positions == [r \in Replica |-> IF Undisturbed THEN Applied(r) ELSE 0]
copies == [r \in Replica |-> IF Undisturbed THEN copy[r] ELSE EmptyMap]

Followed == INSTANCE StateFollower WITH
    Blank <- EmptyMap, history <- primaryStates, position <- positions, copy <- copies

\* Refinement: a replica goes through the primary's states in their order.
ImplementsStateFollower == Followed!Spec
=============================================================================
