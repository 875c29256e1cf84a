------------------------------ MODULE Shutdown ------------------------------
(***************************************************************************)
(* The end of a process: the signal, the gRPC server that waits for its    *)
(* handlers, ~Engine saving one table after the other, and the members     *)
(* destroyed in the reverse order of their declaration, each joining its   *)
(* threads: the cleaner, the replica manager (sync loop of a primary, sync *)
(* server of a replica) and the thread pool.                               *)
(*                                                                         *)
(* A wait on a condition variable is taken apart: the thread finds its     *)
(* predicate false, and later is asleep; it holds the mutex in between.    *)
(* What is sent to the replicas, and what a crash leaves in the files, is  *)
(* the subject of Replication and DurableTable.                            *)
(***************************************************************************)
EXTENDS Naturals, Sequences

CONSTANTS Caller,    \* gRPC handlers
          Worker,    \* threads of the pool
          Table,     \* tables of the engine
          Nothing,   \* no snapshot, no table, nobody
          MaxChanges \* bound: writes per table

ASSUME ConstantsAssumption ==
    /\ Worker # {} /\ Table # {} /\ MaxChanges \in Nat
    /\ Nothing \notin Caller \cup Table

VARIABLES primary,   \* metadata_.primary
          linked,    \* a primary has replicas, a replica has a sync server address
          signalled, \* shutdown of main.cc
          server,    \* the gRPC server: "open", "closing", "closed"
          call,      \* per handler: where it is
          main,      \* the main thread, from Wait to the end of ~Engine
          shutdown_, \* of Engine, read by the cleaner and the replica manager
          left,      \* tables ~Engine has not come to yet
          saving,    \* the table it is saving, or Nothing
          table,     \* per table: writes so far, and whether soft-removed vectors are left
          saved,     \* per table: what its snapshot has, or Nothing
          cleaner,   \* cleanup_thread_: "waits", "scans", "cleans", "ended"
          todo,      \* tables its scan has not come to yet
          cleaning,  \* the table it cleans, or Nothing
          sync,      \* sync_thread_: "waits", "syncs", "serves", "closing", "ended"
          waiter,    \* thread of the sync server that waits for shutdown_
          applying,  \* a handler of the sync server is inside ApplyWALEntry
          worker,    \* per thread of the pool: where it is
          tasks,     \* tasks_: the handlers whose searches are queued
          doing,     \* per thread of the pool: the handler it searches for, or Nothing
          stop,      \* stop_
          missed     \* history: sync_cv_ was notified while the waiter was between check and sleep

process == <<primary, linked, signalled>>
stores == <<table, saved>>
engine == <<main, shutdown_, left, saving>>
background == <<cleaner, todo, cleaning>>
replication == <<sync, waiter, applying, missed>>
pool == <<worker, tasks, doing, stop>>
vars == <<process, server, call, engine, stores, background, replication, pool>>

-----------------------------------------------------------------------------
Init == /\ primary \in BOOLEAN /\ linked \in BOOLEAN
        /\ signalled = FALSE
        /\ server = "open"
        /\ call = [c \in Caller |-> "none"]
        /\ main = "serving" /\ shutdown_ = FALSE
        /\ left = Table /\ saving = Nothing
        /\ table = [t \in Table |-> [changes |-> 0, stale |-> FALSE]]
        /\ saved = [t \in Table |-> Nothing]
        /\ cleaner = "waits" /\ todo = {} /\ cleaning = Nothing
        /\ sync = CASE ~linked -> "ended" [] primary -> "waits" [] OTHER -> "serves"
        /\ waiter = IF linked /\ ~primary THEN "checks" ELSE "ended"
        /\ applying = FALSE
        /\ worker = [w \in Worker |-> "checks"]
        /\ tasks = << >> /\ doing = [w \in Worker |-> Nothing]
        /\ stop = FALSE
        /\ missed = FALSE

\* engine_mutex_ is held exclusively by Cleanup and by ApplyWALEntry, shared
\* by the handlers.
Exclusive == cleaner = "cleans" \/ applying
Free == ~Exclusive /\ \A c \in Caller : call[c] = "none"

\* What Insert or Remove (of one vector) leaves.
Changed(s) == {[changes |-> s.changes + 1, stale |-> b] : b \in {s.stale, TRUE}}

(* main.cc, and the handlers of the gRPC server.                           *)

Signal == /\ ~signalled /\ signalled' = TRUE
          /\ UNCHANGED <<primary, linked, server, call, engine, stores, background, replication, pool>>

\* The thread that polls the flag calls server->Shutdown().
ShutdownServer ==
    /\ signalled /\ server = "open"
    /\ server' = "closing"
    /\ UNCHANGED <<process, call, engine, stores, background, replication, pool>>

BeginCall(c, op) ==
    /\ server = "open"
    /\ call[c] = "none"
    /\ ~Exclusive /\ ~shutdown_
    /\ op = "write" => primary
    /\ call' = [call EXCEPT ![c] = op]
    /\ UNCHANGED <<process, server, engine, stores, background, replication, pool>>

WriteStore(c, t) ==
    /\ call[c] = "write"
    /\ call' = [call EXCEPT ![c] = "answered"]
    /\ table[t].changes < MaxChanges
    /\ \E s \in Changed(table[t]) : table' = [table EXCEPT ![t] = s]
    /\ UNCHANGED <<process, server, engine, saved, background, replication, pool>>

\* The write is refused.
WriteNothing(c) ==
    /\ call[c] = "write"
    /\ call' = [call EXCEPT ![c] = "answered"]
    /\ UNCHANGED <<process, server, engine, stores, background, replication, pool>>

EndCall(c) ==
    /\ call[c] = "answered"
    /\ call' = [call EXCEPT ![c] = "none"]
    /\ UNCHANGED <<process, server, engine, stores, background, replication, pool>>

\* server->Wait() returns when the last handler has.
ServerWait ==
    /\ server = "closing"
    /\ \A c \in Caller : call[c] = "none"
    /\ server' = "closed"
    /\ UNCHANGED <<process, call, engine, stores, background, replication, pool>>

(* The thread pool.                                                        *)

QueueFree == \A w \in Worker : worker[w] # "commits"
Wake(ws) == worker' = [w \in Worker |-> IF w \in ws THEN "checks" ELSE worker[w]]
Sleeping == {w \in Worker : worker[w] = "sleeps"}

EnqueueTask(c) ==
    /\ call[c] = "search"
    /\ QueueFree
    /\ call' = [call EXCEPT ![c] = "queued"]
    /\ tasks' = Append(tasks, c)
    /\ IF Sleeping = {} THEN UNCHANGED worker ELSE \E w \in Sleeping : Wake({w})
    /\ UNCHANGED <<process, server, engine, stores, background, replication, doing, stop>>

\* A worker wakes, looks at the queue with queue_mutex_ held ...
WorkerCheck(w) ==
    /\ worker[w] = "checks" /\ QueueFree
    /\ \/ /\ tasks # << >>
          /\ worker' = [worker EXCEPT ![w] = "runs"]
          /\ doing' = [doing EXCEPT ![w] = Head(tasks)]
          /\ tasks' = Tail(tasks)
       \/ /\ tasks = << >>
          /\ worker' = [worker EXCEPT ![w] = IF stop THEN "ended" ELSE "commits"]
          /\ UNCHANGED <<doing, tasks>>
    /\ UNCHANGED <<process, server, call, engine, stores, background, replication, stop>>

\* ... and goes to sleep, or runs its task.
WorkerSleep(w) ==
    /\ worker[w] = "commits"
    /\ worker' = [worker EXCEPT ![w] = "sleeps"]
    /\ UNCHANGED <<process, server, call, engine, stores, background, replication, tasks, doing, stop>>

\* Mutant: the worker keeps the task it has run.
RunTaskKept(w) ==
    /\ worker[w] = "runs"
    /\ call' = [call EXCEPT ![doing[w]] = "answered"]
    /\ worker' = [worker EXCEPT ![w] = "checks"]
    /\ UNCHANGED <<process, server, engine, stores, background, replication, tasks, doing, stop>>

RunTask(w) ==
    /\ worker[w] = "runs"
    /\ call' = [call EXCEPT ![doing[w]] = "answered"]
    /\ worker' = [worker EXCEPT ![w] = "checks"]
    /\ doing' = [doing EXCEPT ![w] = Nothing]
    /\ UNCHANGED <<process, server, engine, stores, background, replication, tasks, stop>>

(* The cleaner, whose wait_for ends by itself.                             *)

WakeCleaner ==
    /\ cleaner = "waits"
    /\ cleaner' = IF shutdown_ THEN "ended" ELSE "scans"
    /\ todo' = IF shutdown_ THEN {} ELSE Table
    /\ UNCHANGED <<process, server, call, engine, stores, cleaning, replication, pool>>

\* It reads the removed flag of t; to clean it, it waits for the two mutexes.
Visit(t) ==
    /\ cleaner = "scans" /\ cleaning = Nothing
    /\ t \in todo /\ todo' = todo \ {t}
    /\ cleaning' = IF table[t].stale THEN t ELSE Nothing
    /\ UNCHANGED <<process, server, call, engine, stores, cleaner, replication, pool>>

\* Mutant: Cleanup does not look at shutdown_.
BeginCleanupForced ==
    /\ cleaner = "scans" /\ cleaning # Nothing
    /\ Free
    /\ cleaner' = "cleans"
    /\ UNCHANGED <<process, server, call, engine, stores, todo, cleaning, replication, pool>>

\* Cleanup(table, false).
BeginCleanup ==
    /\ cleaner = "scans" /\ cleaning # Nothing
    /\ Free
    /\ IF shutdown_ THEN cleaning' = Nothing /\ UNCHANGED cleaner
                    ELSE cleaner' = "cleans" /\ UNCHANGED cleaning
    /\ UNCHANGED <<process, server, call, engine, stores, todo, replication, pool>>

EndCleanup ==
    /\ cleaner = "cleans"
    /\ table' = [table EXCEPT ![cleaning].stale = FALSE]
    /\ cleaner' = "scans" /\ cleaning' = Nothing
    /\ UNCHANGED <<process, server, call, engine, saved, todo, replication, pool>>

EndScan ==
    /\ cleaner = "scans" /\ cleaning = Nothing /\ todo = {}
    /\ cleaner' = IF shutdown_ THEN "ended" ELSE "waits"
    /\ UNCHANGED <<process, server, call, engine, stores, todo, cleaning, replication, pool>>

(* The sync loop of a primary, whose wait_for ends by itself too.          *)

WakeSync ==
    /\ sync = "waits"
    /\ sync' = IF shutdown_ THEN "ended" ELSE "syncs"
    /\ UNCHANGED <<process, server, call, engine, stores, background, waiter, applying, missed, pool>>

EndSync ==
    /\ sync = "syncs"
    /\ sync' = IF shutdown_ THEN "ended" ELSE "waits"
    /\ UNCHANGED <<process, server, call, engine, stores, background, waiter, applying, missed, pool>>

(* The sync server of a replica.                                           *)

\* ApplyWALEntry of an insert or remove line does not look at shutdown_.
BeginApply ==
    /\ sync = "serves" /\ ~applying
    /\ Free
    /\ applying' = TRUE
    /\ UNCHANGED <<process, server, call, engine, stores, background, sync, waiter, missed, pool>>

EndApply(t) ==
    /\ applying
    /\ applying' = FALSE
    /\ \/ UNCHANGED table
       \/ /\ table[t].changes < MaxChanges
          /\ \E s \in Changed(table[t]) : table' = [table EXCEPT ![t] = s]
    /\ UNCHANGED <<process, server, call, engine, saved, background, sync, waiter, missed, pool>>

\* sync_cv_.wait with a predicate and no time limit.
WaiterCheck ==
    /\ waiter = "checks"
    /\ waiter' = IF shutdown_ THEN "ended" ELSE "commits"
    /\ sync' = IF shutdown_ THEN "closing" ELSE sync
    /\ UNCHANGED <<process, server, call, engine, stores, background, applying, missed, pool>>

WaiterSleep ==
    /\ waiter = "commits"
    /\ waiter' = "sleeps"
    /\ UNCHANGED <<process, server, call, engine, stores, background, sync, applying, missed, pool>>

\* RunReplicaServer: Wait returns, the waiter is joined.
EndServe ==
    /\ sync = "closing" /\ ~applying /\ waiter = "ended"
    /\ sync' = "ended"
    /\ UNCHANGED <<process, server, call, engine, stores, background, waiter, applying, missed, pool>>

\* A wait may end without a notification.
SpuriousWake ==
    \/ /\ waiter = "sleeps" /\ waiter' = "checks"
       /\ UNCHANGED <<process, server, call, engine, stores, background, sync, applying, missed, pool>>
    \/ /\ \E w \in Sleeping : Wake({w})
       /\ UNCHANGED <<process, server, call, engine, stores, background, replication, tasks, doing, stop>>

(* ~Engine.                                                                *)

BeginDestroy ==
    /\ main = "serving" /\ server = "closed"
    /\ main' = "tables"
    /\ shutdown_' = TRUE
    /\ UNCHANGED <<process, server, call, left, saving, stores, background, replication, pool>>

\* Mutant: Cleanup(table, false), which returns at once.
CleanTableUnforced(t) ==
    /\ main = "tables" /\ saving = Nothing /\ t \in left
    /\ Free
    /\ saving' = t /\ left' = left \ {t}
    /\ UNCHANGED <<process, server, call, main, shutdown_, stores, background, replication, pool>>

\* Cleanup(table, true), then Sync(true).
CleanTable(t) ==
    /\ main = "tables" /\ saving = Nothing /\ t \in left
    /\ Free
    /\ table' = [table EXCEPT ![t].stale = FALSE]
    /\ saving' = t /\ left' = left \ {t}
    /\ UNCHANGED <<process, server, call, main, shutdown_, saved, background, replication, pool>>

\* SaveSnapshot, SaveMetadata and ClearWAL, without engine_mutex_.
SaveTable ==
    /\ main = "tables" /\ saving # Nothing
    /\ saved' = [saved EXCEPT ![saving] = table[saving]]
    /\ saving' = Nothing
    /\ UNCHANGED <<process, server, call, main, shutdown_, left, table, background, replication, pool>>

EndTables ==
    /\ main = "tables" /\ saving = Nothing /\ left = {}
    /\ main' = "cleaner"
    /\ UNCHANGED <<process, server, call, shutdown_, left, saving, stores, background, replication, pool>>

\* ~Cleaner: its notification only makes the wait shorter.
JoinCleaner ==
    /\ main = "cleaner" /\ cleaner = "ended"
    /\ main' = "notify"
    /\ UNCHANGED <<process, server, call, shutdown_, left, saving, stores, background, replication, pool>>

\* ~ReplicaManager notifies without sync_mutex_: a thread between its check
\* and its sleep is not reached.
NotifySync ==
    /\ main = "notify"
    /\ main' = "sync"
    /\ waiter' = IF waiter = "sleeps" THEN "checks" ELSE waiter
    /\ missed' = (waiter = "commits")
    /\ UNCHANGED <<process, server, call, shutdown_, left, saving, stores, background, sync, applying, pool>>

\* Mutant: the thread is not joined.
JoinSyncNot ==
    /\ main = "sync"
    /\ main' = "stop"
    /\ UNCHANGED <<process, server, call, shutdown_, left, saving, stores, background, replication, pool>>

JoinSync ==
    /\ main = "sync" /\ sync = "ended"
    /\ main' = "stop"
    /\ UNCHANGED <<process, server, call, shutdown_, left, saving, stores, background, replication, pool>>

\* Mutant: stop_ is set without queue_mutex_.
StopPoolUnlocked ==
    /\ main = "stop"
    /\ main' = "pool"
    /\ stop' = TRUE /\ Wake(Sleeping)
    /\ UNCHANGED <<process, server, call, shutdown_, left, saving, stores, background, replication, tasks, doing>>

\* ~ThreadPool: stop_ under queue_mutex_, then notify_all.
StopPool ==
    /\ main = "stop" /\ QueueFree
    /\ main' = "pool"
    /\ stop' = TRUE /\ Wake(Sleeping)
    /\ UNCHANGED <<process, server, call, shutdown_, left, saving, stores, background, replication, tasks, doing>>

JoinPool ==
    /\ main = "pool" /\ \A w \in Worker : worker[w] = "ended"
    /\ main' = "gone"
    /\ UNCHANGED <<process, server, call, shutdown_, left, saving, stores, background, replication, pool>>

-----------------------------------------------------------------------------
HandlerStep(c) == \/ \E t \in Table : WriteStore(c, t)
                  \/ WriteNothing(c) \/ EnqueueTask(c) \/ EndCall(c)
WorkerStep(w) == WorkerCheck(w) \/ WorkerSleep(w) \/ RunTask(w)
CleanerStep == \/ WakeCleaner \/ (\E t \in Table : Visit(t))
               \/ BeginCleanup \/ EndCleanup \/ EndScan
SyncStep == WakeSync \/ EndSync \/ (\E t \in Table : EndApply(t)) \/ EndServe
WaiterStep == WaiterCheck \/ WaiterSleep
MainStep == \/ ServerWait \/ BeginDestroy
            \/ (\E t \in Table : CleanTable(t)) \/ SaveTable \/ EndTables
            \/ JoinCleaner \/ NotifySync \/ JoinSync \/ StopPool \/ JoinPool

Next == \/ Signal \/ ShutdownServer
        \/ \E c \in Caller, op \in {"write", "search"} : BeginCall(c, op)
        \/ \E c \in Caller : HandlerStep(c)
        \/ \E w \in Worker : WorkerStep(w)
        \/ CleanerStep
        \/ SyncStep \/ BeginApply
        \/ WaiterStep \/ SpuriousWake
        \/ MainStep

Spec == Init /\ [][Next]_vars

\* Every thread runs, and one that waits for a mutex gets it although others
\* take it again and again (SF); no signal has to come, no client has to
\* call, no primary has to send, and a wait need not end spuriously.
FairSpec == /\ Spec
            /\ WF_vars(ShutdownServer) /\ WF_vars(SyncStep) /\ WF_vars(WaiterStep)
            /\ \A c \in Caller : SF_vars(HandlerStep(c))
            /\ \A w \in Worker : SF_vars(WorkerStep(w))
            /\ SF_vars(CleanerStep) /\ SF_vars(MainStep)

-----------------------------------------------------------------------------
(* Properties.                                                             *)

State == [changes : 0 .. MaxChanges, stale : BOOLEAN]

\* Every variable stays in its set; who has no work to do holds none.
TypeOK ==
    /\ {primary, linked, signalled, shutdown_, applying, stop, missed} \subseteq BOOLEAN
    /\ server \in {"open", "closing", "closed"}
    /\ call \in [Caller -> {"none", "write", "search", "queued", "answered"}]
    /\ main \in {"serving", "tables", "cleaner", "notify", "sync", "stop", "pool", "gone"}
    /\ left \subseteq Table /\ saving \in Table \cup {Nothing}
    /\ table \in [Table -> State]
    /\ saved \in [Table -> State \cup {Nothing}]
    /\ cleaner \in {"waits", "scans", "cleans", "ended"}
    /\ todo \subseteq Table /\ cleaning \in Table \cup {Nothing}
    /\ sync \in {"waits", "syncs", "serves", "closing", "ended"}
    /\ waiter \in {"checks", "commits", "sleeps", "ended"}
    /\ worker \in [Worker -> {"checks", "commits", "sleeps", "runs", "ended"}]
    /\ tasks \in Seq(Caller)
    /\ doing \in [Worker -> Caller \cup {Nothing}]
    /\ \A w \in Worker : doing[w] # Nothing <=> worker[w] = "runs"
    /\ cleaner = "cleans" => cleaning # Nothing
    /\ cleaner \in {"waits", "ended"} => cleaning = Nothing /\ todo = {}
    /\ main # "tables" => saving = Nothing

\* SAVED IS FINAL.  What a primary saves is what the table is when the
\* process ends, without soft-removed vectors (engine.cc, "Ensure saved
\* indexes are clean as existing soft removed nodes won't be detected on
\* startup").  A replica's sync server may still change its tables.
SavedIsFinal ==
    primary => \A t \in Table : saved[t] # Nothing => saved[t] = table[t] /\ ~table[t].stale

\* QUIET WHILE SAVED.  ~Engine writes the snapshots without a lock; on a
\* primary no other thread is inside the stores meanwhile, neither a handler
\* nor the cleaner, which may have been waiting for the mutexes.
QuietWhileSaved ==
    primary /\ saving # Nothing => Free

\* MEMBERS OUTLIVE THEIR THREADS.  When the sync thread, the logger and the
\* pool are destroyed, no thread that uses them is left and no search is
\* queued; the stores go when no thread of the engine is left.
MembersOutliveThreads ==
    /\ main \in {"notify", "sync", "stop", "pool", "gone"} => cleaner = "ended"
    /\ main \in {"stop", "pool", "gone"} => sync = "ended" /\ waiter = "ended" /\ ~applying
    /\ main \in {"pool", "gone"} => tasks = << >> /\ \A w \in Worker : doing[w] = Nothing
    /\ main # "serving" => \A c \in Caller : call[c] = "none"
    /\ main = "gone" => \A w \in Worker : worker[w] = "ended"

\* SHUTDOWN ENDS.  A signalled process ends; the exception is a replica whose
\* waiter missed the one notification of ~ReplicaManager.
ShutdownEnds == signalled ~> (main = "gone" \/ missed)
=============================================================================
