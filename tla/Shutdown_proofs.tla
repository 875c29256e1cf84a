-------------------------- MODULE Shutdown_proofs --------------------------
(***************************************************************************)
(* Type correctness of Shutdown, and its safety properties, for any number *)
(* of handlers, workers and tables.                                        *)
(***************************************************************************)
EXTENDS Shutdown, TLAPS

\* A handler whose search is queued or run waits for it, and each search is
\* in one place only.
SearchesPlaced ==
    /\ \A i \in DOMAIN tasks : call[tasks[i]] = "queued"
    /\ \A w \in Worker : doing[w] # Nothing => call[doing[w]] = "queued"
    /\ \A i, j \in DOMAIN tasks : tasks[i] = tasks[j] => i = j
    /\ \A w \in Worker : \A i \in DOMAIN tasks : doing[w] # tasks[i]
    /\ \A w, v \in Worker : doing[w] # Nothing /\ doing[w] = doing[v] => w = v

\* ~Engine runs when the server is closed, and no handler is left then.
ServerFirst ==
    /\ main # "serving" => server = "closed" /\ shutdown_
    /\ server = "closed" => \A c \in Caller : call[c] = "none"

\* The replica's waiter and its handlers run only while the server does.
ServerThreads ==
    /\ waiter # "ended" => sync = "serves"
    /\ applying => sync \in {"serves", "closing"}
    /\ primary => sync \in {"waits", "syncs", "ended"}

\* What ~Engine saves is clean, and no cleanup is under way any more.
SavingClean ==
    /\ main = "serving" => saving = Nothing /\ \A t \in Table : saved[t] = Nothing
    /\ saving # Nothing => cleaner # "cleans"
    /\ saving # Nothing /\ primary => ~table[saving].stale
    /\ \A t \in Table : saved[t] # Nothing => cleaner # "cleans"

IInv == /\ TypeOK
        /\ SearchesPlaced /\ ServerFirst /\ ServerThreads /\ SavingClean
        /\ SavedIsFinal
        /\ MembersOutliveThreads

-----------------------------------------------------------------------------
\* A write that is within the bound leaves a table state.
LEMMA ChangedState ==
    ASSUME NEW x \in State, x.changes < MaxChanges, NEW s \in Changed(x)
    PROVE  s \in State
<1>1. PICK b \in {x.stale, TRUE} : s = [changes |-> x.changes + 1, stale |-> b]
  BY DEF Changed
<1>2. x.changes + 1 \in 0 .. MaxChanges
  BY ConstantsAssumption DEF State, ConstantsAssumption
<1>3. b \in BOOLEAN
  BY DEF State
<1> QED BY <1>1, <1>2, <1>3 DEF State

\* So does a cleanup.
LEMMA CleanedState ==
    ASSUME NEW x \in State
    PROVE  [x EXCEPT !.stale = FALSE] \in State
BY DEF State

\* Every step keeps every variable in its set.
LEMMA TypeStep ==
    ASSUME TypeOK, [Next]_vars
    PROVE  TypeOK'
<1>1. CASE Signal
  BY ConstantsAssumption, <1>1 DEF Signal, TypeOK, ConstantsAssumption, vars,
      process, engine, stores, background, replication, pool
<1>2. CASE ShutdownServer
  BY ConstantsAssumption, <1>2 DEF ShutdownServer, TypeOK,
      ConstantsAssumption, vars, process, engine, stores, background,
      replication, pool
<1>3. ASSUME NEW c \in Caller, NEW op \in {"write", "search"},
    BeginCall(c, op) PROVE TypeOK'
  BY ConstantsAssumption, <1>3 DEF BeginCall, Exclusive, TypeOK,
      ConstantsAssumption, vars, process, engine, stores, background,
      replication, pool
<1>4. ASSUME NEW c \in Caller, NEW t \in Table, WriteStore(c, t) PROVE TypeOK'
  <2>1. PICK s \in Changed(table[t]) : table' = [table EXCEPT ![t] = s]
    BY <1>4 DEF WriteStore
  <2>2. table[t] \in State /\ table[t].changes < MaxChanges
    BY <1>4 DEF WriteStore, TypeOK
  <2>3. s \in State
    BY <2>1, <2>2, ChangedState
  <2>4. table' \in [Table -> State]
    BY <2>1, <2>3 DEF TypeOK
  <2> QED
    BY <1>4, <2>4 DEF WriteStore, TypeOK, process, engine, background, replication, pool
<1>5. ASSUME NEW c \in Caller, WriteNothing(c) PROVE TypeOK'
  BY ConstantsAssumption, <1>5 DEF WriteNothing, TypeOK, ConstantsAssumption,
      vars, process, engine, stores, background, replication, pool
<1>6. ASSUME NEW c \in Caller, EnqueueTask(c) PROVE TypeOK'
  BY ConstantsAssumption, <1>6 DEF EnqueueTask, QueueFree, Sleeping, Wake,
      TypeOK, ConstantsAssumption, vars, process, engine, stores, background,
      replication, pool
<1>7. ASSUME NEW c \in Caller, EndCall(c) PROVE TypeOK'
  BY ConstantsAssumption, <1>7 DEF EndCall, TypeOK, ConstantsAssumption, vars,
      process, engine, stores, background, replication, pool
<1>8. ASSUME NEW w \in Worker, WorkerCheck(w) PROVE TypeOK'
  <2>1. CASE tasks # << >> /\ tasks' = Tail(tasks)
    <3>1. Head(tasks) \in Caller /\ Tail(tasks) \in Seq(Caller)
      BY <2>1 DEF TypeOK
    <3>2. /\ worker' = [worker EXCEPT ![w] = "runs"]
          /\ doing' = [doing EXCEPT ![w] = Head(tasks)]
      BY <1>8, <2>1 DEF WorkerCheck
    <3>3. (/\ doing \in [Worker -> Caller \cup {Nothing}]
           /\ worker \in [Worker -> {"checks", "commits", "sleeps", "runs", "ended"}]
           /\ \A v \in Worker : doing[v] # Nothing <=> worker[v] = "runs")'
      BY <3>1, <3>2, ConstantsAssumption DEF TypeOK, ConstantsAssumption
    <3>4. UNCHANGED <<process, server, call, engine, stores, background, replication, stop>>
      BY <1>8 DEF WorkerCheck
    <3> QED
      BY <2>1, <3>1, <3>3, <3>4 DEF TypeOK, process, engine, stores, background, replication
  <2>2. CASE tasks = << >>
    BY <1>8, <2>2
    DEF WorkerCheck, TypeOK, process, engine, stores, background, replication
  <2> QED BY <1>8, <2>1, <2>2 DEF WorkerCheck
<1>9. ASSUME NEW w \in Worker, WorkerSleep(w) PROVE TypeOK'
  BY ConstantsAssumption, <1>9 DEF WorkerSleep, TypeOK, ConstantsAssumption,
      vars, process, engine, stores, background, replication, pool
<1>10. ASSUME NEW w \in Worker, RunTask(w) PROVE TypeOK'
  BY ConstantsAssumption, <1>10 DEF RunTask, TypeOK, ConstantsAssumption,
      vars, process, engine, stores, background, replication, pool
<1>11. CASE WakeCleaner
  BY ConstantsAssumption, <1>11 DEF WakeCleaner, TypeOK, ConstantsAssumption,
      vars, process, engine, stores, background, replication, pool
<1>12. ASSUME NEW t \in Table, Visit(t) PROVE TypeOK'
  BY ConstantsAssumption, <1>12 DEF Visit, TypeOK, ConstantsAssumption, vars,
      process, engine, stores, background, replication, pool
<1>13. CASE BeginCleanup
  BY ConstantsAssumption, <1>13 DEF BeginCleanup, Free, Exclusive, TypeOK,
      ConstantsAssumption, vars, process, engine, stores, background,
      replication, pool
<1>14. CASE EndCleanup
  <2>1. cleaning \in Table
    BY <1>14 DEF EndCleanup, TypeOK
  <2>2. [table[cleaning] EXCEPT !.stale = FALSE] \in State
    BY <2>1, CleanedState DEF TypeOK
  <2>3. table' = [table EXCEPT ![cleaning] = [table[cleaning] EXCEPT !.stale = FALSE]]
    BY <1>14 DEF EndCleanup
  <2>4. table' \in [Table -> State]
    BY <2>1, <2>2, <2>3 DEF TypeOK
  <2>5. UNCHANGED <<process, server, call, engine, saved, todo, replication, pool>>
    BY <1>14 DEF EndCleanup
  <2>6. cleaner = "cleans" /\ cleaner' = "scans" /\ cleaning' = Nothing
    BY <1>14 DEF EndCleanup
  <2> QED
    BY <2>1, <2>4, <2>5, <2>6
    DEF TypeOK, process, engine, background, replication, pool
<1>15. CASE EndScan
  BY ConstantsAssumption, <1>15 DEF EndScan, TypeOK, ConstantsAssumption,
      vars, process, engine, stores, background, replication, pool
<1>16. CASE WakeSync
  BY ConstantsAssumption, <1>16 DEF WakeSync, TypeOK, ConstantsAssumption,
      vars, process, engine, stores, background, replication, pool
<1>17. CASE EndSync
  BY ConstantsAssumption, <1>17 DEF EndSync, TypeOK, ConstantsAssumption,
      vars, process, engine, stores, background, replication, pool
<1>18. ASSUME NEW t \in Table, EndApply(t) PROVE TypeOK'
  <2>1. table' \in [Table -> State]
    <3>1. CASE UNCHANGED table
      BY <3>1 DEF TypeOK
    <3>2. ASSUME table[t].changes < MaxChanges,
                 NEW s \in Changed(table[t]), table' = [table EXCEPT ![t] = s]
          PROVE  table' \in [Table -> State]
      <4>1. table[t] \in State
        BY DEF TypeOK
      <4>2. s \in State
        BY <3>2, <4>1, ChangedState
      <4> QED BY <3>2, <4>2 DEF TypeOK
    <3> QED BY <1>18, <3>1, <3>2 DEF EndApply
  <2>2. applying' = FALSE
        /\ UNCHANGED <<process, server, call, engine, saved, background, sync, waiter, missed, pool>>
    BY <1>18 DEF EndApply
  <2>3. /\ UNCHANGED <<primary, linked, signalled, server, call, main, shutdown_, left>>
        /\ UNCHANGED <<saving, saved, cleaner, todo, cleaning, sync, waiter, missed>>
        /\ UNCHANGED <<worker, tasks, doing, stop>>
    BY <2>2 DEF process, engine, background, pool
  <2> QED
    <3>1. {primary, linked, signalled, shutdown_, applying, stop, missed}' \subseteq BOOLEAN
      BY <2>2, <2>3 DEF TypeOK
    <3>2. (/\ doing \in [Worker -> Caller \cup {Nothing}]
           /\ \A w \in Worker : doing[w] # Nothing <=> worker[w] = "runs")'
      BY <2>3 DEF TypeOK
    <3>3. (saved \in [Table -> State \cup {Nothing}])'
      BY <2>3 DEF TypeOK
    <3> QED BY <2>1, <2>3, <3>1, <3>2, <3>3 DEF TypeOK
<1>19. CASE EndServe
  BY ConstantsAssumption, <1>19 DEF EndServe, TypeOK, ConstantsAssumption,
      vars, process, engine, stores, background, replication, pool
<1>20. CASE BeginApply
  BY ConstantsAssumption, <1>20 DEF BeginApply, Free, Exclusive, TypeOK,
      ConstantsAssumption, vars, process, engine, stores, background,
      replication, pool
<1>21. CASE WaiterCheck
  BY ConstantsAssumption, <1>21 DEF WaiterCheck, TypeOK, ConstantsAssumption,
      vars, process, engine, stores, background, replication, pool
<1>22. CASE WaiterSleep
  BY ConstantsAssumption, <1>22 DEF WaiterSleep, TypeOK, ConstantsAssumption,
      vars, process, engine, stores, background, replication, pool
<1>23. CASE SpuriousWake
  BY ConstantsAssumption, <1>23 DEF SpuriousWake, Sleeping, Wake, TypeOK,
      ConstantsAssumption, vars, process, engine, stores, background,
      replication, pool
<1>24. CASE ServerWait
  BY ConstantsAssumption, <1>24 DEF ServerWait, TypeOK, ConstantsAssumption,
      vars, process, engine, stores, background, replication, pool
<1>25. CASE BeginDestroy
  BY ConstantsAssumption, <1>25 DEF BeginDestroy, TypeOK, ConstantsAssumption,
      vars, process, engine, stores, background, replication, pool
<1>26. ASSUME NEW t \in Table, CleanTable(t) PROVE TypeOK'
  <2>1. t \in Table
    OBVIOUS
  <2>2. [table[t] EXCEPT !.stale = FALSE] \in State
    BY <2>1, CleanedState DEF TypeOK
  <2>3. table' = [table EXCEPT ![t] = [table[t] EXCEPT !.stale = FALSE]]
    BY <1>26 DEF CleanTable
  <2>4. table' \in [Table -> State]
    BY <2>1, <2>2, <2>3 DEF TypeOK
  <2>5. UNCHANGED <<process, server, call, main, shutdown_, saved, background, replication, pool>>
    BY <1>26 DEF CleanTable
  <2>6. main = "tables" /\ saving' = t /\ left' = left \ {t}
    BY <1>26 DEF CleanTable
  <2> QED
    BY <2>1, <2>4, <2>5, <2>6
    DEF TypeOK, process, engine, background, replication, pool
<1>27. CASE SaveTable
  BY ConstantsAssumption, <1>27 DEF SaveTable, TypeOK, ConstantsAssumption,
      vars, process, engine, stores, background, replication, pool
<1>28. CASE EndTables
  BY ConstantsAssumption, <1>28 DEF EndTables, TypeOK, ConstantsAssumption,
      vars, process, engine, stores, background, replication, pool
<1>29. CASE JoinCleaner
  BY ConstantsAssumption, <1>29 DEF JoinCleaner, TypeOK, ConstantsAssumption,
      vars, process, engine, stores, background, replication, pool
<1>30. CASE NotifySync
  BY ConstantsAssumption, <1>30 DEF NotifySync, TypeOK, ConstantsAssumption,
      vars, process, engine, stores, background, replication, pool
<1>31. CASE JoinSync
  BY ConstantsAssumption, <1>31 DEF JoinSync, TypeOK, ConstantsAssumption,
      vars, process, engine, stores, background, replication, pool
<1>32. CASE StopPool
  BY ConstantsAssumption, <1>32 DEF StopPool, QueueFree, Sleeping, Wake,
      TypeOK, ConstantsAssumption, vars, process, engine, stores, background,
      replication, pool
<1>33. CASE JoinPool
  BY ConstantsAssumption, <1>33 DEF JoinPool, TypeOK, ConstantsAssumption,
      vars, process, engine, stores, background, replication, pool
<1>34. CASE UNCHANGED vars
  BY <1>34 DEF TypeOK, vars, process, engine, stores, background, replication, pool
<1> QED BY <1>1, <1>2, <1>3, <1>4, <1>5, <1>6, <1>7, <1>8, <1>9, <1>10, <1>11,
    <1>12, <1>13, <1>14, <1>15, <1>16, <1>17, <1>18, <1>19, <1>20, <1>21,
    <1>22, <1>23, <1>24, <1>25, <1>26, <1>27, <1>28, <1>29, <1>30, <1>31,
    <1>32, <1>33, <1>34
  DEF Next, HandlerStep, WorkerStep, CleanerStep, SyncStep, WaiterStep,
      MainStep, vars, process, engine, stores, background, replication, pool

\* Handler, queue and worker hand a search over without doubling it.
LEMMA PlacesStep ==
    ASSUME TypeOK, SearchesPlaced, [Next]_vars
    PROVE  SearchesPlaced'
<1>1. ASSUME NEW c \in Caller, NEW op \in {"write", "search"},
    BeginCall(c, op) PROVE SearchesPlaced'
  BY <1>1 DEF BeginCall, Exclusive, TypeOK, SearchesPlaced, vars, process,
      engine, stores, background, replication, pool
<1>2. ASSUME NEW c \in Caller, NEW t \in Table, WriteStore(c, t) PROVE SearchesPlaced'
  BY <1>2 DEF WriteStore, Changed, State, TypeOK, SearchesPlaced, vars,
      process, engine, stores, background, replication, pool
<1>3. ASSUME NEW c \in Caller, WriteNothing(c) PROVE SearchesPlaced'
  BY <1>3 DEF WriteNothing, TypeOK, SearchesPlaced, vars, process, engine,
      stores, background, replication, pool
<1>4. ASSUME NEW c \in Caller, EnqueueTask(c) PROVE SearchesPlaced'
  <2>1. /\ tasks \in Seq(Caller) /\ tasks' = Append(tasks, c)
        /\ call[c] = "search" /\ call' = [call EXCEPT ![c] = "queued"]
        /\ doing' = doing
    BY <1>4 DEF EnqueueTask, TypeOK
  <2>2. /\ DOMAIN tasks' = DOMAIN tasks \cup {Len(tasks) + 1}
        /\ \A i \in DOMAIN tasks : tasks'[i] = tasks[i] /\ tasks[i] # c
        /\ tasks'[Len(tasks) + 1] = c
    BY <2>1 DEF SearchesPlaced
  <2>3. \A w \in Worker : doing[w] # Nothing => doing[w] # c
    BY <2>1 DEF SearchesPlaced
  <2>4. /\ \A i \in DOMAIN tasks' : call'[tasks'[i]] = "queued"
        /\ \A i, j \in DOMAIN tasks' : tasks'[i] = tasks'[j] => i = j
    BY <2>1, <2>2 DEF SearchesPlaced, TypeOK
  <2>5. c # Nothing
    BY ConstantsAssumption DEF ConstantsAssumption
  <2>6. \A w \in Worker : doing[w] # c
    BY <2>3, <2>5
  <2> QED BY <2>1, <2>2, <2>4, <2>6 DEF SearchesPlaced, TypeOK
<1>5. ASSUME NEW c \in Caller, EndCall(c) PROVE SearchesPlaced'
  BY <1>5 DEF EndCall, TypeOK, SearchesPlaced, vars, process, engine, stores,
      background, replication, pool
<1>6. ASSUME NEW w \in Worker, WorkerCheck(w) PROVE SearchesPlaced'
  <2>1. CASE tasks # << >> /\ tasks' = Tail(tasks) /\ doing' = [doing EXCEPT ![w] = Head(tasks)]
    <3>1. tasks \in Seq(Caller) /\ call' = call
      BY <1>6 DEF WorkerCheck, TypeOK
    <3>2. /\ 1 \in DOMAIN tasks /\ Head(tasks) = tasks[1]
          /\ \A i \in DOMAIN tasks' : /\ i \in Nat /\ i # 0 /\ i + 1 \in DOMAIN tasks
                                     /\ i + 1 # 1 /\ tasks'[i] = tasks[i + 1]
      BY <2>1, <3>1
    <3>3. \A i \in DOMAIN tasks' : call'[tasks'[i]] = "queued" /\ tasks'[i] # Head(tasks)
      BY <3>1, <3>2 DEF SearchesPlaced
    <3>4. \A i, j \in DOMAIN tasks' : tasks'[i] = tasks'[j] => i = j
      <4> SUFFICES ASSUME NEW i \in DOMAIN tasks', NEW j \in DOMAIN tasks', tasks'[i] = tasks'[j]
                   PROVE  i = j
        OBVIOUS
      <4>1. i + 1 = j + 1
        BY <3>2 DEF SearchesPlaced
      <4> QED BY <4>1, <3>2
    <3>5. \A v \in Worker : doing'[v] = IF v = w THEN tasks[1] ELSE doing[v]
      BY <2>1, <3>2 DEF TypeOK
    <3>6. \A v \in Worker : doing[v] # tasks[1]
      BY <3>2 DEF SearchesPlaced
    <3>7. \A v \in Worker : \A i \in DOMAIN tasks' : doing'[v] # tasks'[i]
      BY <3>2, <3>3, <3>5 DEF SearchesPlaced
    <3>8. \A v \in Worker : doing'[v] # Nothing => call'[doing'[v]] = "queued"
      BY <3>1, <3>2, <3>5 DEF SearchesPlaced
    <3>9. \A u, v \in Worker : doing'[u] # Nothing /\ doing'[u] = doing'[v] => u = v
      BY <3>5, <3>6 DEF SearchesPlaced
    <3> QED BY <3>3, <3>4, <3>7, <3>8, <3>9 DEF SearchesPlaced
  <2>2. CASE UNCHANGED <<doing, tasks>>
    BY <1>6, <2>2 DEF WorkerCheck, SearchesPlaced
  <2> QED BY <1>6, <2>1, <2>2 DEF WorkerCheck
<1>7. ASSUME NEW w \in Worker, RunTask(w) PROVE SearchesPlaced'
  <2>1. /\ doing[w] \in Caller /\ doing[w] # Nothing
        /\ call' = [call EXCEPT ![doing[w]] = "answered"]
        /\ doing' = [doing EXCEPT ![w] = Nothing] /\ tasks' = tasks
    BY <1>7 DEF RunTask, TypeOK
  <2>2. \A c \in Caller : c # doing[w] => call'[c] = call[c]
    BY <2>1 DEF TypeOK
  <2>3. \A v \in Worker : doing'[v] = IF v = w THEN Nothing ELSE doing[v]
    BY <2>1 DEF TypeOK
  <2>4. \A i \in DOMAIN tasks : tasks[i] \in Caller /\ tasks[i] # Nothing
    BY ConstantsAssumption DEF TypeOK, ConstantsAssumption
  <2>5. \A i \in DOMAIN tasks' : call'[tasks'[i]] = "queued"
    BY <2>1, <2>2, <2>4 DEF SearchesPlaced
  <2>6. \A v \in Worker : doing'[v] # Nothing => call'[doing'[v]] = "queued"
    BY <2>1, <2>2, <2>3 DEF SearchesPlaced, TypeOK
  <2> QED BY <2>1, <2>3, <2>4, <2>5, <2>6 DEF SearchesPlaced
<1>8. CASE UNCHANGED <<call, tasks, doing>>
  BY <1>8 DEF TypeOK, SearchesPlaced
<1>9. ASSUME \/ Signal \/ ShutdownServer \/ (\E w \in Worker : WorkerSleep(w))
             \/ WakeCleaner \/ (\E t \in Table : Visit(t)) \/ BeginCleanup
             \/ EndCleanup \/ EndScan \/ WakeSync \/ EndSync
             \/ (\E t \in Table : EndApply(t)) \/ EndServe \/ BeginApply
             \/ WaiterCheck \/ WaiterSleep \/ SpuriousWake \/ ServerWait
             \/ BeginDestroy \/ (\E t \in Table : CleanTable(t)) \/ SaveTable
             \/ EndTables \/ JoinCleaner \/ NotifySync \/ JoinSync \/ StopPool
             \/ JoinPool \/ UNCHANGED vars
      PROVE  UNCHANGED <<call, tasks, doing>>
  BY <1>9 DEF Signal, ShutdownServer, WorkerSleep, WakeCleaner, Visit,
      BeginCleanup, EndCleanup, EndScan, WakeSync, EndSync, EndApply,
      EndServe, BeginApply, WaiterCheck, WaiterSleep, SpuriousWake, Wake,
      ServerWait, BeginDestroy, CleanTable, SaveTable, EndTables, JoinCleaner,
      NotifySync, JoinSync, StopPool, JoinPool, vars, process, engine, stores,
      background, replication, pool
<1> QED BY <1>1, <1>2, <1>3, <1>4, <1>5, <1>6, <1>7, <1>8, <1>9
  DEF Next, HandlerStep, WorkerStep, CleanerStep, SyncStep, WaiterStep,
      MainStep

\* No handler begins in a closed server, and the pool answers no other ones.
LEMMA ServerStep ==
    ASSUME TypeOK, SearchesPlaced, ServerFirst, [Next]_vars
    PROVE  ServerFirst'
<1>1. CASE ShutdownServer
  BY <1>1 DEF ShutdownServer, TypeOK, SearchesPlaced, ServerFirst, vars,
      process, engine, stores, background, replication, pool
<1>2. ASSUME NEW c \in Caller, NEW op \in {"write", "search"},
    BeginCall(c, op) PROVE ServerFirst'
  BY <1>2 DEF BeginCall, Exclusive, TypeOK, SearchesPlaced, ServerFirst, vars,
      process, engine, stores, background, replication, pool
<1>3. ASSUME NEW c \in Caller, NEW t \in Table, WriteStore(c, t) PROVE ServerFirst'
  BY <1>3 DEF WriteStore, Changed, State, TypeOK, SearchesPlaced, ServerFirst,
      vars, process, engine, stores, background, replication, pool
<1>4. ASSUME NEW c \in Caller, WriteNothing(c) PROVE ServerFirst'
  BY <1>4 DEF WriteNothing, TypeOK, SearchesPlaced, ServerFirst, vars,
      process, engine, stores, background, replication, pool
<1>5. ASSUME NEW c \in Caller, EnqueueTask(c) PROVE ServerFirst'
  BY <1>5 DEF EnqueueTask, QueueFree, Sleeping, Wake, TypeOK, SearchesPlaced,
      ServerFirst, vars, process, engine, stores, background, replication,
      pool
<1>6. ASSUME NEW c \in Caller, EndCall(c) PROVE ServerFirst'
  BY <1>6 DEF EndCall, TypeOK, SearchesPlaced, ServerFirst, vars, process,
      engine, stores, background, replication, pool
<1>7. ASSUME NEW w \in Worker, WorkerCheck(w) PROVE ServerFirst'
  BY <1>7 DEF WorkerCheck, QueueFree, TypeOK, SearchesPlaced, ServerFirst,
      vars, process, engine, stores, background, replication, pool
<1>8. ASSUME NEW w \in Worker, RunTask(w) PROVE ServerFirst'
  BY <1>8 DEF RunTask, TypeOK, SearchesPlaced, ServerFirst, vars, process,
      engine, stores, background, replication, pool
<1>9. CASE ServerWait
  BY <1>9 DEF ServerWait, TypeOK, SearchesPlaced, ServerFirst, vars, process,
      engine, stores, background, replication, pool
<1>10. CASE BeginDestroy
  BY <1>10 DEF BeginDestroy, TypeOK, SearchesPlaced, ServerFirst, vars,
      process, engine, stores, background, replication, pool
<1>11. CASE EndTables
  BY <1>11 DEF EndTables, TypeOK, SearchesPlaced, ServerFirst, vars, process,
      engine, stores, background, replication, pool
<1>12. CASE JoinCleaner
  BY <1>12 DEF JoinCleaner, TypeOK, SearchesPlaced, ServerFirst, vars,
      process, engine, stores, background, replication, pool
<1>13. CASE NotifySync
  BY <1>13 DEF NotifySync, TypeOK, SearchesPlaced, ServerFirst, vars, process,
      engine, stores, background, replication, pool
<1>14. CASE JoinSync
  BY <1>14 DEF JoinSync, TypeOK, SearchesPlaced, ServerFirst, vars, process,
      engine, stores, background, replication, pool
<1>15. CASE StopPool
  BY <1>15 DEF StopPool, QueueFree, Sleeping, Wake, TypeOK, SearchesPlaced,
      ServerFirst, vars, process, engine, stores, background, replication,
      pool
<1>16. CASE JoinPool
  BY <1>16 DEF JoinPool, TypeOK, SearchesPlaced, ServerFirst, vars, process,
      engine, stores, background, replication, pool
<1>17. CASE UNCHANGED <<server, call, main, shutdown_>>
  BY <1>17 DEF TypeOK, SearchesPlaced, ServerFirst
<1>18. ASSUME \/ Signal \/ (\E w \in Worker : WorkerSleep(w)) \/ WakeCleaner
              \/ (\E t \in Table : Visit(t)) \/ BeginCleanup \/ EndCleanup
              \/ EndScan \/ WakeSync \/ EndSync
              \/ (\E t \in Table : EndApply(t)) \/ EndServe \/ BeginApply
              \/ WaiterCheck \/ WaiterSleep \/ SpuriousWake
              \/ (\E t \in Table : CleanTable(t)) \/ SaveTable
              \/ UNCHANGED vars
      PROVE  UNCHANGED <<server, call, main, shutdown_>>
  BY <1>18 DEF Signal, WorkerSleep, WakeCleaner, Visit, BeginCleanup,
      EndCleanup, EndScan, WakeSync, EndSync, EndApply, EndServe, BeginApply,
      WaiterCheck, WaiterSleep, SpuriousWake, Wake, CleanTable, SaveTable,
      vars, process, engine, stores, background, replication, pool
<1> QED BY <1>1, <1>2, <1>3, <1>4, <1>5, <1>6, <1>7, <1>8, <1>9, <1>10, <1>11,
    <1>12, <1>13, <1>14, <1>15, <1>16, <1>17, <1>18
  DEF Next, HandlerStep, WorkerStep, CleanerStep, SyncStep, WaiterStep,
      MainStep

\* A replica's waiter ends, then its server, then its sync thread.
LEMMA ThreadsStep ==
    ASSUME TypeOK, ServerThreads, [Next]_vars
    PROVE  ServerThreads'
<1>1. CASE WakeSync
  BY <1>1 DEF WakeSync, TypeOK, ServerThreads, vars, process, engine, stores,
      background, replication, pool
<1>2. CASE EndSync
  BY <1>2 DEF EndSync, TypeOK, ServerThreads, vars, process, engine, stores,
      background, replication, pool
<1>3. ASSUME NEW t \in Table, EndApply(t) PROVE ServerThreads'
  BY <1>3 DEF EndApply, Changed, State, TypeOK, ServerThreads, vars, process,
      engine, stores, background, replication, pool
<1>4. CASE EndServe
  BY <1>4 DEF EndServe, TypeOK, ServerThreads, vars, process, engine, stores,
      background, replication, pool
<1>5. CASE BeginApply
  BY <1>5 DEF BeginApply, Free, Exclusive, TypeOK, ServerThreads, vars,
      process, engine, stores, background, replication, pool
<1>6. CASE WaiterCheck
  BY <1>6 DEF WaiterCheck, TypeOK, ServerThreads, vars, process, engine,
      stores, background, replication, pool
<1>7. CASE WaiterSleep
  BY <1>7 DEF WaiterSleep, TypeOK, ServerThreads, vars, process, engine,
      stores, background, replication, pool
<1>8. CASE SpuriousWake
  BY <1>8 DEF SpuriousWake, Sleeping, Wake, TypeOK, ServerThreads, vars,
      process, engine, stores, background, replication, pool
<1>9. CASE NotifySync
  BY <1>9 DEF NotifySync, TypeOK, ServerThreads, vars, process, engine,
      stores, background, replication, pool
<1>10. CASE UNCHANGED <<primary, sync, waiter, applying>>
  BY <1>10 DEF TypeOK, ServerThreads
<1>11. ASSUME \/ Signal \/ ShutdownServer
              \/ (\E c \in Caller, op \in {"write", "search"} : BeginCall(c, op))
              \/ (\E c \in Caller, t \in Table : WriteStore(c, t))
              \/ (\E c \in Caller : WriteNothing(c))
              \/ (\E c \in Caller : EnqueueTask(c))
              \/ (\E c \in Caller : EndCall(c))
              \/ (\E w \in Worker : WorkerCheck(w))
              \/ (\E w \in Worker : WorkerSleep(w))
              \/ (\E w \in Worker : RunTask(w)) \/ WakeCleaner
              \/ (\E t \in Table : Visit(t)) \/ BeginCleanup \/ EndCleanup
              \/ EndScan \/ ServerWait \/ BeginDestroy
              \/ (\E t \in Table : CleanTable(t)) \/ SaveTable \/ EndTables
              \/ JoinCleaner \/ JoinSync \/ StopPool \/ JoinPool
              \/ UNCHANGED vars
      PROVE  UNCHANGED <<primary, sync, waiter, applying>>
  BY <1>11 DEF Signal, ShutdownServer, BeginCall, WriteStore, WriteNothing,
      EnqueueTask, Wake, EndCall, WorkerCheck, WorkerSleep, RunTask,
      WakeCleaner, Visit, BeginCleanup, EndCleanup, EndScan, ServerWait,
      BeginDestroy, CleanTable, SaveTable, EndTables, JoinCleaner, JoinSync,
      StopPool, JoinPool, vars, process, engine, stores, background,
      replication, pool
<1> QED BY <1>1, <1>2, <1>3, <1>4, <1>5, <1>6, <1>7, <1>8, <1>9, <1>10, <1>11
  DEF Next, HandlerStep, WorkerStep, CleanerStep, SyncStep, WaiterStep,
      MainStep

\* Once ~Engine has the mutexes for its first table, no cleanup begins; what
\* it has cleaned stays clean, for nobody writes.
LEMMA CleanStep ==
    ASSUME TypeOK, ServerFirst, ServerThreads, SavingClean, [Next]_vars
    PROVE  SavingClean'
<1>1. ASSUME NEW c \in Caller, NEW t \in Table, WriteStore(c, t) PROVE SavingClean'
  BY <1>1 DEF WriteStore, Changed, State, TypeOK, ServerFirst, ServerThreads,
      SavingClean, vars, process, engine, stores, background, replication,
      pool
<1>2. CASE BeginCleanup
  BY <1>2 DEF BeginCleanup, Free, Exclusive, TypeOK, ServerFirst,
      ServerThreads, SavingClean, vars, process, engine, stores, background,
      replication, pool
<1>3. CASE EndCleanup
  BY <1>3 DEF EndCleanup, State, TypeOK, ServerFirst, ServerThreads,
      SavingClean, vars, process, engine, stores, background, replication,
      pool
<1>4. ASSUME NEW t \in Table, EndApply(t) PROVE SavingClean'
  BY <1>4 DEF EndApply, Changed, State, TypeOK, ServerFirst, ServerThreads,
      SavingClean, vars, process, engine, stores, background, replication,
      pool
<1>5. CASE WakeCleaner
  BY <1>5 DEF WakeCleaner, TypeOK, ServerFirst, ServerThreads, SavingClean,
      vars, process, engine, stores, background, replication, pool
<1>6. CASE EndScan
  BY <1>6 DEF EndScan, TypeOK, ServerFirst, ServerThreads, SavingClean, vars,
      process, engine, stores, background, replication, pool
<1>7. CASE BeginDestroy
  BY <1>7 DEF BeginDestroy, TypeOK, ServerFirst, ServerThreads, SavingClean,
      vars, process, engine, stores, background, replication, pool
<1>8. ASSUME NEW t \in Table, CleanTable(t) PROVE SavingClean'
  BY <1>8 DEF CleanTable, Free, Exclusive, State, TypeOK, ServerFirst,
      ServerThreads, SavingClean, vars, process, engine, stores, background,
      replication, pool
<1>9. CASE SaveTable
  BY <1>9 DEF SaveTable, TypeOK, ServerFirst, ServerThreads, SavingClean,
      vars, process, engine, stores, background, replication, pool
<1>10. CASE EndTables
  BY <1>10 DEF EndTables, TypeOK, ServerFirst, ServerThreads, SavingClean,
      vars, process, engine, stores, background, replication, pool
<1>11. CASE JoinCleaner
  BY <1>11 DEF JoinCleaner, TypeOK, ServerFirst, ServerThreads, SavingClean,
      vars, process, engine, stores, background, replication, pool
<1>12. CASE NotifySync
  BY <1>12 DEF NotifySync, TypeOK, ServerFirst, ServerThreads, SavingClean,
      vars, process, engine, stores, background, replication, pool
<1>13. CASE JoinSync
  BY <1>13 DEF JoinSync, TypeOK, ServerFirst, ServerThreads, SavingClean,
      vars, process, engine, stores, background, replication, pool
<1>14. CASE StopPool
  BY <1>14 DEF StopPool, QueueFree, Sleeping, Wake, TypeOK, ServerFirst,
      ServerThreads, SavingClean, vars, process, engine, stores, background,
      replication, pool
<1>15. CASE JoinPool
  BY <1>15 DEF JoinPool, TypeOK, ServerFirst, ServerThreads, SavingClean,
      vars, process, engine, stores, background, replication, pool
<1>16. CASE UNCHANGED <<primary, main, saving, saved, cleaner, table>>
  BY <1>16 DEF TypeOK, ServerFirst, ServerThreads, SavingClean
<1>17. ASSUME \/ Signal \/ ShutdownServer
              \/ (\E c \in Caller, op \in {"write", "search"} : BeginCall(c, op))
              \/ (\E c \in Caller : WriteNothing(c))
              \/ (\E c \in Caller : EnqueueTask(c))
              \/ (\E c \in Caller : EndCall(c))
              \/ (\E w \in Worker : WorkerCheck(w))
              \/ (\E w \in Worker : WorkerSleep(w))
              \/ (\E w \in Worker : RunTask(w)) \/ (\E t \in Table : Visit(t))
              \/ WakeSync \/ EndSync \/ EndServe \/ BeginApply \/ WaiterCheck
              \/ WaiterSleep \/ SpuriousWake \/ ServerWait \/ UNCHANGED vars
      PROVE  UNCHANGED <<primary, main, saving, saved, cleaner, table>>
  BY <1>17 DEF Signal, ShutdownServer, BeginCall, WriteNothing, EnqueueTask,
      Wake, EndCall, WorkerCheck, WorkerSleep, RunTask, Visit, WakeSync,
      EndSync, EndServe, BeginApply, WaiterCheck, WaiterSleep, SpuriousWake,
      ServerWait, vars, process, engine, stores, background, replication, pool
<1> QED BY <1>1, <1>2, <1>3, <1>4, <1>5, <1>6, <1>7, <1>8, <1>9, <1>10, <1>11,
    <1>12, <1>13, <1>14, <1>15, <1>16, <1>17
  DEF Next, HandlerStep, WorkerStep, CleanerStep, SyncStep, WaiterStep,
      MainStep

\* A saved table is changed neither by a handler, nor the cleaner, nor ~Engine.
LEMMA FinalStep ==
    ASSUME TypeOK, ServerFirst, ServerThreads, SavingClean, SavedIsFinal,
        [Next]_vars
    PROVE  SavedIsFinal'
<1>1. ASSUME NEW c \in Caller, NEW t \in Table, WriteStore(c, t) PROVE SavedIsFinal'
  BY <1>1 DEF WriteStore, Changed, State, TypeOK, ServerFirst, ServerThreads,
      SavingClean, SavedIsFinal, vars, process, engine, stores, background,
      replication, pool
<1>2. CASE EndCleanup
  BY <1>2 DEF EndCleanup, State, TypeOK, ServerFirst, ServerThreads,
      SavingClean, SavedIsFinal, vars, process, engine, stores, background,
      replication, pool
<1>3. ASSUME NEW t \in Table, EndApply(t) PROVE SavedIsFinal'
  BY <1>3 DEF EndApply, Changed, State, TypeOK, ServerFirst, ServerThreads,
      SavingClean, SavedIsFinal, vars, process, engine, stores, background,
      replication, pool
<1>4. ASSUME NEW t \in Table, CleanTable(t) PROVE SavedIsFinal'
  BY <1>4 DEF CleanTable, Free, Exclusive, State, TypeOK, ServerFirst,
      ServerThreads, SavingClean, SavedIsFinal, vars, process, engine, stores,
      background, replication, pool
<1>5. CASE SaveTable
  BY <1>5 DEF SaveTable, TypeOK, ServerFirst, ServerThreads, SavingClean,
      SavedIsFinal, vars, process, engine, stores, background, replication,
      pool
<1>6. CASE UNCHANGED <<primary, saved, table>>
  BY <1>6 DEF TypeOK, ServerFirst, ServerThreads, SavingClean, SavedIsFinal
<1>7. ASSUME \/ Signal \/ ShutdownServer
             \/ (\E c \in Caller, op \in {"write", "search"} : BeginCall(c, op))
             \/ (\E c \in Caller : WriteNothing(c))
             \/ (\E c \in Caller : EnqueueTask(c))
             \/ (\E c \in Caller : EndCall(c))
             \/ (\E w \in Worker : WorkerCheck(w))
             \/ (\E w \in Worker : WorkerSleep(w))
             \/ (\E w \in Worker : RunTask(w)) \/ WakeCleaner
             \/ (\E t \in Table : Visit(t)) \/ BeginCleanup \/ EndScan
             \/ WakeSync \/ EndSync \/ EndServe \/ BeginApply \/ WaiterCheck
             \/ WaiterSleep \/ SpuriousWake \/ ServerWait \/ BeginDestroy
             \/ EndTables \/ JoinCleaner \/ NotifySync \/ JoinSync \/ StopPool
             \/ JoinPool \/ UNCHANGED vars
      PROVE  UNCHANGED <<primary, saved, table>>
  BY <1>7 DEF Signal, ShutdownServer, BeginCall, WriteNothing, EnqueueTask,
      Wake, EndCall, WorkerCheck, WorkerSleep, RunTask, WakeCleaner, Visit,
      BeginCleanup, EndScan, WakeSync, EndSync, EndServe, BeginApply,
      WaiterCheck, WaiterSleep, SpuriousWake, ServerWait, BeginDestroy,
      EndTables, JoinCleaner, NotifySync, JoinSync, StopPool, JoinPool, vars,
      process, engine, stores, background, replication, pool
<1> QED BY <1>1, <1>2, <1>3, <1>4, <1>5, <1>6, <1>7
  DEF Next, HandlerStep, WorkerStep, CleanerStep, SyncStep, WaiterStep,
      MainStep

\* Every join waits for the thread that the next member's destruction would
\* leave without it.
LEMMA MembersStep ==
    ASSUME TypeOK, SearchesPlaced, ServerFirst, ServerThreads,
        MembersOutliveThreads, [Next]_vars
    PROVE  MembersOutliveThreads'
<1>1. ASSUME NEW c \in Caller, NEW op \in {"write", "search"},
    BeginCall(c, op) PROVE MembersOutliveThreads'
  BY <1>1 DEF BeginCall, Exclusive, TypeOK, SearchesPlaced, ServerFirst,
      ServerThreads, MembersOutliveThreads, vars, process, engine, stores,
      background, replication, pool
<1>2. ASSUME NEW c \in Caller, NEW t \in Table, WriteStore(c, t) PROVE MembersOutliveThreads'
  BY <1>2 DEF WriteStore, Changed, State, TypeOK, SearchesPlaced, ServerFirst,
      ServerThreads, MembersOutliveThreads, vars, process, engine, stores,
      background, replication, pool
<1>3. ASSUME NEW c \in Caller, WriteNothing(c) PROVE MembersOutliveThreads'
  BY <1>3 DEF WriteNothing, TypeOK, SearchesPlaced, ServerFirst,
      ServerThreads, MembersOutliveThreads, vars, process, engine, stores,
      background, replication, pool
<1>4. ASSUME NEW c \in Caller, EnqueueTask(c) PROVE MembersOutliveThreads'
  BY <1>4 DEF EnqueueTask, QueueFree, Sleeping, Wake, TypeOK, SearchesPlaced,
      ServerFirst, ServerThreads, MembersOutliveThreads, vars, process,
      engine, stores, background, replication, pool
<1>5. ASSUME NEW c \in Caller, EndCall(c) PROVE MembersOutliveThreads'
  BY <1>5 DEF EndCall, TypeOK, SearchesPlaced, ServerFirst, ServerThreads,
      MembersOutliveThreads, vars, process, engine, stores, background,
      replication, pool
<1>6. ASSUME NEW w \in Worker, WorkerCheck(w) PROVE MembersOutliveThreads'
  BY <1>6 DEF WorkerCheck, QueueFree, TypeOK, SearchesPlaced, ServerFirst,
      ServerThreads, MembersOutliveThreads, vars, process, engine, stores,
      background, replication, pool
<1>7. ASSUME NEW w \in Worker, RunTask(w) PROVE MembersOutliveThreads'
  BY <1>7 DEF RunTask, TypeOK, SearchesPlaced, ServerFirst, ServerThreads,
      MembersOutliveThreads, vars, process, engine, stores, background,
      replication, pool
<1>8. ASSUME NEW w \in Worker, WorkerSleep(w) PROVE MembersOutliveThreads'
  BY <1>8 DEF WorkerSleep, TypeOK, SearchesPlaced, ServerFirst, ServerThreads,
      MembersOutliveThreads, vars, process, engine, stores, background,
      replication, pool
<1>9. CASE WakeCleaner
  BY <1>9 DEF WakeCleaner, TypeOK, SearchesPlaced, ServerFirst, ServerThreads,
      MembersOutliveThreads, vars, process, engine, stores, background,
      replication, pool
<1>10. CASE BeginCleanup
  BY <1>10 DEF BeginCleanup, Free, Exclusive, TypeOK, SearchesPlaced,
      ServerFirst, ServerThreads, MembersOutliveThreads, vars, process,
      engine, stores, background, replication, pool
<1>11. CASE EndCleanup
  BY <1>11 DEF EndCleanup, State, TypeOK, SearchesPlaced, ServerFirst,
      ServerThreads, MembersOutliveThreads, vars, process, engine, stores,
      background, replication, pool
<1>12. CASE EndScan
  BY <1>12 DEF EndScan, TypeOK, SearchesPlaced, ServerFirst, ServerThreads,
      MembersOutliveThreads, vars, process, engine, stores, background,
      replication, pool
<1>13. CASE WakeSync
  BY <1>13 DEF WakeSync, TypeOK, SearchesPlaced, ServerFirst, ServerThreads,
      MembersOutliveThreads, vars, process, engine, stores, background,
      replication, pool
<1>14. CASE EndSync
  BY <1>14 DEF EndSync, TypeOK, SearchesPlaced, ServerFirst, ServerThreads,
      MembersOutliveThreads, vars, process, engine, stores, background,
      replication, pool
<1>15. ASSUME NEW t \in Table, EndApply(t) PROVE MembersOutliveThreads'
  BY <1>15 DEF EndApply, Changed, State, TypeOK, SearchesPlaced, ServerFirst,
      ServerThreads, MembersOutliveThreads, vars, process, engine, stores,
      background, replication, pool
<1>16. CASE EndServe
  BY <1>16 DEF EndServe, TypeOK, SearchesPlaced, ServerFirst, ServerThreads,
      MembersOutliveThreads, vars, process, engine, stores, background,
      replication, pool
<1>17. CASE BeginApply
  BY <1>17 DEF BeginApply, Free, Exclusive, TypeOK, SearchesPlaced,
      ServerFirst, ServerThreads, MembersOutliveThreads, vars, process,
      engine, stores, background, replication, pool
<1>18. CASE WaiterCheck
  BY <1>18 DEF WaiterCheck, TypeOK, SearchesPlaced, ServerFirst,
      ServerThreads, MembersOutliveThreads, vars, process, engine, stores,
      background, replication, pool
<1>19. CASE WaiterSleep
  BY <1>19 DEF WaiterSleep, TypeOK, SearchesPlaced, ServerFirst,
      ServerThreads, MembersOutliveThreads, vars, process, engine, stores,
      background, replication, pool
<1>20. CASE SpuriousWake
  BY <1>20 DEF SpuriousWake, Sleeping, Wake, TypeOK, SearchesPlaced,
      ServerFirst, ServerThreads, MembersOutliveThreads, vars, process,
      engine, stores, background, replication, pool
<1>21. CASE BeginDestroy
  BY <1>21 DEF BeginDestroy, TypeOK, SearchesPlaced, ServerFirst,
      ServerThreads, MembersOutliveThreads, vars, process, engine, stores,
      background, replication, pool
<1>22. CASE EndTables
  BY <1>22 DEF EndTables, TypeOK, SearchesPlaced, ServerFirst, ServerThreads,
      MembersOutliveThreads, vars, process, engine, stores, background,
      replication, pool
<1>23. CASE JoinCleaner
  BY <1>23 DEF JoinCleaner, TypeOK, SearchesPlaced, ServerFirst,
      ServerThreads, MembersOutliveThreads, vars, process, engine, stores,
      background, replication, pool
<1>24. CASE NotifySync
  BY <1>24 DEF NotifySync, TypeOK, SearchesPlaced, ServerFirst, ServerThreads,
      MembersOutliveThreads, vars, process, engine, stores, background,
      replication, pool
<1>25. CASE JoinSync
  BY <1>25 DEF JoinSync, TypeOK, SearchesPlaced, ServerFirst, ServerThreads,
      MembersOutliveThreads, vars, process, engine, stores, background,
      replication, pool
<1>26. CASE StopPool
  BY <1>26 DEF StopPool, QueueFree, Sleeping, Wake, TypeOK, SearchesPlaced,
      ServerFirst, ServerThreads, MembersOutliveThreads, vars, process,
      engine, stores, background, replication, pool
<1>27. CASE JoinPool
  BY <1>27 DEF JoinPool, TypeOK, SearchesPlaced, ServerFirst, ServerThreads,
      MembersOutliveThreads, vars, process, engine, stores, background,
      replication, pool
<1>28. CASE UNCHANGED <<call, main, cleaner, sync, waiter, applying, tasks, doing, worker>>
  BY <1>28 DEF TypeOK, SearchesPlaced, ServerFirst, ServerThreads,
      MembersOutliveThreads
<1>29. ASSUME \/ Signal \/ ShutdownServer \/ (\E t \in Table : Visit(t))
              \/ ServerWait \/ (\E t \in Table : CleanTable(t)) \/ SaveTable
              \/ UNCHANGED vars
      PROVE  UNCHANGED <<call, main, cleaner, sync, waiter, applying, tasks, doing, worker>>
  BY <1>29 DEF Signal, ShutdownServer, Visit, ServerWait, CleanTable,
      SaveTable, vars, process, engine, stores, background, replication, pool
<1> QED BY <1>1, <1>2, <1>3, <1>4, <1>5, <1>6, <1>7, <1>8, <1>9, <1>10, <1>11,
    <1>12, <1>13, <1>14, <1>15, <1>16, <1>17, <1>18, <1>19, <1>20, <1>21,
    <1>22, <1>23, <1>24, <1>25, <1>26, <1>27, <1>28, <1>29
  DEF Next, HandlerStep, WorkerStep, CleanerStep, SyncStep, WaiterStep,
      MainStep

-----------------------------------------------------------------------------
\* The inductive invariant holds in every reachable state.
THEOREM InvariantHolds == Spec => []IInv
<1>1. Init => IInv
  <2> SUFFICES ASSUME Init PROVE IInv
    OBVIOUS
  <2>1. /\ sync \in {"ended", "waits", "serves"} /\ waiter \in {"checks", "ended"}
        /\ primary => sync # "serves" /\ waiter = "ended"
        /\ waiter # "ended" => sync = "serves"
    BY DEF Init
  <2>2. table \in [Table -> State]
    BY ConstantsAssumption DEF Init, State, ConstantsAssumption
  <2>3. TypeOK
    <3>1. tasks \in Seq(Caller)
      BY DEF Init
    <3>2. /\ saved \in [Table -> State \cup {Nothing}]
          /\ doing \in [Worker -> Caller \cup {Nothing}]
          /\ \A w \in Worker : doing[w] # Nothing <=> worker[w] = "runs"
      BY DEF Init
    <3> QED BY <2>1, <2>2, <3>1, <3>2 DEF Init, TypeOK
  <2>4. SearchesPlaced /\ ServerFirst /\ MembersOutliveThreads
    BY DEF Init, SearchesPlaced, ServerFirst, MembersOutliveThreads
  <2>5. ServerThreads
    BY <2>1 DEF Init, ServerThreads
  <2>6. SavingClean /\ SavedIsFinal
    BY DEF Init, SavingClean, SavedIsFinal
  <2> QED BY <2>3, <2>4, <2>5, <2>6 DEF IInv
<1>2. IInv /\ [Next]_vars => IInv'
  BY TypeStep, PlacesStep, ServerStep, ThreadsStep, CleanStep, FinalStep, MembersStep DEF IInv
<1> QED
  BY <1>1, <1>2, PTL DEF Spec

\* Every variable stays in its set.
THEOREM TypeCorrect == Spec => []TypeOK
<1>1. IInv => TypeOK
  BY DEF IInv
<1> QED
  BY <1>1, InvariantHolds, PTL

\* What ~Engine has saved of a primary's table is what the table is when the
\* process ends, without soft-removed vectors.
THEOREM SavedFinal == Spec => []SavedIsFinal
<1>1. IInv => SavedIsFinal
  BY DEF IInv
<1> QED
  BY <1>1, InvariantHolds, PTL

\* No handler and no cleaner is inside the stores of a primary while ~Engine
\* writes them to the files, where it holds no lock.
THEOREM SavingQuiet == Spec => []QuietWhileSaved
<1>1. IInv => QuietWhileSaved
  BY DEF IInv, TypeOK, ServerFirst, ServerThreads, SavingClean, QuietWhileSaved, Free, Exclusive
<1> QED
  BY <1>1, InvariantHolds, PTL

\* The members of Engine outlive the threads that use them.
THEOREM MembersOutlive == Spec => []MembersOutliveThreads
<1>1. IInv => MembersOutliveThreads
  BY DEF IInv
<1> QED
  BY <1>1, InvariantHolds, PTL
=============================================================================
