------------------------ MODULE DurableTable_proofs ------------------------
(***************************************************************************)
(* Proofs about DurableTable: types, crash safety, the promise to clients, *)
(* and the implementation of DurableMap, for any number of clients, ids    *)
(* and payloads and a log of any length.                                   *)
(***************************************************************************)
EXTENDS DurableTable, WriteAheadLog_proofs, FiniteSetTheorems

-----------------------------------------------------------------------------
(* Types.                                                                  *)

\* A call is a non-empty sequence of writes to ids its client may write.
LEMMA CallsAreWrites ==
    ASSUME NEW c \in Client, NEW batch \in Calls(c)
    PROVE  /\ batch \in Seq(WriteEntry)
           /\ batch # << >>
           /\ \A i \in 1 .. Len(batch) : <<c, batch[i].id>> \in CanWrite
<1> DEFINE mine == {id \in Id : <<c, id>> \in CanWrite}
           ins == [op : {"insert"}, id : mine, payload : Payload]
           rem == [op : {"remove"}, id : mine]
<1>1. PICK n \in 1 .. MaxBatch : batch \in [1 .. n -> ins] \cup [1 .. n -> rem]
    BY DEF Calls
<1>2. n \in Nat /\ n > 0
    BY ConstantsAssumption
<1>3. ins \subseteq WriteEntry /\ rem \subseteq WriteEntry
    BY DEF WriteEntry, InsertEntry, RemoveEntry
<1>4. batch \in [1 .. n -> WriteEntry]
    BY <1>1, <1>3
<1>5. batch \in Seq(WriteEntry) /\ Len(batch) = n
    BY <1>2, <1>4
<1>6. \A i \in 1 .. n : <<c, batch[i].id>> \in CanWrite
    BY <1>1
<1> QED BY <1>2, <1>5, <1>6

\* The counters stay natural numbers whatever is added or taken away.
LEMMA PlusType == ASSUME NEW n \in Int, NEW k \in Int PROVE Plus(n, k) \in Nat
BY ConstantsAssumption DEF Plus

LEMMA ApplyEntryType ==
    ASSUME TypeOK, NEW e \in WriteEntry, ApplyEntry(e)
    PROVE  /\ data' \in [Id -> Value]
           /\ active' \in SUBSET Id /\ soft' \in SUBSET Id
           /\ stats' \in [vector : Nat, deleted : Nat, stale : Nat]
           /\ removed' \in BOOLEAN
<1> USE DEF TypeOK
<1>1. CASE ~Succeeds(data[e.id], e)
    BY <1>1 DEF ApplyEntry, store, counters
<1>2. CASE Succeeds(data[e.id], e) /\ e.op = "insert"
  <2>1. e.id \in Id /\ Effect(data[e.id], e, e.id) \in Value
      BY <1>2 DEF WriteEntry, InsertEntry, RemoveEntry, Effect, Value, Kills
  <2>2. stats' = [stats EXCEPT !.vector = Plus(@, 1)]
      BY <1>2 DEF ApplyEntry
  <2>3. stats' \in [vector : Nat, deleted : Nat, stale : Nat]
    <3>1. stats.vector \in Int /\ 1 \in Int
        OBVIOUS
    <3>2. Plus(stats.vector, 1) \in Nat
        BY <3>1, PlusType
    <3> QED BY <2>2, <3>2
  <2>4. data' = [data EXCEPT ![e.id] = Effect(@, e, e.id)] /\ IndexInsert(e.id) /\ UNCHANGED removed
      BY <1>2 DEF ApplyEntry
  <2> QED BY <2>1, <2>3, <2>4 DEF IndexInsert
<1>3. CASE Succeeds(data[e.id], e) /\ e.op # "insert"
  <2>1. e.id \in Id /\ Effect(data[e.id], e, e.id) \in Value
      BY <1>3 DEF WriteEntry, InsertEntry, RemoveEntry, Effect, Value, Kills
  <2>2. stats' = [stats EXCEPT !.deleted = Plus(@, 1), !.stale = Plus(@, 1)]
      BY <1>3 DEF ApplyEntry
  <2>3. stats' \in [vector : Nat, deleted : Nat, stale : Nat]
    <3>1. stats.deleted \in Int /\ stats.stale \in Int
        OBVIOUS
    <3>2. Plus(stats.deleted, 1) \in Nat /\ Plus(stats.stale, 1) \in Nat
        BY <3>1, PlusType
    <3> QED BY <2>2, <3>2
  <2>4. data' = [data EXCEPT ![e.id] = Effect(@, e, e.id)] /\ IndexRemove(e.id) /\ removed' = TRUE
      BY <1>3 DEF ApplyEntry
  <2> QED BY <2>1, <2>3, <2>4 DEF IndexRemove
<1> QED BY <1>1, <1>2, <1>3

LEMMA CleanUpType ==
    ASSUME TypeOK, CleanUp
    PROVE  /\ data' \in [Id -> Value]
           /\ active' \in SUBSET Id /\ soft' \in SUBSET Id
           /\ stats' \in [vector : Nat, deleted : Nat, stale : Nat]
           /\ removed' \in BOOLEAN
<1>0. stats.vector \in Int /\ -stats.deleted \in Int
    BY DEF TypeOK
<1>1. Plus(stats.vector, -stats.deleted) \in Nat
    BY <1>0, PlusType
<1> QED BY <1>1 DEF CleanUp, TypeOK

LEMMA ForgetMemoryType ==
    ASSUME ForgetMemory
    PROVE  /\ data' \in [Id -> Value]
           /\ active' \in SUBSET Id /\ soft' \in SUBSET Id
           /\ stats' \in [vector : Nat, deleted : Nat, stale : Nat]
           /\ removed' \in BOOLEAN
BY DEF ForgetMemory, EmptyMap, Value, ZeroStats

LEMMA HeadIsWrite ==
    ASSUME TypeOK, NEW c \in Client, todo[c] # << >>
    PROVE  /\ Head(todo[c]) \in WriteEntry
           /\ Head(todo[c]).id \in Id
           /\ Tail(todo[c]) \in Seq(WriteEntry)
BY DEF TypeOK, WriteEntry, InsertEntry, RemoveEntry

\* Every step keeps every variable in its set.
LEMMA TypeStep == TypeOK /\ [Next]_vars => TypeOK'
<1> SUFFICES ASSUME TypeOK, [Next]_vars PROVE TypeOK'
    OBVIOUS
<1> USE DEF calls, store, counters, log, files
<1>1. ASSUME NEW c \in Client, NEW batch \in Calls(c), BeginCall(c, batch) PROVE TypeOK'
    BY <1>1, CallsAreWrites DEF BeginCall, TypeOK
<1>2. ASSUME NEW c \in Client, LogWrite(c) PROVE TypeOK'
  <2>1. Head(todo[c]) \in LogEntry
      BY <1>2, HeadIsWrite DEF LogWrite, LogEntry
  <2> QED BY <1>2, <2>1 DEF LogWrite, TypeOK
<1>3. ASSUME NEW c \in Client, ApplyWrite(c) PROVE TypeOK'
  <2> DEFINE e == Head(todo[c])
  <2>1. todo[c] # << >> /\ e \in WriteEntry /\ e.id \in Id /\ Tail(todo[c]) \in Seq(WriteEntry)
      BY <1>3, HeadIsWrite DEF ApplyWrite, TypeOK
  <2>2. ApplyEntry(e)
      BY <1>3 DEF ApplyWrite
  <2>3. /\ data' \in [Id -> Value]
        /\ active' \in SUBSET Id /\ soft' \in SUBSET Id
        /\ stats' \in [vector : Nat, deleted : Nat, stale : Nat]
        /\ removed' \in BOOLEAN
      BY <2>1, <2>2, ApplyEntryType
  <2>4. promised' \in [Id -> SUBSET Value]
    <3>1. promised' = [promised EXCEPT ![e.id] = {data'[e.id]}]
        BY <1>3 DEF ApplyWrite
    <3>2. {data'[e.id]} \in SUBSET Value
        BY <2>1, <2>3
    <3> HIDE DEF e
    <3> QED BY <3>1, <3>2, <2>1 DEF TypeOK
  <2>5. todo' \in [Client -> Seq(WriteEntry)] /\ \A d \in Client : logged'[d] => todo'[d] # << >>
      BY <1>3, <2>1 DEF ApplyWrite, TypeOK
  <2>6. logged' \in [Client -> BOOLEAN] /\ reply' \in [Client -> {"none", "ok", "failed"}]
      BY <1>3 DEF ApplyWrite, TypeOK
  <2> QED BY <1>3, <2>3, <2>4, <2>5, <2>6 DEF ApplyWrite, TypeOK
<1>4. CASE Cleanup
    BY <1>4, CleanUpType DEF Cleanup, TypeOK
<1>5. CASE BeginShutdown
    BY <1>5 DEF BeginShutdown, Move, TypeOK, Phase
<1>6. CASE SaveStep
  <2>1. CASE ForcedCleanup
      BY <2>1, CleanUpType DEF ForcedCleanup, Move, TypeOK, Phase
  <2>2. CASE ClearWAL
      BY <2>2, ForgetMemoryType DEF ClearWAL, Move, TypeOK, Phase
  <2>3. CASE OpenStoreFile \/ CloseStoreFile
      BY <2>3 DEF OpenStoreFile, CloseStoreFile, Move, TypeOK, Phase, EmptyMap, Value
  <2>4. CASE OpenIndexFile \/ CloseIndexFile
      BY <2>4 DEF OpenIndexFile, CloseIndexFile, Move, TypeOK, Phase
  <2>5. CASE OpenMetadata \/ CloseMetadata
      BY <2>5 DEF OpenMetadata, CloseMetadata, Move, TypeOK, Phase
  <2> QED BY <1>6, <2>1, <2>2, <2>3, <2>4, <2>5 DEF SaveStep
<1>7. CASE Crash
  <2>1. \A id \in Id : InDoubt(id) \subseteq Value
      BY HeadIsWrite DEF InDoubt, Effect, Value, WriteEntry, InsertEntry, RemoveEntry, TypeOK, Adds
  <2>2. promised' \in [Id -> SUBSET Value]
      BY <1>7, <2>1 DEF Crash, TypeOK
  <2>3. storeFile' \in [Id -> Value]
      BY <1>7 DEF Crash, TypeOK, SubMaps, Value
  <2>4. indexFile' \in SUBSET Id
      BY <1>7 DEF Crash, TypeOK
  <2> QED BY <1>7, <2>2, <2>3, <2>4, ForgetMemoryType DEF Crash, TypeOK, Phase
<1>8. CASE Restart
  <2>1. wal' \in Seq(LogEntry)
      BY <1>8 DEF Restart, LoadSnapshot, TypeOK, LogEntry
  <2>2. stats' \in [vector : Nat, deleted : Nat, stale : Nat]
      BY <1>8 DEF Restart, LoadSnapshot, ZeroStats
  <2>3. data' \in [Id -> Value] /\ active' \in SUBSET Id /\ soft' \in SUBSET Id
      BY <1>8 DEF Restart, LoadSnapshot, TypeOK
  <2> QED BY <1>8, <2>1, <2>2, <2>3 DEF Restart, LoadSnapshot, TypeOK, Phase
<1>9. CASE ReplayStep
  <2>1. CASE ReplayEntry
    <3>1. CASE wal[pos + 1].op = "create"
        BY <2>1, <3>1 DEF ReplayEntry, TypeOK
    <3>2. CASE wal[pos + 1].op # "create"
      <4>1. wal[pos + 1] \in WriteEntry
          BY <2>1, <3>2 DEF ReplayEntry, TypeOK, LogEntry, CreateEntry
      <4> QED BY <2>1, <3>2, <4>1, ApplyEntryType DEF ReplayEntry, TypeOK
    <3> QED BY <3>1, <3>2
  <2>2. CASE EndReplay
    <3>1. Cardinality(Present(data)) \in Nat
        BY FS_Subset, FS_CardinalityType, ConstantsAssumption DEF Present
    <3>2. Cardinality(Present(data)) % CounterModulus \in Nat
        BY <3>1, ConstantsAssumption
    <3> QED BY <2>2, <3>2 DEF EndReplay, Move, TypeOK, Phase
  <2> QED BY <1>9, <2>1, <2>2 DEF ReplayStep
<1>10. CASE RestartWithoutTable \/ StopWithoutTable
    BY <1>10 DEF RestartWithoutTable, StopWithoutTable, Move, TypeOK, Phase
<1>11. CASE UNCHANGED vars
    BY <1>11 DEF vars, TypeOK
<1> QED BY <1>1, <1>2, <1>3, <1>4, <1>5, <1>6, <1>7, <1>8, <1>9, <1>10, <1>11 DEF Next, ClientStep

LEMMA TypeInit == Init => TypeOK
<1> SUFFICES ASSUME Init PROVE TypeOK
    OBVIOUS
<1>1. wal \in Seq(LogEntry)
    BY DEF Init, LogEntry
<1>2. stats \in [vector : Nat, deleted : Nat, stale : Nat]
    BY DEF Init, ZeroStats
<1>3. data \in [Id -> Value] /\ storeFile \in [Id -> Value] /\ promised \in [Id -> SUBSET Value]
    BY DEF Init, EmptyMap, Value
<1>4. /\ todo \in [Client -> Seq(WriteEntry)] /\ logged \in [Client -> BOOLEAN]
      /\ \A c \in Client : ~logged[c]
      /\ reply \in [Client -> {"none", "ok", "failed"}]
    BY DEF Init
<1>5. active \in SUBSET Id /\ soft \in SUBSET Id /\ indexFile \in SUBSET Id
    BY DEF Init
<1>6. phase \in Phase /\ pos \in Nat /\ crashes \in Nat /\ removed \in BOOLEAN
    BY DEF Init, Phase
<1>7. metadata \in {"absent", "torn", "saved"}
    BY DEF Init
<1> QED BY <1>1, <1>2, <1>3, <1>4, <1>5, <1>6, <1>7 DEF TypeOK

\* TypeOK holds in every reachable state.
THEOREM TypeCorrect == Spec => []TypeOK
BY TypeInit, TypeStep, PTL DEF Spec

-----------------------------------------------------------------------------
(* The inductive invariant.  What CrashSafe says of a served table has to  *)
(* be carried through the phases in which it says nothing: the rewriting   *)
(* of the snapshot, the time the process is down, and the replay.          *)

\* A client is only in a call on ids it may write.
Owned == \A c \in Client : \A i \in 1 .. Len(todo[c]) : <<c, todo[c][i].id>> \in CanWrite

\* Cleanup waited for the calls, and none begins afterwards.
Quiet == phase \notin {"up", "closing"} => NoCallInside

\* The files bring back the store, pending writes included.
ServedRecovers ==
    phase \in Served => \A id \in Id : \A v \in Value : Settles(id, v) => Recovers(id, v)

\* The log is harmless over the snapshot about to be written.
RewriteRecovers ==
    RewritingSnapshot => \A id \in Id : Yields(data[id], wal, Len(wal), id, data[id])

\* A snapshot that was written is the store.
SnapshotWhole == phase \in {"snapshotSaved", "metaOpen", "metaSaved"} => storeFile = data

\* The constructor has replayed the first pos lines.
ReplayFollows ==
    phase = "replay" =>
        /\ pos <= Len(wal)
        /\ \A id \in Id : Yields(storeFile[id], wal, pos, id, data[id])

\* The store holds what was promised.
ServedPromise ==
    phase \in Served \/ RewritingSnapshot => \A id \in Id : data[id] \in promised[id]

IInv == /\ TypeOK
        /\ Owned
        /\ Quiet
        /\ ServedRecovers
        /\ RewriteRecovers
        /\ SnapshotWhole
        /\ ReplayFollows
        /\ ServedPromise
        /\ FilesKeepPromise

\* VectorStore changes every id by the effect of the entry, refused or not.
LEMMA ApplyEntryData ==
    ASSUME TypeOK, NEW e \in WriteEntry, ApplyEntry(e), NEW id \in Id
    PROVE  data'[id] = Effect(data[id], e, id)
<1>1. e.id \in Id /\ data \in [Id -> Value]
    BY DEF TypeOK, WriteEntry, InsertEntry, RemoveEntry
<1>2. CASE ~Succeeds(data[e.id], e)
  <2>1. data' = data
      BY <1>2 DEF ApplyEntry, store
  <2>2. CASE e.id # id
      BY <2>1, <2>2, EffectOther
  <2>3. CASE e.id = id
      BY <2>1, <2>3, <1>1, <1>2 DEF Succeeds, Effect, Adds, Kills, WriteEntry, InsertEntry, RemoveEntry
  <2> QED BY <2>2, <2>3
<1>3. CASE Succeeds(data[e.id], e)
  <2>1. data' = [data EXCEPT ![e.id] = Effect(data[e.id], e, e.id)]
      BY <1>3 DEF ApplyEntry
  <2>2. CASE e.id # id
      BY <2>1, <2>2, <1>1, EffectOther
  <2>3. CASE e.id = id
      BY <2>1, <2>3, <1>1
  <2> QED BY <2>2, <2>3
<1> QED BY <1>2, <1>3

\* Without pending writes the store has nothing to settle.
LEMMA QuietSettles ==
    ASSUME TypeOK, NoCallInside, NEW id \in Id
    PROVE  /\ \A c \in Client : ~Pending(c, id)
           /\ Settles(id, data[id])
           /\ \A v : Settles(id, v) => v = data[id]
BY DEF TypeOK, NoCallInside, Pending, Settles

\* A step that leaves calls, store and files alone leaves both sides of
\* CrashSafe alone.
LEMMA SameSettles ==
    ASSUME UNCHANGED <<todo, logged, data>>, NEW id, NEW v
    PROVE  Settles(id, v)' <=> Settles(id, v)
BY DEF Settles, Pending

LEMMA SameRecovers ==
    ASSUME UNCHANGED <<storeFile, wal>>, NEW id, NEW v
    PROVE  Recovers(id, v)' <=> Recovers(id, v)
BY DEF Recovers

LEMMA InvBegin ==
    ASSUME IInv, TypeOK', NEW c \in Client, NEW batch \in Calls(c), BeginCall(c, batch)
    PROVE  IInv'
<1> USE DEF BeginCall, calls, store, counters, log, files, IInv
<1>1. Owned'
    BY CallsAreWrites DEF Owned, TypeOK
<1>2. Quiet' /\ RewriteRecovers' /\ SnapshotWhole' /\ ReplayFollows' /\ FilesKeepPromise'
    BY DEF Quiet, RewriteRecovers, RewritingSnapshot, SnapshotWhole, ReplayFollows, FilesKeepPromise
<1>3. ServedRecovers'
  <2> SUFFICES ASSUME NEW id \in Id, NEW v \in Value, Settles(id, v)' PROVE Recovers(id, v)'
      BY DEF ServedRecovers
  <2>1. ~logged[c] /\ \A d \in Client : logged[d] => todo'[d] = todo[d]
      BY DEF TypeOK
  <2>2. Settles(id, v)
      BY <2>1 DEF Settles, Pending
  <2> QED BY <2>2 DEF ServedRecovers, Served, Recovers
<1>4. ServedPromise'
    BY DEF ServedPromise, Served, RewritingSnapshot
<1> QED BY <1>1, <1>2, <1>3, <1>4

\* Only the owner of an id can have a write of it pending.
LEMMA PendingOwner ==
    ASSUME SingleWriter, TypeOK, Owned, NEW c \in Client, NEW d \in Client, NEW id \in Id,
           todo[c] # << >>, Head(todo[c]).id = id, Pending(d, id)
    PROVE  d = c
<1>1. \A k \in Client : todo[k] # << >> => 1 \in 1 .. Len(todo[k]) /\ Head(todo[k]) = todo[k][1]
    BY DEF TypeOK
<1>2. todo[d] # << >> /\ Head(todo[d]).id = id
    BY DEF Pending, TypeOK
<1>3. <<c, id>> \in CanWrite /\ <<d, id>> \in CanWrite
    BY <1>1, <1>2 DEF Owned
<1> QED BY <1>3 DEF SingleWriter

LEMMA InvLog ==
    ASSUME SingleWriter, IInv, TypeOK', NEW c \in Client, LogWrite(c)
    PROVE  IInv'
<1> USE DEF LogWrite, store, counters, files
<1> DEFINE e == Head(todo[c])
<1>0. TypeOK /\ Owned /\ Quiet /\ ServedRecovers /\ ServedPromise
    BY DEF IInv
<1>1. phase \in {"up", "closing"} /\ phase' = phase
    BY <1>0 DEF Quiet, NoCallInside
<1>2. e \in WriteEntry /\ e.id \in Id /\ e \in LogEntry
    BY <1>0, HeadIsWrite DEF LogEntry
<1>3. wal \in Seq(LogEntry) /\ wal' = Append(wal, e) /\ storeFile \in [Id -> Value] /\ data \in [Id -> Value]
    BY <1>0 DEF TypeOK
<1>4. Owned' /\ Quiet' /\ RewriteRecovers' /\ SnapshotWhole' /\ ReplayFollows' /\ FilesKeepPromise'
    BY <1>0, <1>1 DEF Owned, Quiet, NoCallInside, RewriteRecovers, RewritingSnapshot, SnapshotWhole,
                      ReplayFollows, FilesKeepPromise
<1>5. ASSUME NEW id \in Id, NEW v \in Value, Recovers(id, v), NEW w, w = Effect(v, e, id)
      PROVE  Recovers(id, w)'
    BY <1>2, <1>3, <1>5, YieldsAppend DEF Recovers
<1>6. logged' = [logged EXCEPT ![c] = TRUE] /\ todo' = todo /\ data' = data /\ ~logged[c]
    OBVIOUS
<1>7. \A id \in Id : \A d \in Client : Pending(d, id)' <=> (Pending(d, id) \/ (d = c /\ e.id = id))
    BY <1>0, <1>6 DEF Pending, TypeOK
<1> HIDE DEF LogWrite
<1>8. ServedRecovers'
  <2> SUFFICES ASSUME NEW id \in Id, NEW v \in Value, Settles(id, v)' PROVE Recovers(id, v)'
      BY DEF ServedRecovers
  <2>1. CASE e.id = id
    <3>1. \A d \in Client : ~Pending(d, id)
        BY <1>0, <1>6, <2>1, PendingOwner DEF Pending, TypeOK, LogWrite
    <3>2. v = Effect(data[id], e, id)
        BY <3>1, <1>6, <1>7, <2>1 DEF Settles
    <3>3. data[id] \in Value /\ Recovers(id, data[id])
        BY <3>1, <1>0, <1>1, <1>3 DEF ServedRecovers, Served, Settles
    <3> QED BY <3>2, <3>3, <1>5
  <2>2. CASE e.id # id
    <3>1. Settles(id, v)
        BY <1>6, <1>7, <2>2 DEF Settles
    <3>2. Recovers(id, v)
        BY <3>1, <1>0, <1>1 DEF ServedRecovers, Served
    <3> QED BY <3>2, <2>2, <1>5, EffectOther
  <2> QED BY <2>1, <2>2
<1>9. ServedPromise'
    BY <1>0, <1>1, <1>6 DEF ServedPromise, Served, LogWrite
<1> QED BY <1>4, <1>8, <1>9 DEF IInv

LEMMA InvApply ==
    ASSUME SingleWriter, IInv, TypeOK', NEW c \in Client, ApplyWrite(c)
    PROVE  IInv'
<1> DEFINE e == Head(todo[c])
<1>0. TypeOK /\ Owned /\ Quiet /\ ServedRecovers /\ ServedPromise
    BY DEF IInv
<1>1. logged[c] /\ todo[c] # << >> /\ UNCHANGED <<phase, wal, pos, storeFile>> /\ ApplyEntry(e)
    BY <1>0 DEF ApplyWrite, TypeOK, log, files
<1>2. phase \in {"up", "closing"} /\ phase' = phase
    BY <1>0, <1>1 DEF Quiet, NoCallInside
<1>3. e \in WriteEntry /\ e.id \in Id
    BY <1>0, <1>1, HeadIsWrite
<1>4. logged' = [logged EXCEPT ![c] = FALSE] /\ todo' = [todo EXCEPT ![c] = Tail(@)]
    BY DEF ApplyWrite
<1>5. \A id \in Id : data'[id] = Effect(data[id], e, id)
    BY <1>0, <1>1, <1>3, ApplyEntryData
<1>6. Owned'
  <2> SUFFICES ASSUME NEW d \in Client, NEW i \in 1 .. Len(todo'[d])
               PROVE  <<d, todo'[d][i].id>> \in CanWrite
      BY DEF Owned
  <2>1. CASE d = c
    <3>1. todo[c] \in Seq(WriteEntry) /\ todo'[c] = Tail(todo[c])
        BY <1>0, <1>4 DEF TypeOK
    <3>2. i + 1 \in 1 .. Len(todo[c]) /\ todo'[c][i] = todo[c][i+1]
        BY <1>1, <2>1, <3>1
    <3> QED BY <3>2, <2>1, <1>0 DEF Owned
  <2>2. CASE d # c
      BY <2>2, <1>0, <1>4 DEF Owned, TypeOK
  <2> QED BY <2>1, <2>2
<1>7. Quiet' /\ RewriteRecovers' /\ SnapshotWhole' /\ ReplayFollows' /\ FilesKeepPromise'
    BY <1>2 DEF Quiet, RewriteRecovers, RewritingSnapshot, SnapshotWhole, ReplayFollows, FilesKeepPromise
<1>8. \A id \in Id : \A d \in Client : Pending(d, id)' <=> (Pending(d, id) /\ d # c)
    BY <1>0, <1>4 DEF Pending, TypeOK
<1>9. ServedRecovers'
  <2> SUFFICES ASSUME NEW id \in Id, NEW v \in Value, Settles(id, v)' PROVE Recovers(id, v)
      BY <1>1, SameRecovers DEF ServedRecovers
  <2>1. CASE e.id = id
    <3>1. \A d \in Client : Pending(d, id) => d = c
        BY <1>0, <1>1, <2>1, PendingOwner
    <3>2. \A d \in Client : ~Pending(d, id)'
        BY <3>1, <1>8
    <3>3. v = data'[id]
        BY <3>2 DEF Settles
    <3>4. Pending(c, id)
        BY <1>1, <2>1 DEF Pending
    <3>5. Settles(id, v)
        BY <3>3, <3>4, <1>5 DEF Settles
    <3> QED BY <3>5, <1>0, <1>2 DEF ServedRecovers, Served
  <2>2. CASE e.id # id
    <3>1. data'[id] = data[id]
        BY <1>5, <2>2, EffectOther
    <3>2. ~Pending(c, id)
        BY <2>2 DEF Pending
    <3>3. \A d \in Client : d # c => todo'[d] = todo[d]
        BY <1>0, <1>4 DEF TypeOK
    <3>4. Settles(id, v)
      <4>1. CASE v = data'[id] /\ \A d \in Client : ~Pending(d, id)'
          BY <4>1, <3>1, <3>2, <1>8 DEF Settles
      <4>2. ASSUME NEW d \in Client, Pending(d, id)', v = Effect(data'[id], Head(todo'[d]), id)
            PROVE  Settles(id, v)
        <5>1. Pending(d, id) /\ d # c
            BY <4>2, <1>8
        <5> QED BY <5>1, <4>2, <3>1, <3>3 DEF Settles
      <4> QED BY <4>1, <4>2 DEF Settles
    <3> QED BY <3>4, <1>0, <1>2 DEF ServedRecovers, Served
  <2> QED BY <2>1, <2>2
<1>10. ServedPromise'
  <2> SUFFICES ASSUME NEW id \in Id PROVE data'[id] \in promised'[id]
      BY DEF ServedPromise
  <2>1. promised' = [promised EXCEPT ![e.id] = {data'[e.id]}]
      BY DEF ApplyWrite
  <2>2. CASE e.id = id
      BY <2>1, <2>2, <1>0, <1>3 DEF TypeOK
  <2>3. CASE e.id # id
    <3>1. data'[id] = data[id]
        BY <1>5, <2>3, EffectOther
    <3>2. promised'[id] = promised[id]
        BY <2>1, <2>3, <1>0 DEF TypeOK
    <3> QED BY <3>1, <3>2, <1>0, <1>2 DEF ServedPromise, Served
  <2> QED BY <2>2, <2>3
<1> QED BY <1>6, <1>7, <1>9, <1>10 DEF IInv

LEMMA InvCleanup ==
    ASSUME IInv, TypeOK', Cleanup
    PROVE  IInv'
<1>1. UNCHANGED <<phase, todo, logged, data, wal, pos, storeFile, promised>>
    BY DEF Cleanup, CleanUp, calls, log, files
<1> QED
    BY <1>1, SameSettles, SameRecovers
    DEF IInv, Owned, Quiet, NoCallInside, ServedRecovers, RewriteRecovers, RewritingSnapshot,
        SnapshotWhole, ReplayFollows, ServedPromise, FilesKeepPromise

\* Starting a shutdown changes nothing but the phase.
LEMMA InvBeginShutdown ==
    ASSUME IInv, TypeOK', BeginShutdown
    PROVE  IInv'
<1>1. phase = "up" /\ phase' = "closing"
    BY DEF BeginShutdown, Move
<1>2. UNCHANGED <<todo, logged, data, wal, pos, storeFile, promised>>
    BY DEF BeginShutdown, calls, store, log, files
<1>3. ServedRecovers' /\ ServedPromise'
    BY <1>1, <1>2, SameSettles, SameRecovers DEF IInv, ServedRecovers, ServedPromise, Served
<1> QED
    BY <1>1, <1>2, <1>3
    DEF IInv, Owned, Quiet, RewriteRecovers, RewritingSnapshot, SnapshotWhole, ReplayFollows, FilesKeepPromise

\* Saving: from the forced cleanup to the cleared log the store stands still;
\* the log is harmless over it before, during and after the rewriting.
LEMMA InvSave ==
    ASSUME IInv, TypeOK', SaveStep
    PROVE  IInv'
<1>0. /\ TypeOK /\ Owned /\ Quiet /\ ServedRecovers /\ RewriteRecovers
      /\ SnapshotWhole /\ ServedPromise
    BY DEF IInv
<1>1. UNCHANGED <<todo, logged, reply, promised>>
    BY DEF SaveStep, ForcedCleanup, OpenStoreFile, OpenIndexFile, CloseIndexFile, CloseStoreFile,
           OpenMetadata, CloseMetadata, ClearWAL, calls
<1>2. NoCallInside /\ NoCallInside'
    BY <1>0, <1>1
    DEF SaveStep, ForcedCleanup, OpenStoreFile, OpenIndexFile, CloseIndexFile, CloseStoreFile,
        OpenMetadata, CloseMetadata, ClearWAL, Quiet, NoCallInside, Move
<1>3. Owned' /\ Quiet' /\ ReplayFollows'
    BY <1>0, <1>1, <1>2
    DEF SaveStep, ForcedCleanup, OpenStoreFile, OpenIndexFile, CloseIndexFile, CloseStoreFile,
        OpenMetadata, CloseMetadata, ClearWAL, Owned, Quiet, Move, ReplayFollows
<1>4. \A id \in Id : data[id] \in Value /\ Len(wal) \in Nat
    BY <1>0 DEF TypeOK
<1>5. ASSUME phase \in Served, NEW id \in Id PROVE Recovers(id, data[id])
    BY <1>5, <1>0, <1>2, <1>4, QuietSettles DEF ServedRecovers
<1>6. CASE ForcedCleanup
  <2>1. phase = "closing" /\ phase' = "cleaned" /\ UNCHANGED <<data, wal, storeFile>>
      BY <1>6 DEF ForcedCleanup, Move, CleanUp, log, files
  <2>2. ServedRecovers'
      BY <2>1, <1>0, <1>1, SameSettles, SameRecovers DEF ServedRecovers, Served
  <2> QED
      BY <2>1, <2>2, <1>0, <1>1, <1>3
      DEF IInv, RewriteRecovers, RewritingSnapshot, SnapshotWhole, ServedPromise, Served, FilesKeepPromise
<1>7. CASE OpenStoreFile
  <2>1. phase = "cleaned" /\ phase' = "storeOpen" /\ UNCHANGED <<data, wal>>
      BY <1>7 DEF OpenStoreFile, Move, store, log
  <2>2. \A id \in Id : Yields(data[id], wal, Len(wal), id, data[id])
    <3> SUFFICES ASSUME NEW id \in Id PROVE Yields(data[id], wal, Len(wal), id, data[id])
        OBVIOUS
    <3>1. Recovers(id, data[id])
        BY <1>5, <2>1 DEF Served
    <3> QED BY <3>1, <1>4, YieldsIdempotent DEF Recovers
  <2>3. RewriteRecovers'
      BY <2>1, <2>2 DEF RewriteRecovers
  <2> QED
      BY <2>1, <2>3, <1>0, <1>1, <1>3
      DEF IInv, ServedRecovers, SnapshotWhole, ServedPromise, Served, FilesKeepPromise
<1>8. CASE OpenIndexFile \/ CloseIndexFile
  <2>1. RewritingSnapshot /\ phase' \in {"indexOpen", "indexDone"} /\ UNCHANGED <<data, wal>>
      BY <1>8 DEF OpenIndexFile, CloseIndexFile, Move, RewritingSnapshot, store, log
  <2> QED
      BY <2>1, <1>0, <1>1, <1>3
      DEF IInv, RewriteRecovers, ServedRecovers, SnapshotWhole, ServedPromise, Served, FilesKeepPromise
<1>9. CASE CloseStoreFile
  <2>1. RewritingSnapshot /\ phase' = "snapshotSaved" /\ UNCHANGED <<data, wal>> /\ storeFile' = data
      BY <1>9 DEF CloseStoreFile, Move, RewritingSnapshot, store, log
  <2>2. ServedRecovers'
    <3> SUFFICES ASSUME NEW id \in Id, NEW v \in Value, Settles(id, v)' PROVE Recovers(id, v)'
        BY DEF ServedRecovers
    <3>1. v = data[id]
        BY <1>0, <1>1, <1>2, <2>1, SameSettles, QuietSettles
    <3>2. Yields(data[id], wal, Len(wal), id, data[id])
        BY <1>0, <2>1 DEF RewriteRecovers
    <3> QED BY <3>1, <3>2, <2>1 DEF Recovers
  <2> QED
      BY <2>1, <2>2, <1>0, <1>1, <1>3
      DEF IInv, RewriteRecovers, RewritingSnapshot, SnapshotWhole, ServedPromise, FilesKeepPromise
<1>10. CASE OpenMetadata \/ CloseMetadata
  <2>1. /\ phase \in {"snapshotSaved", "metaOpen"} /\ phase' \in {"metaOpen", "metaSaved"}
        /\ UNCHANGED <<data, wal, storeFile>>
      BY <1>10 DEF OpenMetadata, CloseMetadata, Move, store, log
  <2>2. ServedRecovers'
      BY <2>1, <1>0, <1>1, SameSettles, SameRecovers DEF ServedRecovers, Served
  <2> QED
      BY <2>1, <2>2, <1>0, <1>1, <1>3
      DEF IInv, RewriteRecovers, RewritingSnapshot, SnapshotWhole, ServedPromise, Served, FilesKeepPromise
<1>11. CASE ClearWAL
  <2>1. phase = "metaSaved" /\ phase' = "down" /\ wal' = << >> /\ storeFile' = storeFile
      BY <1>11 DEF ClearWAL, Move, files
  <2>2. FilesKeepPromise'
    <3> SUFFICES ASSUME NEW id \in Id PROVE \E v \in promised'[id] : Recovers(id, v)'
        BY DEF FilesKeepPromise
    <3>1. storeFile'[id] = data[id] /\ data[id] \in promised'[id]
        BY <1>0, <1>1, <2>1 DEF SnapshotWhole, ServedPromise, Served
    <3>2. Yields(data[id], << >>, 0, id, data[id])
        BY YieldsNothing
    <3>3. \A v : v = data[id] => Recovers(id, v)'
        BY <2>1, <3>1, <3>2 DEF Recovers
    <3> QED BY <3>1, <3>3
  <2> QED
      BY <2>1, <2>2, <1>1, <1>3
      DEF IInv, ServedRecovers, RewriteRecovers, RewritingSnapshot, SnapshotWhole, ServedPromise, Served
<1> QED BY <1>6, <1>7, <1>8, <1>9, <1>10, <1>11 DEF SaveStep

\* A crash of a served table: the files bring back the store, or the store
\* with a logged write that was not answered; both were promised.
LEMMA InvCrash ==
    ASSUME TornFiles = FALSE, IInv, TypeOK', Crash
    PROVE  IInv'
<1>0. TypeOK /\ ServedRecovers /\ ServedPromise /\ FilesKeepPromise
    BY DEF IInv
<1>1. phase' = "down" /\ ~Rewriting /\ phase \notin {"down", "orphan"}
    BY DEF Crash
<1>2. storeFile' = storeFile /\ wal' = wal
    BY <1>1 DEF Crash, Rewriting
<1>3. NoCallInside'
    BY DEF Crash, NoCallInside
<1>4. Owned'
    BY DEF Crash, Owned
<1>5. FilesKeepPromise'
  <2> SUFFICES ASSUME NEW id \in Id PROVE \E v \in promised'[id] : Recovers(id, v)
      BY <1>2, SameRecovers DEF FilesKeepPromise
  <2>1. promised'[id] = promised[id] \cup InDoubt(id)
      BY DEF Crash
  <2>2. CASE phase = "replay"
      BY <2>1, <2>2, <1>0 DEF FilesKeepPromise
  <2>3. CASE phase \in Served
    <3>0. data[id] \in Value
        BY <1>0 DEF TypeOK
    <3>1. CASE \A c \in Client : ~Pending(c, id)
      <4>1. Recovers(id, data[id])
          BY <3>0, <3>1, <2>3, <1>0 DEF ServedRecovers, Settles
      <4> QED BY <4>1, <2>1, <2>3, <1>0 DEF ServedPromise
    <3>2. CASE \E c \in Client : Pending(c, id)
      <4>1. PICK c \in Client : Pending(c, id)
          BY <3>2
      <4> DEFINE w == Effect(data[id], Head(todo[c]), id)
      <4>2. todo[c] # << >> /\ logged[c]
          BY <4>1, <1>0 DEF Pending, TypeOK
      <4>3. w \in Value
          BY <4>2, <3>0, <1>0, HeadIsWrite, EffectType DEF LogEntry
      <4>4. w \in InDoubt(id)
          BY <4>2 DEF InDoubt
      <4>5. Recovers(id, w)
          BY <4>1, <4>3, <2>3, <1>0 DEF ServedRecovers, Settles
      <4> QED BY <4>4, <4>5, <2>1
    <3> QED BY <3>1, <3>2
  <2> QED BY <2>2, <2>3, <1>0, <1>1 DEF TypeOK, Phase, Served, Rewriting, RewritingSnapshot
<1> QED
    BY <1>1, <1>3, <1>4, <1>5
    DEF IInv, Quiet, ServedRecovers, RewriteRecovers, RewritingSnapshot, SnapshotWhole,
        ReplayFollows, ServedPromise, Served

\* A restart loads the snapshot and has replayed nothing yet; the create line
\* that it appends has no effect on any id.
LEMMA InvRestart ==
    ASSUME IInv, TypeOK', Restart
    PROVE  IInv'
<1>0. TypeOK /\ Owned /\ Quiet /\ FilesKeepPromise
    BY DEF IInv
<1>1. /\ phase = "down" /\ phase' = "replay" /\ wal' = Append(wal, CreateEntry) /\ pos' = 0
      /\ data' = storeFile /\ UNCHANGED <<todo, storeFile, promised>>
    BY DEF Restart, LoadSnapshot, calls, files
<1>2. Owned' /\ Quiet'
    BY <1>0, <1>1 DEF Owned, Quiet, NoCallInside
<1>3. wal \in Seq(LogEntry) /\ storeFile \in [Id -> Value] /\ promised \in [Id -> SUBSET Value]
    BY <1>0 DEF TypeOK
<1>4. CreateEntry \in LogEntry
    BY DEF LogEntry
<1>5. ReplayFollows'
  <2>1. 0 <= Len(wal')
      BY <1>1, <1>3, <1>4
  <2>2. \A id \in Id : Yields(storeFile[id], wal', 0, id, data'[id])
      BY <1>1, YieldsNothing
  <2> QED BY <1>1, <2>1, <2>2 DEF ReplayFollows
<1>6. FilesKeepPromise'
  <2> SUFFICES ASSUME NEW id \in Id PROVE \E v \in promised'[id] : Recovers(id, v)'
      BY DEF FilesKeepPromise
  <2>1. PICK v \in promised[id] : Recovers(id, v)
      BY <1>0, <1>1 DEF FilesKeepPromise
  <2>2. v \in Value /\ storeFile[id] \in Value
      BY <1>3
  <2>3. Yields(storeFile[id], Append(wal, CreateEntry), Len(Append(wal, CreateEntry)), id,
               Effect(v, CreateEntry, id))
      BY <2>1, <2>2, <1>3, <1>4, YieldsAppend DEF Recovers
  <2>4. Yields(storeFile[id], wal', Len(wal'), id, v)
      BY <2>3, <1>1, EffectCreate
  <2> QED BY <2>4, <1>1 DEF Recovers
<1> QED
    BY <1>1, <1>2, <1>5, <1>6
    DEF IInv, ServedRecovers, RewriteRecovers, RewritingSnapshot, SnapshotWhole, ServedPromise, Served

\* One more line replayed; after the last one the store is what the files
\* bring back.
LEMMA InvReplay ==
    ASSUME IInv, TypeOK', ReplayStep
    PROVE  IInv'
<1>0. TypeOK /\ Owned /\ Quiet /\ ReplayFollows /\ FilesKeepPromise
    BY DEF IInv
<1>1. wal \in Seq(LogEntry) /\ storeFile \in [Id -> Value] /\ data \in [Id -> Value]
      /\ promised \in [Id -> SUBSET Value] /\ pos \in Nat
    BY <1>0 DEF TypeOK
<1>2. CASE ReplayEntry
  <2>1. /\ phase = "replay" /\ phase' = phase /\ pos' = pos + 1 /\ pos < Len(wal)
        /\ UNCHANGED <<todo, wal, storeFile, promised>>
      BY <1>2 DEF ReplayEntry, calls, files
  <2> DEFINE e == wal[pos + 1]
  <2>2. e \in LogEntry
      BY <2>1, <1>1
  <2>3. \A id \in Id : data'[id] = Effect(data[id], e, id)
    <3>1. CASE e.op = "create"
      <4>1. data' = data
          BY <1>2, <3>1 DEF ReplayEntry, store
      <4> QED BY <4>1, <3>1 DEF Effect, Adds, Kills
    <3>2. CASE e.op # "create"
      <4>1. e \in WriteEntry
          BY <2>2, <3>2 DEF LogEntry, CreateEntry
      <4>2. ApplyEntry(e)
          BY <1>2, <3>2 DEF ReplayEntry
      <4> QED BY <4>1, <4>2, <1>0, ApplyEntryData
    <3> QED BY <3>1, <3>2
  <2>4. \A i \in 1 .. pos + 1 : wal[i] \in LogEntry
      BY <2>1, <1>1
  <2>5. ASSUME NEW id \in Id PROVE Yields(storeFile[id], wal, pos + 1, id, data'[id])
    <3>1. Yields(storeFile[id], wal, pos, id, data[id])
        BY <2>1, <1>0 DEF ReplayFollows
    <3>2. \A i \in 1 .. pos + 1 : Adds(wal[i], id) => wal[i].payload \in Payload
        BY <2>4 DEF Adds, LogEntry, WriteEntry, InsertEntry, RemoveEntry, CreateEntry
    <3>3. storeFile[id] \in Value /\ data[id] \in Value
        BY <1>1
    <3> HIDE DEF e
    <3>4. Yields(storeFile[id], wal, pos + 1, id, Effect(data[id], wal[pos + 1], id))
        BY <3>1, <3>2, <3>3, <1>1, YieldsStep
    <3> QED BY <3>4, <2>3 DEF e
  <2>6. ReplayFollows'
      BY <2>1, <2>5, <1>1 DEF ReplayFollows
  <2>7. FilesKeepPromise'
      BY <2>1, <1>0, SameRecovers DEF FilesKeepPromise
  <2> QED
      BY <2>1, <2>6, <2>7, <1>0
      DEF IInv, Owned, Quiet, NoCallInside, ServedRecovers, RewriteRecovers, RewritingSnapshot,
          SnapshotWhole, ServedPromise, Served
<1>3. CASE EndReplay
  <2>1. /\ phase = "replay" /\ phase' = "up" /\ pos = Len(wal)
        /\ UNCHANGED <<todo, logged, data, wal, storeFile, promised>>
      BY <1>3 DEF EndReplay, Move, calls, store, files
  <2>2. \A id \in Id : Recovers(id, data[id])
      BY <2>1, <1>0 DEF ReplayFollows, Recovers
  <2>3. NoCallInside
      BY <2>1, <1>0 DEF Quiet
  <2>4. ServedRecovers'
    <3> SUFFICES ASSUME NEW id \in Id, NEW v \in Value, Settles(id, v)' PROVE Recovers(id, v)'
        BY DEF ServedRecovers
    <3>1. v = data[id]
        BY <2>1, <2>3, <1>0, SameSettles, QuietSettles
    <3> QED BY <3>1, <2>2, <2>1, SameRecovers
  <2>5. ServedPromise'
    <3> SUFFICES ASSUME NEW id \in Id PROVE data[id] \in promised[id]
        BY <2>1 DEF ServedPromise
    <3>1. PICK v \in promised[id] : Recovers(id, v)
        BY <2>1, <1>0 DEF FilesKeepPromise
    <3>2. Len(wal) \in Nat
        BY <1>1
    <3>3. v = data[id]
        BY <3>1, <3>2, <2>2, YieldsUnique DEF Recovers
    <3> QED BY <3>1, <3>3
  <2> QED
      BY <2>1, <2>4, <2>5, <1>0
      DEF IInv, Owned, Quiet, RewriteRecovers, RewritingSnapshot, SnapshotWhole, ReplayFollows, FilesKeepPromise
<1> QED BY <1>2, <1>3 DEF ReplayStep

\* An engine that found no usable metadata touches nothing.
LEMMA InvOther ==
    ASSUME IInv, TypeOK', RestartWithoutTable \/ StopWithoutTable \/ UNCHANGED vars
    PROVE  IInv'
<1>1. CASE UNCHANGED vars
    BY <1>1, SameSettles, SameRecovers
    DEF vars, calls, store, log, files, IInv, Owned, Quiet, NoCallInside, ServedRecovers,
        RewriteRecovers, RewritingSnapshot, SnapshotWhole, ReplayFollows, ServedPromise, FilesKeepPromise
<1>2. CASE RestartWithoutTable \/ StopWithoutTable
  <2>1. /\ phase \in {"down", "orphan"} /\ phase' \in {"down", "orphan"}
        /\ UNCHANGED <<todo, wal, storeFile, promised>>
      BY <1>2 DEF RestartWithoutTable, StopWithoutTable, Move, calls, log, files
  <2>2. FilesKeepPromise'
      BY <2>1, SameRecovers DEF IInv, FilesKeepPromise
  <2> QED
      BY <2>1, <2>2
      DEF IInv, Owned, Quiet, NoCallInside, ServedRecovers, RewriteRecovers, RewritingSnapshot,
          SnapshotWhole, ReplayFollows, ServedPromise, Served
<1> QED BY <1>1, <1>2

LEMMA InvInit == Init => IInv
<1> SUFFICES ASSUME Init PROVE IInv
    OBVIOUS
<1>1. TypeOK
    BY TypeInit
<1>2. /\ phase = "up" /\ wal = <<CreateEntry>> /\ NoCallInside /\ Len(wal) = 1 /\ wal[1] = CreateEntry
      /\ \A id \in Id : storeFile[id] = Absent /\ data[id] = Absent /\ promised[id] = {Absent}
    BY DEF Init, NoCallInside, EmptyMap
<1>3. \A id \in Id : Recovers(id, Absent)
  <2> SUFFICES ASSUME NEW id \in Id PROVE Recovers(id, Absent)
      OBVIOUS
  <2>1. \A i \in 1 .. 1 : ~Kills(wal[i], id) /\ ~Adds(wal[i], id)
      BY <1>2 DEF Adds, Kills, CreateEntry
  <2>2. Yields(Absent, wal, 1, id, Absent)
      BY <2>1, YieldsOthers
  <2> QED BY <1>2, <2>2 DEF Recovers
<1>4. ServedRecovers
    BY <1>1, <1>2, <1>3, QuietSettles DEF ServedRecovers
<1> QED
    BY <1>1, <1>2, <1>4
    DEF IInv, Init, Owned, Quiet, RewriteRecovers, RewritingSnapshot, SnapshotWhole, ReplayFollows,
        ServedPromise, FilesKeepPromise

LEMMA InvStep ==
    ASSUME SingleWriter, TornFiles = FALSE
    PROVE  IInv /\ [Next]_vars => IInv'
<1> SUFFICES ASSUME IInv, [Next]_vars PROVE IInv'
    OBVIOUS
<1>1. TypeOK'
    BY TypeStep DEF IInv
<1> QED
    BY <1>1, InvBegin, InvLog, InvApply, InvCleanup, InvBeginShutdown, InvSave, InvCrash,
       InvRestart, InvReplay, InvOther
    DEF Next, ClientStep

\* With one writer per id and no crash inside a file rewrite, the inductive
\* invariant holds in every reachable state.
THEOREM InvariantHolds ==
    ASSUME SingleWriter, TornFiles = FALSE
    PROVE  Spec => []IInv
<1>1. Init => IInv
    BY InvInit
<1>2. IInv /\ [Next]_vars => IInv'
    BY InvStep
<1> QED BY <1>1, <1>2, PTL DEF Spec

\* Every id settles to some value.
LEMMA SettlesExists ==
    ASSUME TypeOK, NEW id \in Id
    PROVE  \E v \in Value : Settles(id, v)
<1>1. data[id] \in Value
    BY DEF TypeOK
<1>2. CASE \A c \in Client : ~Pending(c, id)
    BY <1>1, <1>2 DEF Settles
<1>3. ASSUME NEW c \in Client, Pending(c, id)
      PROVE  \E v \in Value : Settles(id, v)
  <2> DEFINE w == Effect(data[id], Head(todo[c]), id)
  <2>1. todo[c] # << >>
      BY <1>3 DEF Pending, TypeOK
  <2>2. w \in Value
      BY <2>1, <1>1, HeadIsWrite, EffectType DEF LogEntry
  <2> QED BY <2>2, <1>3 DEF Settles
<1> QED BY <1>2, <1>3

\* Crash safety: whatever the clients do and wherever the process dies outside
\* a file rewrite, replaying the log over the snapshot gives back the store
\* that is served, pending writes included, and nothing else.
THEOREM CrashSafety ==
    ASSUME SingleWriter, TornFiles = FALSE
    PROVE  Spec => []CrashSafe
<1>1. IInv => CrashSafe
  <2> SUFFICES ASSUME IInv, phase \in Served, NEW id \in Id, NEW v \in Value
               PROVE  Recovers(id, v) <=> Settles(id, v)
      BY DEF CrashSafe
  <2>1. TypeOK /\ \A w \in Value : Settles(id, w) => Recovers(id, w)
      BY DEF IInv, ServedRecovers
  <2>2. Len(wal) \in Nat
      BY <2>1 DEF TypeOK
  <2>3. PICK w \in Value : Settles(id, w)
      BY <2>1, SettlesExists
  <2>4. Recovers(id, v) => v = w
      BY <2>1, <2>2, <2>3, YieldsUnique DEF Recovers
  <2> QED BY <2>1, <2>3, <2>4
<1> QED BY <1>1, InvariantHolds, PTL

\* The promise: an id with no write in flight holds the value its last answered
\* write left, across crashes, shutdowns and restarts.
THEOREM PromiseHolds ==
    ASSUME SingleWriter, TornFiles = FALSE
    PROVE  Spec => []PromiseKept
<1>1. IInv => PromiseKept
    BY DEF IInv, ServedPromise, Served, PromiseKept
<1> QED BY <1>1, InvariantHolds, PTL

\* A table that is not in memory, a skipped one included, can be rebuilt from
\* its files as promised, whatever crashes and restarts came before: no step
\* of the constructor, the destructor or a crash takes a promised value away.
THEOREM FilesKeep ==
    ASSUME SingleWriter, TornFiles = FALSE
    PROVE  Spec => []FilesKeepPromise
<1>1. IInv => FilesKeepPromise
    BY DEF IInv
<1> QED BY <1>1, InvariantHolds, PTL

-----------------------------------------------------------------------------
(* The index and the store.                                                *)

\* Ids that the index can return are stored, in memory and in whole files; a
\* flat index has the stored ids exactly.
IndexFits(m, ids) == ids \subseteq Present(m) /\ (~Hnsw => Present(m) \subseteq ids)

IndexInv ==
    /\ TypeOK
    /\ Quiet
    /\ IndexFits(data, active)
    /\ ~Hnsw => soft = {}
    /\ ~RewritingSnapshot => IndexFits(storeFile, indexFile)
    /\ phase = "indexDone" => indexFile = active

\* A write keeps index and store together, whatever the index does with ids it
\* has removed but not cleaned up.
LEMMA ApplyEntryIndex ==
    ASSUME TypeOK, NEW e \in WriteEntry, ApplyEntry(e),
           IndexFits(data, active), ~Hnsw => soft = {}
    PROVE  IndexFits(data', active') /\ (~Hnsw => soft' = {})
<1>1. /\ e.id \in Id /\ data \in [Id -> Value] /\ active \in SUBSET Id
      /\ e.op = "insert" => e.payload \in Payload
      /\ e.op \in {"insert", "remove"}
    BY DEF TypeOK, WriteEntry, InsertEntry, RemoveEntry
<1>2. CASE ~Succeeds(data[e.id], e)
    BY <1>2 DEF ApplyEntry, store
<1>3. CASE Succeeds(data[e.id], e) /\ e.op = "insert"
  <2>1. data' = [data EXCEPT ![e.id] = e.payload]
    <3>1. Effect(data[e.id], e, e.id) = e.payload
        BY <1>3 DEF Succeeds, Effect, Adds, Kills
    <3> QED BY <1>3, <3>1 DEF ApplyEntry
  <2>2. e.payload # Absent
      BY <1>1, <1>3, LogAssumption DEF LogAssumption
  <2>3. soft' = soft /\ active' = IF e.id \in soft THEN active ELSE active \cup {e.id}
      BY <1>3 DEF ApplyEntry, IndexInsert
  <2>4. Present(data') = Present(data) \cup {e.id}
      BY <1>1, <2>1, <2>2 DEF Present
  <2> QED BY <2>3, <2>4 DEF IndexFits
<1>4. CASE Succeeds(data[e.id], e) /\ e.op = "remove"
  <2>1. data' = [data EXCEPT ![e.id] = Absent]
    <3>1. Effect(data[e.id], e, e.id) = Absent
        BY <1>4 DEF Effect, Kills
    <3> QED BY <1>4, <3>1 DEF ApplyEntry
  <2>2. /\ active' = active \ {e.id}
        /\ ~Hnsw => soft' = soft
      BY <1>4 DEF ApplyEntry, IndexRemove
  <2>3. Present(data') = Present(data) \ {e.id}
      BY <1>1, <2>1 DEF Present
  <2> QED BY <2>2, <2>3 DEF IndexFits
<1> QED BY <1>1, <1>2, <1>3, <1>4

\* Once the engine shuts down no call is left inside, until it serves again.
LEMMA QuietStep == TypeOK /\ Quiet /\ [Next]_vars => Quiet'
<1> SUFFICES ASSUME TypeOK, Quiet, [Next]_vars PROVE Quiet'
    OBVIOUS
<1>1. ASSUME todo' = todo, phase' \notin {"up", "closing"} => phase \notin {"up", "closing"}
      PROVE  Quiet'
    BY <1>1 DEF Quiet, NoCallInside
<1>2. ASSUME NEW c \in Client, ClientStep(c) PROVE Quiet'
  <2>1. phase' = phase /\ todo[c] # << >>
      BY <1>2 DEF ClientStep, LogWrite, ApplyWrite, TypeOK
  <2> QED BY <2>1 DEF Quiet, NoCallInside
<1>3. ASSUME NEW c \in Client, NEW batch, BeginCall(c, batch) PROVE Quiet'
    BY <1>3 DEF BeginCall, Quiet
<1>4. CASE Cleanup \/ BeginShutdown
    BY <1>1, <1>4 DEF Cleanup, BeginShutdown, Move, calls
<1>5. CASE ForcedCleanup
    BY <1>5 DEF ForcedCleanup, Quiet, NoCallInside, calls
<1>6. CASE OpenStoreFile \/ OpenIndexFile \/ CloseIndexFile \/ CloseStoreFile
    BY <1>1, <1>6 DEF OpenStoreFile, OpenIndexFile, CloseIndexFile, CloseStoreFile, Move, calls
<1>7. CASE OpenMetadata \/ CloseMetadata \/ ClearWAL
    BY <1>1, <1>7 DEF OpenMetadata, CloseMetadata, ClearWAL, Move, calls
<1>8. CASE Crash
    BY <1>8 DEF Crash, Quiet, NoCallInside
<1>9. CASE Restart \/ RestartWithoutTable \/ StopWithoutTable
    BY <1>1, <1>9 DEF Restart, RestartWithoutTable, StopWithoutTable, Move, calls
<1>10. CASE ReplayStep \/ UNCHANGED vars
    BY <1>1, <1>10 DEF ReplayStep, ReplayEntry, EndReplay, Move, calls, vars
<1> QED BY <1>2, <1>3, <1>4, <1>5, <1>6, <1>7, <1>8, <1>9, <1>10 DEF Next, SaveStep

\* Every step keeps index and store together.
LEMMA IndexStep ==
    ASSUME TornFiles = FALSE
    PROVE  IndexInv /\ [Next]_vars => IndexInv'
<1> SUFFICES ASSUME IndexInv, [Next]_vars PROVE IndexInv'
    OBVIOUS
<1>1. TypeOK' /\ Quiet'
    BY TypeStep, QuietStep DEF IndexInv
<1>2. ASSUME UNCHANGED <<store, storeFile, indexFile>>,
             phase' = "indexDone" => phase = "indexDone",
             RewritingSnapshot => RewritingSnapshot'
      PROVE  IndexInv'
    BY <1>1, <1>2 DEF IndexInv, store
<1>3. ASSUME NEW e \in WriteEntry, ApplyEntry(e), UNCHANGED <<phase, storeFile, indexFile>>,
             phase # "indexDone"
      PROVE  IndexInv'
  <2>1. IndexFits(data', active') /\ (~Hnsw => soft' = {})
      BY <1>3, ApplyEntryIndex DEF IndexInv
  <2> QED BY <1>1, <1>3, <2>1 DEF IndexInv, RewritingSnapshot, IndexFits
<1>4. ASSUME CleanUp, UNCHANGED <<storeFile, indexFile>>,
             ~RewritingSnapshot, phase' # "indexDone"
      PROVE  IndexInv'
    BY <1>1, <1>4 DEF CleanUp, IndexInv, IndexFits
<1>5. ASSUME NEW c \in Client, NEW batch, BeginCall(c, batch) PROVE IndexInv'
    BY <1>2, <1>5 DEF BeginCall, files, RewritingSnapshot
<1>6. ASSUME NEW c \in Client, LogWrite(c) PROVE IndexInv'
    BY <1>2, <1>6 DEF LogWrite, files, RewritingSnapshot
<1>7. ASSUME NEW c \in Client, ApplyWrite(c) PROVE IndexInv'
  <2>1. todo[c] # << >> /\ Head(todo[c]) \in WriteEntry
      BY <1>7, HeadIsWrite DEF ApplyWrite, IndexInv, TypeOK
  <2>2. phase # "indexDone"
      BY <2>1 DEF IndexInv, Quiet, NoCallInside
  <2> QED BY <1>3, <1>7, <2>1, <2>2 DEF ApplyWrite, files
<1>8. CASE Cleanup
    BY <1>4, <1>8 DEF Cleanup, files, RewritingSnapshot
<1>9. CASE BeginShutdown
    BY <1>2, <1>9 DEF BeginShutdown, Move, files, RewritingSnapshot
<1>10. CASE ForcedCleanup
    BY <1>4, <1>10 DEF ForcedCleanup, Move, files, RewritingSnapshot
<1>11. CASE OpenStoreFile \/ OpenIndexFile
    BY <1>1, <1>11 DEF OpenStoreFile, OpenIndexFile, Move, IndexInv, store, RewritingSnapshot
<1>12. CASE CloseIndexFile
    BY <1>1, <1>12 DEF CloseIndexFile, Move, IndexInv, store, RewritingSnapshot
<1>13. CASE CloseStoreFile
    BY <1>1, <1>13 DEF CloseStoreFile, Move, IndexInv, IndexFits, store, RewritingSnapshot
<1>14. CASE OpenMetadata \/ CloseMetadata
    BY <1>2, <1>14 DEF OpenMetadata, CloseMetadata, Move, RewritingSnapshot
<1>15. CASE ClearWAL \/ Crash
  <2>1. /\ data' = EmptyMap /\ active' = {} /\ soft' = {} /\ phase' = "down"
        /\ UNCHANGED <<storeFile, indexFile>> /\ ~RewritingSnapshot
      BY <1>15 DEF ClearWAL, Crash, ForgetMemory, Move, files, Rewriting, RewritingSnapshot
  <2>2. IndexFits(EmptyMap, {})
      BY DEF IndexFits, EmptyMap, Present
  <2>3. IndexFits(data', active')
      BY <2>1, <2>2
  <2>4. IndexFits(storeFile', indexFile')
      BY <2>1 DEF IndexInv
  <2> QED BY <1>1, <2>1, <2>3, <2>4 DEF IndexInv
<1>16. CASE Restart
  <2>1. /\ data' = storeFile /\ soft' = {}
        /\ active' = IF storeFile = EmptyMap THEN {} ELSE indexFile
        /\ phase = "down" /\ phase' = "replay"
        /\ UNCHANGED <<storeFile, indexFile>>
      BY <1>16 DEF Restart, LoadSnapshot, files
  <2>2. IndexFits(storeFile, indexFile)
      BY <2>1 DEF IndexInv, RewritingSnapshot
  <2>3. storeFile = EmptyMap => Present(storeFile) = {}
      BY DEF EmptyMap, Present
  <2>4. IndexFits(data', active')
      BY <2>1, <2>2, <2>3 DEF IndexFits
  <2> QED BY <1>1, <2>1, <2>2, <2>4 DEF IndexInv
<1>17. CASE ReplayEntry
  <2>1. pos + 1 \in 1 .. Len(wal) /\ wal[pos + 1] \in LogEntry
      BY <1>17 DEF ReplayEntry, IndexInv, TypeOK
  <2>2. CASE wal[pos + 1].op = "create"
      BY <1>2, <1>17, <2>2 DEF ReplayEntry, files, RewritingSnapshot
  <2>3. CASE wal[pos + 1].op # "create"
    <3>1. wal[pos + 1] \in WriteEntry
        BY <2>1, <2>3 DEF LogEntry, CreateEntry
    <3> QED BY <1>3, <1>17, <2>3, <3>1 DEF ReplayEntry, files
  <2> QED BY <2>2, <2>3
<1>18. CASE EndReplay \/ RestartWithoutTable \/ StopWithoutTable \/ UNCHANGED vars
    BY <1>2, <1>18 DEF EndReplay, RestartWithoutTable, StopWithoutTable, vars, Move, files, RewritingSnapshot
<1> QED
    BY <1>5, <1>6, <1>7, <1>8, <1>9, <1>10, <1>11, <1>12, <1>13, <1>14, <1>15, <1>16, <1>17, <1>18
    DEF Next, ClientStep, SaveStep, ReplayStep

\* The invariant of index and store, for tables whose files are not torn.
LEMMA IndexHolds ==
    ASSUME TornFiles = FALSE
    PROVE  Spec => []IndexInv
<1>1. Init => IndexInv
  <2>1. Init => Quiet /\ ~RewritingSnapshot /\ phase # "indexDone"
      BY DEF Init, Quiet, RewritingSnapshot
  <2>2. Init => IndexFits(data, active) /\ IndexFits(storeFile, indexFile) /\ soft = {}
      BY DEF Init, IndexFits, EmptyMap, Present
  <2> QED BY <2>1, <2>2, TypeInit DEF IndexInv
<1>2. IndexInv /\ [Next]_vars => IndexInv'
    BY IndexStep
<1> QED BY <1>1, <1>2, PTL DEF Spec

\* A search returns stored ids only: the index names no id the store does not
\* hold, whichever of remove, re-insert, cleanup, save, crash, load and replay
\* came before.
THEOREM SearchIsStored ==
    ASSUME TornFiles = FALSE
    PROVE  Spec => []SearchReturnsStored
<1>1. IndexInv => SearchReturnsStored
    BY DEF IndexInv, IndexFits, SearchReturnsStored
<1> QED BY <1>1, IndexHolds, PTL

\* With a flat index every stored id can be found.
THEOREM StoredIsFound ==
    ASSUME TornFiles = FALSE, Hnsw = FALSE
    PROVE  Spec => []StoredIsSearchable
<1>1. IndexInv => StoredIsSearchable
    BY DEF IndexInv, IndexFits, StoredIsSearchable
<1> QED BY <1>1, IndexHolds, PTL

-----------------------------------------------------------------------------
(* The counters.                                                           *)

\* What % returns, for any modulus.
LEMMA ModIs ==
    ASSUME NEW m \in Nat \ {0}, NEW n \in Int
    PROVE  /\ (n % m) \in 0 .. m - 1
           /\ \E q \in Int : (n % m) = n + q * m
<1>1. (n % m) \in 0 .. m - 1
    OBVIOUS
<1>2. n = m * (n \div m) + (n % m)
    OBVIOUS
<1>3. PICK d \in Int : d = n \div m
    OBVIOUS
<1>4. (n % m) = n + (-d) * m /\ -d \in Int
    BY <1>1, <1>2, <1>3
<1> QED BY <1>1, <1>4

\* A number below the modulus is what is left of it.
LEMMA ModOf ==
    ASSUME NEW m \in Nat \ {0}, NEW n \in 0 .. m - 1, NEW k \in Int
    PROVE  (n + k * m) % m = n
<1>1. PICK a \in Int : a = n + k * m
    OBVIOUS
<1>2. PICK q \in Int : (a % m) = a + q * m
    BY ModIs
<1>3. PICK r \in 0 .. m - 1 : r = (a % m)
    BY ModIs
<1>4. PICK d \in Int : d = k + q
    OBVIOUS
<1>5. r = n + d * m
    BY <1>1, <1>2, <1>3, <1>4
<1>6. d > 0 => d * m >= m
    OBVIOUS
<1>7. d < 0 => d * m <= -m
    OBVIOUS
<1>8. d = 0
    BY <1>5, <1>6, <1>7
<1> QED BY <1>1, <1>3, <1>5, <1>8

\* The counters differ by n, up to wrapping around.
Counted(s, n) == \E k \in Int : s.vector - s.deleted = n + k * CounterModulus

\* Counting one more, counting one less and taking the difference keep it so.
LEMMA CountedPlus ==
    ASSUME NEW s \in [vector : Nat, deleted : Nat, stale : Nat], NEW n \in Nat, Counted(s, n)
    PROVE  /\ Counted([s EXCEPT !.vector = Plus(@, 1)], n + 1)
           /\ \A stale \in Nat : Counted([s EXCEPT !.deleted = Plus(@, 1), !.stale = stale], n - 1)
           /\ \A stale \in Nat :
                 Counted([vector |-> Plus(s.vector, -s.deleted), deleted |-> 0, stale |-> stale], n)
<1>1. PICK m \in Nat \ {0} : m = CounterModulus
    BY ConstantsAssumption
<1>2. PICK v \in Nat : v = s.vector
    OBVIOUS
<1>3. PICK d \in Nat : d = s.deleted
    OBVIOUS
<1>4. PICK k \in Int : v - d = n + k * m
    BY <1>1, <1>2, <1>3 DEF Counted
<1>5. Counted([s EXCEPT !.vector = Plus(@, 1)], n + 1)
  <2>0. PICK w \in Int : w = v + 1
      OBVIOUS
  <2>1. PICK q \in Int : (w % m) = w + q * m
      BY ModIs
  <2>2. PICK j \in Int : j = k + q
      OBVIOUS
  <2>3. ((v + 1) % m) - d = n + 1 + j * m
      BY <1>4, <2>0, <2>1, <2>2
  <2>4. Plus(v, 1) - d = n + 1 + j * CounterModulus
      BY <1>1, <2>3 DEF Plus
  <2> QED BY <1>2, <1>3, <2>4 DEF Counted
<1>6. ASSUME NEW stale \in Nat
      PROVE  Counted([s EXCEPT !.deleted = Plus(@, 1), !.stale = stale], n - 1)
  <2>0. PICK w \in Int : w = d + 1
      OBVIOUS
  <2>1. PICK q \in Int : (w % m) = w + q * m
      BY ModIs
  <2>2. PICK j \in Int : j = k - q
      OBVIOUS
  <2>3. v - ((d + 1) % m) = n - 1 + j * m
      BY <1>4, <2>0, <2>1, <2>2
  <2>4. v - Plus(d, 1) = n - 1 + j * CounterModulus
      BY <1>1, <2>3 DEF Plus
  <2> QED BY <1>2, <1>3, <2>4 DEF Counted
<1>7. ASSUME NEW stale \in Nat
      PROVE  Counted([vector |-> Plus(s.vector, -s.deleted), deleted |-> 0, stale |-> stale], n)
  <2>0. PICK w \in Int : w = v - d
      OBVIOUS
  <2>1. PICK q \in Int : (w % m) = w + q * m
      BY ModIs
  <2>2. PICK j \in Int : j = k + q
      OBVIOUS
  <2>3. ((v - d) % m) - 0 = n + j * m
      BY <1>4, <2>0, <2>1, <2>2
  <2>4. v + (-d) = v - d
      OBVIOUS
  <2>5. Plus(v, -d) - 0 = n + j * CounterModulus
      BY <1>1, <2>3, <2>4 DEF Plus
  <2> QED BY <1>2, <1>3, <2>5 DEF Counted
<1> QED BY <1>5, <1>6, <1>7

\* A write changes the store and the counters alike.
LEMMA ApplyEntryCounted ==
    ASSUME TypeOK, NEW e \in WriteEntry, ApplyEntry(e),
           Counted(stats, Cardinality(Present(data)))
    PROVE  Counted(stats', Cardinality(Present(data')))
<1>1. /\ e.id \in Id /\ data \in [Id -> Value]
      /\ stats \in [vector : Nat, deleted : Nat, stale : Nat]
      /\ e.op = "insert" => e.payload \in Payload
      /\ e.op \in {"insert", "remove"}
    BY DEF TypeOK, WriteEntry, InsertEntry, RemoveEntry
<1>2. IsFiniteSet(Present(data)) /\ Cardinality(Present(data)) \in Nat
    BY FS_Subset, FS_CardinalityType, ConstantsAssumption DEF Present
<1>3. PICK n \in Nat : n = Cardinality(Present(data))
    BY <1>2
<1>4. PICK s \in [vector : Nat, deleted : Nat, stale : Nat] : s = stats
    BY <1>1
<1>5. Counted(s, n)
    BY <1>3, <1>4
<1>6. CASE ~Succeeds(data[e.id], e)
    BY <1>6 DEF ApplyEntry, store, counters
<1>7. CASE Succeeds(data[e.id], e) /\ e.op = "insert"
  <2>1. data' = [data EXCEPT ![e.id] = e.payload]
    <3>1. Effect(data[e.id], e, e.id) = e.payload
        BY <1>7 DEF Succeeds, Effect, Adds, Kills
    <3> QED BY <1>7, <3>1 DEF ApplyEntry
  <2>2. e.payload # Absent /\ data[e.id] = Absent
      BY <1>1, <1>7, LogAssumption DEF LogAssumption, Succeeds
  <2>3. Present(data') = Present(data) \cup {e.id} /\ e.id \notin Present(data)
      BY <1>1, <2>1, <2>2 DEF Present
  <2>4. Cardinality(Present(data')) = n + 1
      BY <1>2, <1>3, <2>3, FS_AddElement
  <2>5. stats' = [s EXCEPT !.vector = Plus(@, 1)]
      BY <1>4, <1>7 DEF ApplyEntry
  <2> QED BY <1>5, <2>4, <2>5, CountedPlus
<1>8. CASE Succeeds(data[e.id], e) /\ e.op = "remove"
  <2>1. data' = [data EXCEPT ![e.id] = Absent]
    <3>1. Effect(data[e.id], e, e.id) = Absent
        BY <1>8 DEF Effect, Kills
    <3> QED BY <1>8, <3>1 DEF ApplyEntry
  <2>2. Present(data') = Present(data) \ {e.id} /\ e.id \in Present(data)
      BY <1>1, <1>8, <2>1 DEF Present, Succeeds
  <2>3. Cardinality(Present(data')) = n - 1
      BY <1>2, <1>3, <2>2, FS_RemoveElement
  <2>4. PICK stale \in Nat : stale = Plus(s.stale, 1)
    <3>1. s.stale \in Int /\ 1 \in Int
        OBVIOUS
    <3> QED BY <3>1, PlusType
  <2>5. stats' = [s EXCEPT !.deleted = Plus(@, 1), !.stale = stale]
      BY <1>4, <1>8, <2>4 DEF ApplyEntry
  <2> QED BY <1>5, <2>3, <2>5, CountedPlus
<1> QED BY <1>1, <1>6, <1>7, <1>8

\* Before the first crash the log that a start finds holds no write: the
\* destructor has cleared it.
CountInv ==
    crashes = 0 =>
        /\ phase = "up" => Counted(stats, Cardinality(Present(data)))
        /\ phase = "replay" => stats.deleted = 0
        /\ phase \in {"replay", "down", "orphan"} => \A i \in 1 .. Len(wal) : wal[i] = CreateEntry

\* Every step keeps it so.
LEMMA CountStep ==
    ASSUME TypeOK, Quiet, CountInv, [Next]_vars
    PROVE  CountInv'
<1>1. ASSUME UNCHANGED <<stats, data, wal, crashes>>,
             phase' = "up" => phase = "up",
             phase' = "replay" => phase = "replay",
             phase' \in {"down", "orphan"} => phase \in {"replay", "down", "orphan"}
      PROVE  CountInv'
    BY <1>1 DEF CountInv
<1>2. ASSUME phase' \notin {"up", "replay", "down", "orphan"} PROVE CountInv'
    BY <1>2 DEF CountInv
<1>3. ASSUME NEW c \in Client, NEW batch, BeginCall(c, batch) PROVE CountInv'
    BY <1>1, <1>3 DEF BeginCall, store, counters, log
<1>4. ASSUME NEW c \in Client, LogWrite(c) PROVE CountInv'
  <2>1. phase' = phase /\ phase \in {"up", "closing"} /\ UNCHANGED <<stats, data, crashes>>
      BY <1>4 DEF LogWrite, Quiet, NoCallInside, store, counters
  <2> QED BY <2>1 DEF CountInv
<1>5. ASSUME NEW c \in Client, ApplyWrite(c) PROVE CountInv'
  <2>1. todo[c] # << >> /\ Head(todo[c]) \in WriteEntry
      BY <1>5, HeadIsWrite DEF ApplyWrite, TypeOK
  <2>2. phase' = phase /\ phase \in {"up", "closing"} /\ UNCHANGED crashes
      BY <1>5, <2>1 DEF ApplyWrite, Quiet, NoCallInside
  <2>3. ApplyEntry(Head(todo[c]))
      BY <1>5 DEF ApplyWrite
  <2>4. Counted(stats, Cardinality(Present(data))) => Counted(stats', Cardinality(Present(data')))
      BY <2>1, <2>3, ApplyEntryCounted
  <2> QED BY <2>2, <2>4 DEF CountInv
<1>6. CASE Cleanup
  <2>1. /\ phase' = phase /\ phase \in {"up", "replay"} /\ UNCHANGED <<data, wal, crashes>>
        /\ CleanUp
      BY <1>6 DEF Cleanup, CleanUp, log
  <2>2. stats'.deleted = 0
      BY <2>1 DEF CleanUp
  <2>3. Counted(stats, Cardinality(Present(data))) => Counted(stats', Cardinality(Present(data)))
    <3>1. PICK s \in [vector : Nat, deleted : Nat, stale : Nat] : s = stats
        BY DEF TypeOK
    <3>2. PICK n \in Nat : n = Cardinality(Present(data))
        BY FS_Subset, FS_CardinalityType, ConstantsAssumption DEF Present
    <3>3. PICK stale \in Nat : stale = IF Reindexes THEN 0 ELSE s.stale
        OBVIOUS
    <3>4. stats' = [vector |-> Plus(s.vector, -s.deleted), deleted |-> 0, stale |-> stale]
        BY <2>1, <3>1, <3>3 DEF CleanUp
    <3> QED BY <3>1, <3>2, <3>4, CountedPlus
  <2> QED BY <2>1, <2>2, <2>3 DEF CountInv
<1>7. CASE BeginShutdown \/ ForcedCleanup
    BY <1>2, <1>7 DEF BeginShutdown, ForcedCleanup, Move
<1>8. CASE OpenStoreFile \/ OpenIndexFile \/ CloseIndexFile \/ CloseStoreFile
    BY <1>2, <1>8 DEF OpenStoreFile, OpenIndexFile, CloseIndexFile, CloseStoreFile, Move
<1>9. CASE OpenMetadata \/ CloseMetadata
    BY <1>2, <1>9 DEF OpenMetadata, CloseMetadata, Move
<1>10. CASE ClearWAL
  <2>1. wal' = << >> /\ phase' = "down"
      BY <1>10 DEF ClearWAL, Move
  <2> QED BY <2>1 DEF CountInv
<1>11. CASE Crash
  <2>1. crashes' # 0
      BY <1>11 DEF Crash, TypeOK
  <2> QED BY <2>1 DEF CountInv
<1>12. CASE Restart
  <2>1. /\ phase = "down" /\ phase' = "replay" /\ wal' = Append(wal, CreateEntry)
        /\ stats'.deleted = 0 /\ crashes' = crashes
      BY <1>12 DEF Restart, ZeroStats
  <2>2. wal \in Seq(LogEntry)
      BY DEF TypeOK
  <2>3. (\A i \in 1 .. Len(wal) : wal[i] = CreateEntry)
           => \A i \in 1 .. Len(wal') : wal'[i] = CreateEntry
      BY <2>1, <2>2 DEF LogEntry
  <2> QED BY <2>1, <2>3 DEF CountInv
<1>13. CASE RestartWithoutTable \/ StopWithoutTable
    BY <1>1, <1>13 DEF RestartWithoutTable, StopWithoutTable, Move, store, counters, log
<1>14. CASE ReplayEntry
  <2>1. phase' = phase /\ phase = "replay" /\ UNCHANGED <<wal, crashes>> /\ pos + 1 \in 1 .. Len(wal)
      BY <1>14 DEF ReplayEntry, TypeOK
  <2>2. crashes = 0 => wal[pos + 1].op = "create"
      BY <2>1 DEF CountInv, CreateEntry
  <2>3. crashes = 0 => stats' = stats
      BY <1>14, <2>2 DEF ReplayEntry, counters
  <2> QED BY <2>1, <2>3 DEF CountInv
<1>15. CASE EndReplay
  <2>1. /\ phase = "replay" /\ phase' = "up" /\ UNCHANGED <<data, crashes>>
        /\ stats' = [stats EXCEPT !.vector = Cardinality(Present(data)) % CounterModulus]
      BY <1>15 DEF EndReplay, Move, store
  <2>2. PICK n \in Nat : n = Cardinality(Present(data))
      BY FS_Subset, FS_CardinalityType, ConstantsAssumption DEF Present
  <2>3. PICK q \in Int : (n % CounterModulus) = n + q * CounterModulus
    <3>1. n \in Int /\ CounterModulus \in Nat \ {0}
        BY ConstantsAssumption
    <3> QED BY <3>1, ModIs
  <2>4. stats'.vector = n + q * CounterModulus /\ stats'.deleted = stats.deleted
      BY <2>1, <2>2, <2>3 DEF TypeOK
  <2>5. stats.deleted = 0 => Counted(stats', n)
    <3>1. n + q * CounterModulus \in Int
        BY <2>2, <2>3, ConstantsAssumption
    <3>2. ASSUME stats.deleted = 0
          PROVE  stats'.vector - stats'.deleted = n + q * CounterModulus
        BY <2>4, <3>1, <3>2
    <3> QED BY <3>2 DEF Counted
  <2> QED BY <2>1, <2>2, <2>5 DEF CountInv
<1>16. CASE UNCHANGED vars
    BY <1>1, <1>16 DEF vars, store, counters, log
<1> QED
    BY <1>3, <1>4, <1>5, <1>6, <1>7, <1>8, <1>9, <1>10, <1>11, <1>12, <1>13, <1>14, <1>15, <1>16
    DEF Next, ClientStep, SaveStep, ReplayStep

\* Until the engine has crashed the number of vectors that GetStats reports is
\* the number stored, through every write, cleanup, shutdown and start, as long
\* as the ids are fewer than the counters can count.
THEOREM CountIsStored ==
    ASSUME Cardinality(Id) < CounterModulus
    PROVE  Spec => [](crashes = 0 => StatsCountStored)
<1>1. Init => TypeOK /\ Quiet /\ CountInv
  <2> SUFFICES ASSUME Init PROVE TypeOK /\ Quiet /\ CountInv
      OBVIOUS
  <2>1. phase = "up" /\ stats = ZeroStats /\ data = EmptyMap
      BY DEF Init
  <2>2. Present(data) = {}
      BY <2>1 DEF Present, EmptyMap
  <2>3. Cardinality(Present(data)) = 0
      BY <2>2, FS_EmptySet
  <2>4. Counted(ZeroStats, 0)
    <3>1. ZeroStats.vector - ZeroStats.deleted = 0 + 0 * CounterModulus
        BY ConstantsAssumption DEF ZeroStats
    <3> QED BY <3>1 DEF Counted
  <2> QED BY <2>1, <2>3, <2>4, TypeInit DEF Quiet, CountInv
<1>2. TypeOK /\ Quiet /\ CountInv /\ [Next]_vars => TypeOK' /\ Quiet' /\ CountInv'
    BY TypeStep, QuietStep, CountStep
<1>3. TypeOK /\ CountInv => (crashes = 0 => StatsCountStored)
  <2> SUFFICES ASSUME TypeOK, CountInv, crashes = 0, phase = "up"
               PROVE  Plus(stats.vector, -stats.deleted) = Cardinality(Present(data))
      BY DEF StatsCountStored
  <2>1. PICK m \in Nat \ {0} : m = CounterModulus
      BY ConstantsAssumption
  <2>2. Cardinality(Present(data)) \in Nat /\ Cardinality(Present(data)) <= Cardinality(Id)
        /\ Cardinality(Id) \in Nat
      BY FS_Subset, FS_CardinalityType, ConstantsAssumption DEF Present
  <2>3. PICK n \in 0 .. m - 1 : n = Cardinality(Present(data))
      BY <2>1, <2>2
  <2>4. PICK k \in Int : stats.vector - stats.deleted = n + k * m
      BY <2>1, <2>3 DEF CountInv, Counted
  <2>5. stats.vector + (-stats.deleted) = n + k * m
      BY <2>4 DEF TypeOK
  <2>6. (n + k * m) % m = n
      BY ModOf
  <2> QED BY <2>1, <2>3, <2>5, <2>6 DEF Plus
<1> QED BY <1>1, <1>2, <1>3, PTL DEF Spec

-----------------------------------------------------------------------------
(* The table implements DurableMap.                                        *)

\* What the files bring back is the durable value, here and in the next state.
LEMMA DurableIs ==
    ASSUME TypeOK, ~RewritingSnapshot, NEW id \in Id, NEW v \in Value, Recovers(id, v)
    PROVE  DurableValue(id) = v
<1>1. Len(wal) \in Nat
    BY DEF TypeOK
<1>2. \A w : Recovers(id, w) => w = v
    BY <1>1, YieldsUnique DEF Recovers
<1> QED BY <1>2 DEF DurableValue

LEMMA DurableBecomes ==
    ASSUME TypeOK', ~RewritingSnapshot', NEW id \in Id, NEW v \in Value, Recovers(id, v)'
    PROVE  DurableValue(id)' = v
<1>1. Len(wal') \in Nat
    BY DEF TypeOK
<1>2. \A w : Recovers(id, w)' => w = v
    BY <1>1, YieldsUnique DEF Recovers
<1> QED BY <1>2 DEF DurableValue

\* The durable value of a served table is the settled one.
LEMMA DurableSettles ==
    ASSUME IInv, phase \in Served, NEW id \in Id, NEW v \in Value, Settles(id, v)
    PROVE  DurableValue(id) = v
<1>1. Recovers(id, v) /\ TypeOK /\ ~RewritingSnapshot
    BY DEF IInv, ServedRecovers, Served, RewritingSnapshot
<1> QED BY <1>1, DurableIs

LEMMA DurableWillSettle ==
    ASSUME IInv', phase' \in Served, NEW id \in Id, NEW v \in Value, Settles(id, v)'
    PROVE  DurableValue(id)' = v
<1>1. Recovers(id, v)' /\ TypeOK' /\ ~RewritingSnapshot'
    BY DEF IInv, ServedRecovers, Served, RewritingSnapshot
<1> QED BY <1>1, DurableBecomes

\* Outside a rewrite the durable map depends on the two files alone.
LEMMA SameFiles ==
    ASSUME UNCHANGED <<storeFile, wal>>, ~RewritingSnapshot, ~RewritingSnapshot'
    PROVE  durableMap' = durableMap
<1>1. \A id \in Id : DurableValue(id)' = DurableValue(id)
    BY DEF DurableValue, Recovers
<1> QED BY <1>1 DEF durableMap

LEMMA SameAnswers ==
    ASSUME UNCHANGED <<todo, logged, reply, data>>
    PROVE  answers' = answers
BY DEF answers, Answer

LEMMA QuietAnswers ==
    ASSUME TypeOK, NoCallInside, UNCHANGED <<todo, logged, reply>>
    PROVE  answers' = answers
BY DEF answers, Answer, TypeOK, NoCallInside

LEMMA RefinesInit == Init => Abstract!Init
<1> SUFFICES ASSUME Init PROVE Abstract!Init
    OBVIOUS
<1>1. IInv
    BY InvInit
<1>2. \A id \in Id : DurableValue(id) = Absent
  <2> SUFFICES ASSUME NEW id \in Id PROVE DurableValue(id) = Absent
      OBVIOUS
  <2>1. phase \in Served /\ Absent \in Value /\ data[id] = Absent /\ TypeOK /\ NoCallInside
      BY <1>1 DEF Init, Served, Value, IInv, EmptyMap, NoCallInside
  <2>2. Settles(id, Absent)
      BY <2>1, QuietSettles
  <2> QED BY <1>1, <2>1, <2>2, DurableSettles
<1>3. \A c \in Client : Answer(c) = "none"
    BY DEF Init, Answer
<1> QED BY <1>2, <1>3 DEF Abstract!Init, durableMap, answers

LEMMA RefinesBegin ==
    ASSUME IInv, IInv', NEW c \in Client, NEW batch \in Calls(c), BeginCall(c, batch)
    PROVE  Abstract!Call(c)
<1>1. /\ phase = "up" /\ todo[c] = << >> /\ UNCHANGED <<phase, logged, data, wal, storeFile>>
      /\ todo' = [todo EXCEPT ![c] = batch] /\ reply' = [reply EXCEPT ![c] = "none"]
    BY DEF BeginCall, store, log, files
<1>2. TypeOK /\ ~logged[c]
    BY <1>1 DEF IInv, TypeOK
<1>3. durableMap' = durableMap
    BY <1>1, SameFiles DEF RewritingSnapshot
<1>4. \A d \in Client : Answer(d)' = IF d = c THEN "none" ELSE Answer(d)
    BY <1>1, <1>2 DEF Answer, TypeOK
<1>5. answers' = [answers EXCEPT ![c] = "none"]
    BY <1>4 DEF answers
<1> QED BY <1>3, <1>5 DEF Abstract!Call

\* The write takes effect, and its answer is fixed, when the line is flushed.
LEMMA RefinesLog ==
    ASSUME SingleWriter, IInv, IInv', NEW c \in Client, LogWrite(c)
    PROVE  Abstract!Next
<1> DEFINE e == Head(todo[c])
<1>0. TypeOK /\ Owned /\ Quiet
    BY DEF IInv
<1>1. /\ todo[c] # << >> /\ ~logged[c] /\ UNCHANGED <<phase, todo, reply, data>>
      /\ logged' = [logged EXCEPT ![c] = TRUE]
    BY DEF LogWrite, store
<1>2. phase \in Served /\ phase' \in Served
    BY <1>0, <1>1 DEF Quiet, NoCallInside, Served
<1>3. e \in WriteEntry /\ e.id \in Id /\ data \in [Id -> Value]
    BY <1>0, <1>1, HeadIsWrite DEF TypeOK
<1>4. \A d \in Client : ~Pending(d, e.id)
    BY <1>0, <1>1, <1>3, PendingOwner DEF Pending
<1>5. DurableValue(e.id) = data[e.id]
    BY <1>2, <1>3, <1>4, DurableSettles DEF Settles
<1>6. Effect(data[e.id], e, e.id) \in Value
    BY <1>3, EffectType DEF LogEntry
<1>7. ASSUME NEW id \in Id, id = e.id, NEW w \in Value, w = Effect(data[id], e, id)
      PROVE  DurableValue(id)' = w
  <2>1. Settles(id, w)'
      BY <1>0, <1>1, <1>3, <1>7 DEF Settles, Pending, TypeOK
  <2> QED BY <2>1, <1>2, DurableWillSettle
<1>8. ASSUME NEW id \in Id, id # e.id PROVE DurableValue(id)' = DurableValue(id)
  <2>1. PICK v \in Value : Settles(id, v)
      BY <1>0, SettlesExists
  <2>2. Settles(id, v)'
      BY <2>1, <1>0, <1>1, <1>8 DEF Settles, Pending, TypeOK
  <2> QED BY <2>1, <2>2, <1>2, DurableSettles, DurableWillSettle
<1>9. durableMap' = [durableMap EXCEPT ![e.id] = Effect(data[e.id], e, e.id)]
    BY <1>3, <1>6, <1>7, <1>8 DEF durableMap
<1>10. durableMap[e.id] = data[e.id]
    BY <1>3, <1>5 DEF durableMap
<1>11. answers' = [answers EXCEPT ![c] = IF Succeeds(data[e.id], e) THEN "ok" ELSE "failed"]
  <2>1. \A d \in Client : Answer(d)' = IF d = c THEN IF Succeeds(data[e.id], e) THEN "ok" ELSE "failed"
                                                ELSE Answer(d)
      BY <1>0, <1>1 DEF Answer, TypeOK
  <2> QED BY <2>1 DEF answers
<1> HIDE DEF e
<1>12. CASE e \in InsertEntry
  <2>1. e.op = "insert" /\ e.payload \in Payload
      BY <1>12 DEF InsertEntry
  <2>2. Abstract!Effective(durableMap, e.id, e.payload) <=> Succeeds(data[e.id], e)
      BY <2>1, <1>10 DEF Abstract!Effective, Succeeds
  <2>3. Effect(data[e.id], e, e.id) = IF Succeeds(data[e.id], e) THEN e.payload ELSE data[e.id]
      BY <2>1 DEF Effect, Succeeds, Adds, Kills
  <2>4. durableMap' = IF Succeeds(data[e.id], e) THEN [durableMap EXCEPT ![e.id] = e.payload] ELSE durableMap
      BY <2>3, <1>9, <1>10, <1>3 DEF durableMap
  <2>5. Abstract!Insert(c, e.id, e.payload)
      BY <2>2, <2>4, <1>11 DEF Abstract!Insert
  <2> QED BY <2>1, <2>5, <1>3 DEF Abstract!Next
<1>13. CASE e \in RemoveEntry
  <2>1. e.op = "remove"
      BY <1>13 DEF RemoveEntry
  <2>2. Effect(data[e.id], e, e.id) = Absent
      BY <2>1 DEF Effect, Kills
  <2>3. Succeeds(data[e.id], e) <=> durableMap[e.id] # Absent
      BY <2>1, <1>10 DEF Succeeds
  <2>4. Abstract!Remove(c, e.id)
      BY <2>2, <2>3, <1>9, <1>11 DEF Abstract!Remove
  <2> QED BY <2>4, <1>3 DEF Abstract!Next
<1> QED BY <1>3, <1>12, <1>13 DEF WriteEntry

\* The store catches up with the log: nothing that a client can see changes.
LEMMA RefinesApply ==
    ASSUME SingleWriter, IInv, IInv', NEW c \in Client, ApplyWrite(c)
    PROVE  UNCHANGED <<durableMap, answers>>
<1> DEFINE e == Head(todo[c])
<1>0. TypeOK /\ Owned /\ Quiet
    BY DEF IInv
<1>1. /\ logged[c] /\ todo[c] # << >> /\ UNCHANGED <<phase, wal, storeFile>> /\ ApplyEntry(e)
      /\ logged' = [logged EXCEPT ![c] = FALSE] /\ todo' = [todo EXCEPT ![c] = Tail(@)]
      /\ reply' = [reply EXCEPT ![c] = IF Succeeds(data[e.id], e) THEN "ok" ELSE "failed"]
    BY <1>0 DEF ApplyWrite, TypeOK, log, files
<1>2. phase \in {"up", "closing"}
    BY <1>0, <1>1 DEF Quiet, NoCallInside
<1>3. e \in WriteEntry /\ e.id \in Id
    BY <1>0, <1>1, HeadIsWrite
<1>4. durableMap' = durableMap
    BY <1>1, <1>2, SameFiles DEF RewritingSnapshot
<1>5. \A d \in Client : Answer(d)' = Answer(d)
  <2> SUFFICES ASSUME NEW d \in Client PROVE Answer(d)' = Answer(d)
      OBVIOUS
  <2>1. CASE d = c
      BY <2>1, <1>0, <1>1 DEF Answer, TypeOK
  <2>2. CASE d # c
    <3>1. logged'[d] = logged[d] /\ todo'[d] = todo[d] /\ reply'[d] = reply[d]
        BY <2>2, <1>0, <1>1 DEF TypeOK
    <3>2. CASE ~logged[d]
        BY <3>1, <3>2 DEF Answer
    <3>3. CASE logged[d]
      <4>1. todo[d] # << >> /\ Head(todo[d]).id \in Id
          BY <3>3, <1>0, HeadIsWrite DEF TypeOK
      <4>2. Head(todo[d]).id # e.id
          BY <2>2, <3>3, <4>1, <1>0, <1>1, <1>3, PendingOwner DEF Pending
      <4>3. data'[Head(todo[d]).id] = data[Head(todo[d]).id]
          BY <4>1, <4>2, <1>0, <1>1, <1>3, ApplyEntryData, EffectOther
      <4> QED BY <3>1, <3>3, <4>3 DEF Answer
    <3> QED BY <3>2, <3>3
  <2> QED BY <2>1, <2>2
<1> QED BY <1>4, <1>5 DEF answers

\* Saving and clearing the log: the map moves from the log to the snapshot.
LEMMA RefinesSave ==
    ASSUME IInv, IInv', SaveStep
    PROVE  UNCHANGED <<durableMap, answers>>
<1> USE DEF SaveStep, ForcedCleanup, OpenStoreFile, OpenIndexFile, CloseIndexFile, CloseStoreFile,
            OpenMetadata, CloseMetadata, ClearWAL, Move
<1>0. TypeOK /\ TypeOK' /\ Quiet /\ SnapshotWhole
    BY DEF IInv
<1>1. UNCHANGED <<todo, logged, reply>>
    BY DEF calls
<1>2. NoCallInside /\ NoCallInside'
    BY <1>0, <1>1 DEF Quiet, NoCallInside
<1>3. answers' = answers
    BY <1>0, <1>1, <1>2, QuietAnswers
<1>4. ASSUME NEW id \in Id, phase \in Served PROVE DurableValue(id) = data[id]
    BY <1>4, <1>0, <1>2, QuietSettles, DurableSettles DEF TypeOK
<1>5. ASSUME NEW id \in Id, phase' \in Served, data' = data PROVE DurableValue(id)' = data[id]
  <2>1. Settles(id, data[id])
      BY <1>0, <1>2, QuietSettles
  <2>2. \A v : v = data[id] => Settles(id, v)'
      BY <2>1, <1>1, <1>5, SameSettles
  <2> QED BY <2>2, <1>0, <1>5, DurableWillSettle DEF TypeOK
<1>6. ASSUME NEW id \in Id, RewritingSnapshot PROVE DurableValue(id) = data[id]
    BY <1>6 DEF DurableValue
<1>7. ASSUME NEW id \in Id, RewritingSnapshot', data' = data PROVE DurableValue(id)' = data[id]
    BY <1>7 DEF DurableValue
<1>8. CASE ~ClearWAL
  <2>1. data' = data
      BY <1>8 DEF CleanUp, store
  <2>2. phase \in Served \/ RewritingSnapshot
      BY <1>8 DEF Served, RewritingSnapshot
  <2>3. phase' \in Served \/ RewritingSnapshot'
      BY <1>8 DEF Served, RewritingSnapshot
  <2>4. \A id \in Id : DurableValue(id)' = DurableValue(id)
      BY <2>1, <2>2, <2>3, <1>4, <1>5, <1>6, <1>7
  <2> QED BY <2>4, <1>3 DEF durableMap
<1>9. CASE ClearWAL
  <2>1. phase = "metaSaved" /\ phase' = "down" /\ wal' = << >> /\ storeFile' = storeFile
      BY <1>9 DEF files
  <2>2. ASSUME NEW id \in Id PROVE DurableValue(id)' = data[id]
    <3>1. storeFile'[id] = data[id] /\ data[id] \in Value
        BY <1>0, <2>1 DEF SnapshotWhole, TypeOK
    <3>2. Yields(data[id], << >>, 0, id, data[id])
        BY YieldsNothing
    <3>3. \A v : v = data[id] => Recovers(id, v)'
        BY <2>1, <3>1, <3>2 DEF Recovers
    <3>4. ~RewritingSnapshot'
        BY <2>1 DEF RewritingSnapshot
    <3> QED BY <3>1, <3>3, <3>4, <1>0, DurableBecomes
  <2>3. \A id \in Id : DurableValue(id)' = DurableValue(id)
      BY <2>1, <2>2, <1>4 DEF Served
  <2> QED BY <2>3, <1>3 DEF durableMap
<1> QED BY <1>8, <1>9

LEMMA RefinesCrash ==
    ASSUME TornFiles = FALSE, IInv, IInv', Crash
    PROVE  Abstract!Crash
<1>1. ~Rewriting /\ UNCHANGED <<storeFile, wal>> /\ phase' = "down"
    BY DEF Crash, Rewriting
<1>2. durableMap' = durableMap
    BY <1>1, SameFiles DEF Rewriting, RewritingSnapshot
<1>3. answers' = [c \in Client |-> "none"]
    BY DEF Crash, answers, Answer
<1> QED BY <1>2, <1>3 DEF Abstract!Crash

\* The create line a restart appends brings back the same map.
LEMMA RefinesRestart ==
    ASSUME IInv, IInv', Restart
    PROVE  UNCHANGED <<durableMap, answers>>
<1>0. TypeOK /\ TypeOK' /\ Quiet /\ FilesKeepPromise
    BY DEF IInv
<1>1. /\ phase = "down" /\ phase' = "replay" /\ wal' = Append(wal, CreateEntry)
      /\ UNCHANGED <<todo, logged, reply, storeFile>>
    BY DEF Restart, LoadSnapshot, calls, files
<1>2. answers' = answers
    BY <1>0, <1>1, QuietAnswers DEF Quiet
<1>3. ASSUME NEW id \in Id PROVE DurableValue(id)' = DurableValue(id)
  <2>0. wal \in Seq(LogEntry) /\ storeFile \in [Id -> Value] /\ CreateEntry \in LogEntry
        /\ promised \in [Id -> SUBSET Value]
      BY <1>0 DEF TypeOK, LogEntry
  <2>1. PICK v \in promised[id] : Recovers(id, v)
      BY <1>0, <1>1 DEF FilesKeepPromise
  <2>2. v \in Value /\ storeFile[id] \in Value
      BY <2>0
  <2>3. Yields(storeFile[id], Append(wal, CreateEntry), Len(Append(wal, CreateEntry)), id,
               Effect(v, CreateEntry, id))
      BY <2>0, <2>1, <2>2, YieldsAppend DEF Recovers
  <2>4. Recovers(id, v)'
      BY <2>3, <1>1, EffectCreate DEF Recovers
  <2>5. ~RewritingSnapshot /\ ~RewritingSnapshot'
      BY <1>1 DEF RewritingSnapshot
  <2> QED BY <2>1, <2>2, <2>4, <2>5, <1>0, DurableIs, DurableBecomes
<1> QED BY <1>2, <1>3 DEF durableMap

\* Every other step is one that clients cannot see.
LEMMA RefinesOther ==
    ASSUME IInv, IInv',
           Cleanup \/ BeginShutdown \/ ReplayStep \/ RestartWithoutTable \/ StopWithoutTable \/ UNCHANGED vars
    PROVE  UNCHANGED <<durableMap, answers>>
<1>0. TypeOK /\ Quiet
    BY DEF IInv
<1>1. CASE UNCHANGED vars
  <2>1. UNCHANGED <<phase, todo, logged, reply, data, storeFile, wal>>
      BY <1>1 DEF vars, calls, store, log, files
  <2>2. \A id \in Id : DurableValue(id)' = DurableValue(id)
      BY <2>1 DEF DurableValue, Recovers, RewritingSnapshot
  <2> QED BY <2>1, <2>2, SameAnswers DEF durableMap
<1>2. CASE Cleanup
  <2>1. UNCHANGED <<phase, todo, logged, reply, data, storeFile, wal>> /\ phase \in {"up", "replay"}
      BY <1>2 DEF Cleanup, CleanUp, calls, log, files
  <2> QED BY <2>1, SameFiles, SameAnswers DEF RewritingSnapshot
<1>3. CASE BeginShutdown
  <2>1. UNCHANGED <<todo, logged, reply, data, storeFile, wal>> /\ phase = "up" /\ phase' = "closing"
      BY <1>3 DEF BeginShutdown, Move, calls, store, log, files
  <2> QED BY <2>1, SameFiles, SameAnswers DEF RewritingSnapshot
<1>4. CASE ReplayStep \/ RestartWithoutTable \/ StopWithoutTable
  <2>1. /\ UNCHANGED <<todo, logged, reply, storeFile, wal>>
        /\ phase \in {"replay", "down", "orphan"} /\ phase' \in {"replay", "up", "down", "orphan"}
      BY <1>4 DEF ReplayStep, ReplayEntry, EndReplay, RestartWithoutTable, StopWithoutTable, Move,
                  calls, log, files
  <2>2. NoCallInside
      BY <2>1, <1>0 DEF Quiet
  <2> QED BY <2>1, <2>2, <1>0, SameFiles, QuietAnswers DEF RewritingSnapshot
<1> QED BY <1>1, <1>2, <1>3, <1>4

\* Implementation: to its clients the table is DurableMap, crashes and all.
THEOREM Implementation ==
    ASSUME SingleWriter, TornFiles = FALSE
    PROVE  Spec => ImplementsDurableMap
<1>1. Init => Abstract!Init
    BY RefinesInit
<1>2. IInv /\ IInv' /\ [Next]_vars => [Abstract!Next]_<<durableMap, answers>>
  <2> SUFFICES ASSUME IInv, IInv', [Next]_vars PROVE [Abstract!Next]_<<durableMap, answers>>
      OBVIOUS
  <2>1. ASSUME NEW c \in Client, NEW batch \in Calls(c), BeginCall(c, batch) PROVE Abstract!Next
      BY <2>1, RefinesBegin DEF Abstract!Next
  <2>2. ASSUME NEW c \in Client, LogWrite(c) PROVE Abstract!Next
      BY <2>2, RefinesLog
  <2>3. ASSUME NEW c \in Client, ApplyWrite(c) PROVE UNCHANGED <<durableMap, answers>>
      BY <2>3, RefinesApply
  <2>4. CASE Crash
      BY <2>4, RefinesCrash DEF Abstract!Next
  <2> QED BY <2>1, <2>2, <2>3, <2>4, RefinesSave, RefinesRestart, RefinesOther DEF Next, ClientStep
<1> QED BY <1>1, <1>2, InvariantHolds, PTL DEF Spec, ImplementsDurableMap, Abstract!Spec
=============================================================================
