------------------------- MODULE Replication_proofs -------------------------
(***************************************************************************)
(* Proofs about Replication: types, the honesty of the modified flag, and  *)
(* that replicas hold prefixes of the log and follow the primary, for any  *)
(* number of clients, ids, payloads, replicas, retries and lost calls.     *)
(***************************************************************************)
EXTENDS Replication, WriteAheadLog_proofs, SequenceTheorems

-----------------------------------------------------------------------------
(* Types.                                                                  *)

\* What TypeOK says of the local state of one Sync.
Sound(l) == /\ l \in SyncState
            /\ l.pc \notin {"idle", "finish"} => l.target \in Replica
            /\ l.pc \in {"sum", "send"} => l.count < Len(l.batch)

Busy(l) == Sound(l) /\ l.target \in Replica

LEMMA RestingSound == Sound(Resting) /\ Resting.pc = "idle"
<1>1. EmptyMap \in [Id -> Value] /\ 1 \in 1 .. NumReplicas + 1 /\ 0 \in 0 .. RetryCount
    BY ConstantsAssumption DEF EmptyMap, Value
<1>2. << >> \in Seq(LogEntry)
    OBVIOUS
<1> QED BY <1>1, <1>2 DEF Resting, Sound, SyncState

LEMMA NextReplicaSound ==
    ASSUME NEW l, Busy(l) PROVE Sound(NextReplica(l))
<1>1. l.target + 1 \in 1 .. NumReplicas + 1 /\ 0 \in 0 .. RetryCount
    BY ConstantsAssumption DEF Busy, Replica
<1>2. l.target # NumReplicas => l.target + 1 \in Replica
    BY ConstantsAssumption DEF Busy, Replica
<1> QED BY <1>1, <1>2 DEF NextReplica, Busy, Sound, SyncState

LEMMA NextAttemptSound ==
    ASSUME NEW l, Busy(l) PROVE Sound(NextAttempt(l))
<1>1. CASE l.attempt = RetryCount
    BY <1>1, NextReplicaSound DEF NextAttempt
<1>2. CASE l.attempt # RetryCount
  <2>1. l.attempt + 1 \in 0 .. RetryCount
      BY <1>2, ConstantsAssumption DEF Busy, Sound, SyncState
  <2> QED BY <1>2, <2>1 DEF NextAttempt, Busy, Sound, SyncState
<1> QED BY <1>1, <1>2

LEMMA FailedBusy == ASSUME NEW l, Busy(l) PROVE Busy(Failed(l))
BY DEF Failed, Busy, Sound, SyncState

LEMMA MissedAttemptSound ==
    ASSUME NEW l, Busy(l) PROVE Sound(MissedAttempt(l))
BY FailedBusy, NextAttemptSound DEF MissedAttempt

\* The lines past an offset are lines, and there are none past the end only.
LEMMA UnsentLines ==
    ASSUME TypeOK, NEW r \in Replica
    PROVE  /\ Unsent(r) \in Seq(LogEntry)
           /\ Len(Unsent(r)) = IF offset[r] < Len(wal) THEN Len(wal) - offset[r] ELSE 0
           /\ \A i \in 1 .. Len(Unsent(r)) : Unsent(r)[i] = wal[offset[r] + i]
<1>1. offset[r] \in Nat /\ wal \in Seq(LogEntry) /\ Len(wal) \in Nat
    BY DEF TypeOK
<1>2. PICK m \in Int, n \in Int : m = offset[r] + 1 /\ n = Len(wal)
    BY <1>1
<1>3. \A i \in m .. n : wal[i] \in LogEntry
    BY <1>1, <1>2
<1>4. /\ SubSeq(wal, m, n) \in Seq(LogEntry)
      /\ Len(SubSeq(wal, m, n)) = IF m <= n THEN n - m + 1 ELSE 0
      /\ \A i \in 1 .. n - m + 1 : SubSeq(wal, m, n)[i] = wal[m + i - 1]
    BY <1>3, SubSeqProperties
<1>5. Unsent(r) = SubSeq(wal, m, n)
    BY <1>2 DEF Unsent
<1>6. Len(Unsent(r)) = IF offset[r] < Len(wal) THEN Len(wal) - offset[r] ELSE 0
    BY <1>1, <1>2, <1>4, <1>5
<1>7. ASSUME NEW i \in 1 .. Len(Unsent(r)) PROVE Unsent(r)[i] = wal[offset[r] + i]
  <2>1. i \in 1 .. n - m + 1 /\ m + i - 1 = offset[r] + i
      BY <1>1, <1>2, <1>6
  <2> QED BY <1>4, <1>5, <2>1
<1> QED BY <1>4, <1>5, <1>6, <1>7

LEMMA TypeInit == Init => TypeOK
<1> SUFFICES ASSUME Init PROVE TypeOK
    OBVIOUS
<1>1. EmptyMap \in [Id -> Value] /\ wal \in Seq(LogEntry) /\ CreateEntry \in LogEntry
    BY DEF Init, EmptyMap, Value, LogEntry
<1>2. \A s \in Syncer : Sound(sync[s]) /\ sync[s].pc = "idle"
    BY RestingSound DEF Init
<1>3. sync \in [Syncer -> SyncState]
    BY <1>2 DEF Sound, Init
<1> QED BY <1>1, <1>2, <1>3 DEF Init, TypeOK, Sound

\* A step that puts a sound local state in place of one Sync's.
LEMMA BecomesType ==
    ASSUME TypeOK, NEW s \in Syncer, NEW l, Sound(l), Becomes(s, l)
    PROVE  /\ sync' \in [Syncer -> SyncState]
           /\ \A t \in Syncer : /\ sync'[t].pc \notin {"idle", "finish"} => sync'[t].target \in Replica
                                /\ sync'[t].pc \in {"sum", "send"} => sync'[t].count < Len(sync'[t].batch)
           /\ sync'[s] = l
           /\ \A t \in Syncer : t # s => sync'[t] = sync[t]
BY DEF TypeOK, Becomes, Sound

LEMMA SyncBusy ==
    ASSUME TypeOK, NEW s \in Syncer, sync[s].pc \notin {"idle", "finish"}
    PROVE  Busy(sync[s])
BY DEF TypeOK, Busy, Sound

LEMMA TypeClients ==
    ASSUME TypeOK, NEW c \in Client,
           ClientStep(c) \/ \E e \in WriteEntry : LogWrite(c, e)
    PROVE  TypeOK'
<1> USE DEF primary, replicas, deliveries
<1>1. ASSUME NEW e \in WriteEntry, LogWrite(c, e) PROVE TypeOK'
  <2>1. e \in LogEntry
      BY DEF LogEntry
  <2> QED BY <1>1, <2>1 DEF LogWrite, TypeOK
<1>2. CASE ApplyWrite(c)
  <2> DEFINE e == entry[c]
  <2>1. e \in WriteEntry /\ e \in LogEntry /\ e.id \in Id
      BY <1>2 DEF ApplyWrite, TypeOK, WriteEntry, InsertEntry, RemoveEntry
  <2>2. data[e.id] \in Value
      BY <2>1 DEF TypeOK
  <2>3. PICK v \in Value : v = Effect(data[e.id], e, e.id)
      BY <2>1, <2>2, EffectType
  <2>4. data' = [data EXCEPT ![e.id] = v]
      BY <1>2, <2>3 DEF ApplyWrite
  <2> QED BY <1>2, <2>1, <2>3, <2>4 DEF ApplyWrite, TypeOK
<1>3. CASE FlagWrite(c)
    BY <1>3 DEF FlagWrite, TypeOK
<1> QED BY <1>1, <1>2, <1>3 DEF ClientStep

LEMMA TypeSync ==
    ASSUME TypeOK, NEW s \in Syncer, SyncStep(s) \/ Loss(s)
    PROVE  TypeOK'
<1> DEFINE l == sync[s]
<1>0. l \in SyncState
    BY DEF TypeOK
<1>1. CASE ReadLog(s)
  <2>1. Busy(l)
      BY <1>1, SyncBusy DEF ReadLog
  <2>2. l.target \in Replica
      BY <2>1 DEF Busy
  <2> DEFINE b == Unsent(l.target)
  <2>3. b \in Seq(LogEntry) /\ (b # << >> => 0 < Len(b))
      BY <2>2, UnsentLines
  <2> HIDE DEF b
  <2>4. b # << >> => Sound([l EXCEPT !.pc = "sum", !.batch = b, !.count = 0])
      BY <2>1, <2>3 DEF Busy, Sound, SyncState
  <2>5. PICK m : Sound(m) /\ Becomes(s, m)
      BY <1>1, <2>1, <2>4, NextAttemptSound DEF ReadLog, b
  <2>6. base' \in [Syncer -> Nat]
      BY <1>1, <2>2 DEF ReadLog, TypeOK
  <2> QED BY <1>1, <2>5, <2>6, BecomesType DEF ReadLog, TypeOK, primary, replicas
<1>2. CASE ComputeChecksum(s)
  <2>1. Busy(l)
      BY <1>2, SyncBusy DEF ComputeChecksum
  <2>2. Sound([l EXCEPT !.pc = "send", !.sum = data])
      BY <1>2, <2>1 DEF ComputeChecksum, Busy, Sound, SyncState, TypeOK
  <2>3. PICK m : Sound(m) /\ Becomes(s, m)
      BY <1>2, <2>2 DEF ComputeChecksum
  <2> QED BY <1>2, <2>3, BecomesType DEF ComputeChecksum, TypeOK, primary, replicas, deliveries
<1>3. CASE ReplicaApply(s)
  <2>1. Busy(l) /\ l.pc = "send" /\ l.target \in Replica
      BY <1>3, SyncBusy DEF ReplicaApply, Busy
  <2>2. l.count \in Nat /\ l.batch \in Seq(LogEntry) /\ l.count < Len(l.batch)
      BY <2>1 DEF Busy, Sound, SyncState
  <2>3. PICK e \in LogEntry : e = l.batch[l.count + 1]
      BY <2>2
  <2>4. \A r \in Replica : \A id \in Id : Effect(copy[r][id], e, id) \in Value
      BY EffectType DEF TypeOK
  <2>5. hosted' \in [Replica -> BOOLEAN] /\ copy' \in [Replica -> [Id -> Value]]
    <3>1. PICK f \in [Id -> Value] : f = [id \in Id |-> Effect(copy[l.target][id], e, id)]
        BY <2>1, <2>4
    <3>2. CASE Accepts(l.target, e)
      <4>1. /\ hosted' = [hosted EXCEPT ![l.target] = TRUE]
            /\ copy' = [copy EXCEPT ![l.target] = f]
          BY <1>3, <2>3, <3>1, <3>2 DEF ReplicaApply
      <4> QED BY <3>1, <4>1 DEF TypeOK
    <3>3. CASE ~Accepts(l.target, e)
        BY <1>3, <2>3, <3>3 DEF ReplicaApply, TypeOK, replicas, deliveries
    <3> QED BY <3>2, <3>3
  <2>6. /\ Sound([l EXCEPT !.count = @ + 1,
                           !.pc = IF l.count + 1 = Len(l.batch) THEN "answer" ELSE "send"])
        /\ Sound([l EXCEPT !.pc = "answer"])
    <3>1. l.count + 1 \in Nat /\ Len(l.batch) \in Nat
        BY <2>2
    <3>2. PICK q \in {"answer", "send"} : /\ q = IF l.count + 1 = Len(l.batch) THEN "answer" ELSE "send"
                                          /\ q = "send" => l.count + 1 < Len(l.batch)
        BY <2>2, <3>1
    <3>3. Sound([l EXCEPT !.count = l.count + 1, !.pc = q])
        BY <2>1, <3>1, <3>2 DEF Busy, Sound, SyncState
    <3>4. Sound([l EXCEPT !.pc = "answer"])
        BY <2>1 DEF Busy, Sound, SyncState
    <3> QED BY <3>2, <3>3, <3>4
  <2>7. PICK m : Sound(m) /\ Becomes(s, m)
      BY <1>3, <2>6 DEF ReplicaApply
  <2>8. delivered' \in [Replica -> SUBSET Nat]
    <3>1. base[s] + l.count + 1 \in Nat
        BY <2>2 DEF TypeOK
    <3>2. CASE Accepts(l.target, e)
      <4>1. delivered' = [delivered EXCEPT ![l.target] = @ \cup {base[s] + l.count + 1}]
          BY <1>3, <2>3, <3>2 DEF ReplicaApply
      <4> QED BY <2>1, <3>1, <4>1 DEF TypeOK
    <3>3. CASE ~Accepts(l.target, e)
        BY <1>3, <2>3, <3>3 DEF ReplicaApply, TypeOK
    <3> QED BY <3>2, <3>3
  <2> QED BY <1>3, <2>5, <2>7, <2>8, BecomesType DEF ReplicaApply, TypeOK, primary
<1>4. CASE Acknowledge(s)
  <2>1. Busy(l) /\ l.target \in Replica /\ l.count \in Nat
      BY <1>4, SyncBusy DEF Acknowledge, Busy, Sound, SyncState
  <2>2. offset' \in [Replica -> Nat]
      BY <1>4, <2>1 DEF Acknowledge, TypeOK
  <2>3. Sound([l EXCEPT !.pc = "compare"])
      BY <2>1 DEF Busy, Sound, SyncState
  <2>4. PICK m : Sound(m) /\ Becomes(s, m)
      BY <1>4, <2>1, <2>3, MissedAttemptSound DEF Acknowledge
  <2> QED BY <1>4, <2>2, <2>4, BecomesType DEF Acknowledge, TypeOK, primary, replicas, deliveries
<1>5. CASE LoseSync(s)
  <2>1. Busy(l)
      BY <1>5, SyncBusy DEF LoseSync
  <2>2. PICK m : Sound(m) /\ Becomes(s, m)
      BY <1>5, <2>1, MissedAttemptSound DEF LoseSync
  <2> QED BY <1>5, <2>2, BecomesType DEF LoseSync, TypeOK, primary, replicas, deliveries
<1>6. CASE Compare(s)
  <2>1. Busy(l)
      BY <1>6, SyncBusy DEF Compare
  <2>2. PICK m : Sound(m) /\ Becomes(s, m)
      BY <1>6, <2>1, NextReplicaSound, NextAttemptSound, FailedBusy DEF Compare
  <2> QED BY <1>6, <2>2, BecomesType DEF Compare, TypeOK, primary, replicas, deliveries
<1>7. CASE LoseChecksum(s)
  <2>1. Busy(l)
      BY <1>7, SyncBusy DEF LoseChecksum
  <2>2. PICK m : Sound(m) /\ Becomes(s, m)
      BY <1>7, <2>1, NextAttemptSound, FailedBusy DEF LoseChecksum
  <2> QED BY <1>7, <2>2, BecomesType DEF LoseChecksum, TypeOK, primary, replicas, deliveries
<1>8. CASE Finish(s)
  <2>1. PICK m : Sound(m) /\ Becomes(s, m)
      BY <1>8, RestingSound DEF Finish
  <2> QED BY <1>8, <2>1, BecomesType DEF Finish, TypeOK, replicas, deliveries
<1> QED BY <1>1, <1>2, <1>3, <1>4, <1>5, <1>6, <1>7, <1>8 DEF SyncStep, Loss

LEMMA TypePhases ==
    ASSUME TypeOK, BeginLoop \/ BeginShutdown \/ BeginMain \/ ClearWAL
    PROVE  TypeOK'
<1>1. Sound([Resting EXCEPT !.pc = "read"])
  <2>1. PICK m : m = Resting
      OBVIOUS
  <2>2. Sound(m) /\ m.target \in Replica
      BY <2>1, RestingSound, ConstantsAssumption DEF Resting, Replica
  <2>3. Sound([m EXCEPT !.pc = "read"])
      BY <2>2 DEF Sound, SyncState
  <2> QED BY <2>1, <2>3
<1>2. ASSUME NEW s \in Syncer, Begin(s)
      PROVE  due' \in [Syncer -> Nat] /\ \E m : Sound(m) /\ Becomes(s, m)
    BY <1>1, <1>2 DEF Begin, TypeOK
<1>3. CASE BeginLoop
  <2>1. PICK m : Sound(m) /\ Becomes("loop", m)
      BY <1>2, <1>3 DEF BeginLoop, Syncer
  <2> QED BY <1>2, <1>3, <2>1, BecomesType DEF BeginLoop, Syncer, TypeOK, primary, replicas, deliveries
<1>4. CASE BeginMain
  <2>1. PICK m : Sound(m) /\ Becomes("main", m)
      BY <1>2, <1>4 DEF BeginMain, Syncer
  <2>2. overlapped' \in BOOLEAN
      BY <1>4 DEF BeginMain
  <2> QED BY <1>2, <1>4, <2>1, <2>2, BecomesType DEF BeginMain, Syncer, TypeOK, replicas
<1>5. CASE BeginShutdown
    BY <1>5 DEF BeginShutdown, TypeOK, replicas, deliveries
<1>6. CASE ClearWAL
    BY <1>6 DEF ClearWAL, TypeOK, replicas, deliveries
<1> QED BY <1>3, <1>4, <1>5, <1>6

LEMMA TypeStep == TypeOK /\ [Next]_vars => TypeOK'
<1> SUFFICES ASSUME TypeOK, [Next]_vars PROVE TypeOK'
    OBVIOUS
<1>1. CASE UNCHANGED vars
    BY <1>1 DEF vars, primary, replicas, deliveries, TypeOK
<1>2. CASE Next
    BY <1>2, TypeClients, TypeSync, TypePhases DEF Next
<1> QED BY <1>1, <1>2

\* Every variable stays in its set: Sync never looks past the last replica and
\* makes no more than kRetryCount + 1 attempts at one.
THEOREM TypeCorrect == Spec => []TypeOK
BY TypeInit, TypeStep, PTL DEF Spec

\* An attempt that ends leaves the RPC behind.
LEMMA NextAttemptIdles ==
    ASSUME NEW l, l \in SyncState
    PROVE  /\ NextReplica(l).pc \in {"read", "finish"}
           /\ NextAttempt(l).pc \in {"read", "finish"}
           /\ MissedAttempt(l).pc \in {"read", "finish"}
           /\ NextAttempt(Failed(l)).pc \in {"read", "finish"}
<1>1. \A m \in SyncState : NextReplica(m).pc \in {"read", "finish"}
    BY DEF NextReplica, SyncState
<1>2. \A m \in SyncState : NextAttempt(m).pc \in {"read", "finish"}
    BY <1>1 DEF NextAttempt, SyncState
<1>3. Failed(l) \in SyncState
    BY DEF Failed, SyncState
<1> QED BY <1>1, <1>2, <1>3 DEF MissedAttempt

-----------------------------------------------------------------------------
(* The modified flag is cleared for offsets past the lines to send.        *)

\* What the local state l of a Sync that began with d lines in the log knows
\* about the offsets o: the replicas it has left behind without a failure have
\* got d lines; at the last attempt, so has its target, since only an empty
\* rest of the log gets there without a failure; what is under way is enough.
Covers(l, o, d) ==
    /\ l.pc = "finish" => l.target = NumReplicas + 1
    /\ ~l.failed => \A r \in Replica : r < l.target => o[r] >= d
    /\ l.target \in Replica /\ l.attempt = RetryCount /\ ~l.failed => o[l.target] >= d
    /\ l.pc \in {"sum", "send", "answer"} => o[l.target] + Len(l.batch) >= d
    /\ l.pc = "compare" => o[l.target] >= d

AllCovered == phase # "down" => \A s \in Syncer : due[s] <= Len(wal) /\ Covers(sync[s], offset, due[s])

\* The destructor runs its Sync in a phase of its own.
MainTurn == ~Idle("main") => phase = "syncing"

FlagInv == TypeOK /\ MainTurn /\ AllCovered

LEMMA CoversMonotone ==
    ASSUME NEW l, NEW d \in Nat, NEW o \in [Replica -> Nat], NEW p \in [Replica -> Nat], Sound(l),
           \A r \in Replica : o[r] <= p[r],
           Covers(l, o, d)
    PROVE  Covers(l, p, d)
<1>1. Len(l.batch) \in Nat /\ (l.pc \in {"sum", "send", "answer", "compare"} => l.target \in Replica)
    BY DEF Sound, SyncState
<1> QED BY <1>1 DEF Covers

LEMMA CoversNextReplica ==
    ASSUME NEW l, NEW d \in Nat, NEW o \in [Replica -> Nat], Busy(l),
           Covers(l, o, d), l.failed \/ o[l.target] >= d
    PROVE  Covers(NextReplica(l), o, d)
<1> DEFINE m == NextReplica(l)
<1>1. /\ m.target = l.target + 1 /\ m.attempt = 0 /\ m.failed = l.failed
      /\ m.pc = IF l.target = NumReplicas THEN "finish" ELSE "read"
    BY DEF NextReplica, Busy, Sound, SyncState
<1>2. l.target \in Int /\ RetryCount # 0
    BY ConstantsAssumption DEF Busy, Replica
<1>3. \A r \in Replica : r < l.target + 1 => r < l.target \/ r = l.target
    BY <1>2 DEF Replica
<1> HIDE DEF m
<1> QED BY <1>1, <1>2, <1>3 DEF Covers, m

LEMMA CoversNextAttempt ==
    ASSUME NEW l, NEW d \in Nat, NEW o \in [Replica -> Nat], Busy(l),
           Covers(l, o, d), l.failed \/ l.attempt # RetryCount - 1 \/ o[l.target] >= d
    PROVE  Covers(NextAttempt(l), o, d)
<1>1. CASE l.attempt = RetryCount
  <2>1. l.failed \/ o[l.target] >= d
      BY <1>1 DEF Covers, Busy
  <2> QED BY <1>1, <2>1, CoversNextReplica DEF NextAttempt
<1>2. CASE l.attempt # RetryCount
  <2>1. PICK m : m = [l EXCEPT !.attempt = @ + 1, !.pc = "read"]
      OBVIOUS
  <2>2. m.target = l.target /\ m.attempt = l.attempt + 1 /\ m.failed = l.failed /\ m.pc = "read"
      BY <2>1 DEF Busy, Sound, SyncState
  <2>3. l.attempt \in Int /\ RetryCount \in Int
      BY ConstantsAssumption DEF Busy, Sound, SyncState
  <2>4. Covers(m, o, d)
      BY <2>2, <2>3 DEF Covers
  <2> QED BY <1>2, <2>1, <2>4 DEF NextAttempt
<1> QED BY <1>1, <1>2

LEMMA CoversFailed ==
    ASSUME NEW l, NEW d, NEW o, Busy(l), Covers(l, o, d)
    PROVE  Covers(Failed(l), o, d) /\ Failed(l).failed
<1>1. PICK m : m = Failed(l)
    OBVIOUS
<1>2. m.target = l.target /\ m.attempt = l.attempt /\ m.failed = TRUE /\ m.pc = l.pc /\ m.batch = l.batch
    BY <1>1 DEF Failed, Busy, Sound, SyncState
<1>3. Covers(m, o, d)
    BY <1>2 DEF Covers
<1> QED BY <1>1, <1>2, <1>3

LEMMA CoversMissed ==
    ASSUME NEW l, NEW d \in Nat, NEW o \in [Replica -> Nat], Busy(l), Covers(l, o, d)
    PROVE  Covers(MissedAttempt(l), o, d)
<1>1. CASE l.attempt = RetryCount - 1
  <2>1. PICK m : m = Failed(l)
      OBVIOUS
  <2>2. Busy(m) /\ Covers(m, o, d) /\ m.failed
      BY <2>1, FailedBusy, CoversFailed
  <2>3. Covers(NextAttempt(m), o, d)
      BY <2>2, CoversNextAttempt
  <2> QED BY <1>1, <2>1, <2>3 DEF MissedAttempt
<1>2. CASE l.attempt # RetryCount - 1
    BY <1>2, CoversNextAttempt DEF MissedAttempt
<1> QED BY <1>1, <1>2

LEMMA RestingCovers == ASSUME NEW d \in Nat, NEW o PROVE Covers(Resting, o, d)
<1>1. ~ \E r \in Replica : r < 1
    BY DEF Replica
<1> QED BY <1>1, ConstantsAssumption DEF Covers, Resting

\* A step of one Sync leaves everything covered if its new local state is.
LEMMA CoveredStep ==
    ASSUME FlagInv, TypeOK', NEW s \in Syncer, NEW l, phase # "down",
           \A r \in Replica : offset[r] <= offset'[r],
           UNCHANGED <<wal, due>>,
           Becomes(s, l), Covers(l, offset', due[s])
    PROVE  AllCovered'
<1>1. offset \in [Replica -> Nat] /\ offset' \in [Replica -> Nat] /\ due \in [Syncer -> Nat]
    BY DEF FlagInv, TypeOK
<1>2. \A t \in Syncer : sync'[t] = IF t = s THEN l ELSE sync[t]
    BY DEF FlagInv, TypeOK, Becomes
<1>3. ASSUME NEW t \in Syncer, t # s PROVE Covers(sync[t], offset', due[t])
  <2>1. Sound(sync[t]) /\ Covers(sync[t], offset, due[t]) /\ due[t] \in Nat
      BY <1>1 DEF FlagInv, AllCovered, TypeOK, Sound
  <2> QED BY <1>1, <2>1, CoversMonotone
<1>4. \A t \in Syncer : Covers(sync'[t], offset', due[t])
    BY <1>2, <1>3
<1>5. \A t \in Syncer : due[t] <= Len(wal)
    BY DEF FlagInv, AllCovered
<1> QED BY <1>4, <1>5 DEF AllCovered

LEMMA CoveredSync ==
    ASSUME FlagInv, TypeOK', NEW s \in Syncer, SyncStep(s) \/ Loss(s), phase # "down"
    PROVE  AllCovered'
<1> DEFINE l == sync[s]
           d == due[s]
<1> USE DEF primary, replicas, deliveries
<1>0. /\ TypeOK /\ offset \in [Replica -> Nat] /\ offset' \in [Replica -> Nat] /\ d \in Nat
      /\ l \in SyncState /\ Covers(l, offset, d) /\ d <= Len(wal)
    BY DEF FlagInv, TypeOK, AllCovered
<1>1. CASE ReadLog(s)
  <2>1. Busy(l) /\ l.target \in Replica
      BY <1>0, <1>1, SyncBusy DEF ReadLog, Busy
  <2>2. PICK b : b = Unsent(l.target)
      OBVIOUS
  <2>3. /\ Len(b) = IF offset[l.target] < Len(wal) THEN Len(wal) - offset[l.target] ELSE 0
        /\ b \in Seq(LogEntry) /\ Len(wal) \in Nat
      BY <1>0, <2>1, <2>2, UnsentLines DEF TypeOK
  <2>4. offset[l.target] + Len(b) >= d
      BY <1>0, <2>1, <2>3
  <2>5. CASE b = << >>
    <3>1. offset[l.target] >= d
        BY <1>0, <2>1, <2>4, <2>5
    <3>2. Covers(NextAttempt(l), offset, d) /\ Becomes(s, NextAttempt(l))
        BY <1>0, <1>1, <2>1, <2>2, <2>5, <3>1, CoversNextAttempt DEF ReadLog
    <3> QED BY <1>0, <1>1, <3>2, CoveredStep DEF ReadLog
  <2>6. CASE b # << >>
    <3>1. PICK m : m = [l EXCEPT !.pc = "sum", !.batch = b, !.count = 0]
        OBVIOUS
    <3>2. m.target = l.target /\ m.attempt = l.attempt /\ m.failed = l.failed /\ m.pc = "sum" /\ m.batch = b
        BY <1>0, <3>1 DEF SyncState
    <3>3. Covers(m, offset, d) /\ Becomes(s, m)
        BY <1>0, <1>1, <2>2, <2>4, <2>6, <3>1, <3>2 DEF Covers, ReadLog
    <3> QED BY <1>0, <1>1, <3>3, CoveredStep DEF ReadLog
  <2> QED BY <2>5, <2>6
<1>2. CASE ComputeChecksum(s)
  <2>1. PICK m : m = [l EXCEPT !.pc = "send", !.sum = data]
      OBVIOUS
  <2>2. m.target = l.target /\ m.attempt = l.attempt /\ m.failed = l.failed /\ m.pc = "send" /\ m.batch = l.batch
      BY <1>0, <2>1 DEF SyncState
  <2>3. Covers(m, offset, d) /\ Becomes(s, m)
      BY <1>0, <1>2, <2>1, <2>2 DEF Covers, ComputeChecksum
  <2> QED BY <1>0, <1>2, <2>3, CoveredStep DEF ComputeChecksum
<1>3. CASE ReplicaApply(s)
  <2>1. PICK m : /\ Becomes(s, m) /\ m.pc \in {"answer", "send"}
                 /\ m.target = l.target /\ m.attempt = l.attempt /\ m.failed = l.failed /\ m.batch = l.batch
    <3>1. PICK x : x = [l EXCEPT !.count = @ + 1,
                                 !.pc = IF l.count + 1 = Len(l.batch) THEN "answer" ELSE "send"]
        OBVIOUS
    <3>2. PICK y : y = [l EXCEPT !.pc = "answer"]
        OBVIOUS
    <3>3. Becomes(s, x) \/ Becomes(s, y)
        BY <1>3, <3>1, <3>2 DEF ReplicaApply
    <3>4. /\ x.pc \in {"answer", "send"} /\ x.batch = l.batch
          /\ x.target = l.target /\ x.attempt = l.attempt /\ x.failed = l.failed
        BY <1>0, <3>1 DEF SyncState
    <3>5. /\ y.pc = "answer" /\ y.batch = l.batch
          /\ y.target = l.target /\ y.attempt = l.attempt /\ y.failed = l.failed
        BY <1>0, <3>2 DEF SyncState
    <3> QED BY <3>3, <3>4, <3>5
  <2>2. l.pc = "send"
      BY <1>3 DEF ReplicaApply
  <2>3. Covers(m, offset, d) /\ Becomes(s, m)
      BY <1>0, <2>1, <2>2 DEF Covers
  <2> QED BY <1>0, <1>3, <2>3, CoveredStep DEF ReplicaApply
<1>4. CASE Acknowledge(s)
  <2>1. Busy(l) /\ l.target \in Replica /\ l.count \in Nat /\ l.pc = "answer"
      BY <1>0, <1>4, SyncBusy DEF Acknowledge, Busy, Sound, SyncState
  <2>2. /\ \A r \in Replica : offset[r] <= offset'[r]
        /\ offset'[l.target] = offset[l.target] + l.count
      BY <1>0, <1>4, <2>1 DEF Acknowledge
  <2>3. Covers(l, offset', d)
      BY <1>0, <2>1, <2>2, CoversMonotone DEF Busy
  <2>4. CASE l.count = Len(l.batch)
    <3>1. PICK m : m = [l EXCEPT !.pc = "compare"]
        OBVIOUS
    <3>2. m.target = l.target /\ m.attempt = l.attempt /\ m.failed = l.failed /\ m.pc = "compare"
        BY <1>0, <3>1 DEF SyncState
    <3>3. offset'[l.target] >= d
        BY <1>0, <2>1, <2>2, <2>4 DEF Covers
    <3>4. Covers(m, offset', d) /\ Becomes(s, m)
        BY <1>4, <2>3, <2>4, <3>1, <3>2, <3>3 DEF Covers, Acknowledge
    <3> QED BY <1>0, <1>4, <2>2, <3>4, CoveredStep DEF Acknowledge
  <2>5. CASE l.count # Len(l.batch)
    <3>1. Covers(MissedAttempt(l), offset', d) /\ Becomes(s, MissedAttempt(l))
        BY <1>0, <1>4, <2>1, <2>3, <2>5, CoversMissed DEF Acknowledge
    <3> QED BY <1>0, <1>4, <2>2, <3>1, CoveredStep DEF Acknowledge
  <2> QED BY <2>4, <2>5
<1>5. CASE LoseSync(s)
  <2>1. Busy(l)
      BY <1>0, <1>5, SyncBusy DEF LoseSync
  <2>2. Covers(MissedAttempt(l), offset, d) /\ Becomes(s, MissedAttempt(l))
      BY <1>0, <1>5, <2>1, CoversMissed DEF LoseSync
  <2> QED BY <1>0, <1>5, <2>2, CoveredStep DEF LoseSync
<1>6. ASSUME Busy(l), Becomes(s, NextAttempt(Failed(l))), UNCHANGED <<wal, offset, due>> PROVE AllCovered'
  <2>1. PICK m : m = Failed(l)
      OBVIOUS
  <2>2. Busy(m) /\ Covers(m, offset, d) /\ m.failed
      BY <1>0, <1>6, <2>1, FailedBusy, CoversFailed
  <2>3. Covers(NextAttempt(m), offset, d)
      BY <1>0, <2>2, CoversNextAttempt
  <2> QED BY <1>0, <1>6, <2>1, <2>3, CoveredStep
<1>7. CASE Compare(s)
  <2>1. Busy(l) /\ l.pc = "compare"
      BY <1>0, <1>7, SyncBusy DEF Compare
  <2>2. offset[l.target] >= d
      BY <1>0, <2>1 DEF Covers
  <2>3. CASE Becomes(s, NextReplica(l))
    <3>1. Covers(NextReplica(l), offset, d)
        BY <1>0, <2>1, <2>2, CoversNextReplica
    <3> QED BY <1>0, <1>7, <2>3, <3>1, CoveredStep DEF Compare
  <2> QED BY <1>6, <1>7, <2>1, <2>3 DEF Compare
<1>8. CASE LoseChecksum(s)
  <2>1. Busy(l)
      BY <1>0, <1>8, SyncBusy DEF LoseChecksum
  <2> QED BY <1>6, <1>8, <2>1 DEF LoseChecksum
<1>9. CASE Finish(s)
  <2>1. Covers(Resting, offset, d)
      BY <1>0, RestingCovers
  <2> QED BY <1>0, <1>9, <2>1, CoveredStep DEF Finish
<1> QED BY <1>1, <1>2, <1>3, <1>4, <1>5, <1>7, <1>8, <1>9 DEF SyncStep, Loss

\* A client's step lets the log grow and touches no Sync.
LEMMA CoveredClients ==
    ASSUME FlagInv, NEW c \in Client,
           ClientStep(c) \/ \E e \in WriteEntry : LogWrite(c, e)
    PROVE  AllCovered' /\ MainTurn'
<1> USE DEF primary, replicas, deliveries
<1>1. wal \in Seq(LogEntry) /\ due \in [Syncer -> Nat]
    BY DEF FlagInv, TypeOK
<1>2. Len(wal) \in Nat /\ Len(wal') \in Nat /\ Len(wal) <= Len(wal')
  <2>1. ASSUME NEW e \in WriteEntry, LogWrite(c, e) PROVE Len(wal') = Len(wal) + 1
      BY <1>1, <2>1 DEF LogWrite, LogEntry
  <2>2. ClientStep(c) => wal' = wal
      BY DEF ClientStep, ApplyWrite, FlagWrite
  <2> QED BY <1>1, <2>1, <2>2
<1>3. UNCHANGED <<phase, offset, sync, due>>
    BY DEF ClientStep, ApplyWrite, FlagWrite, LogWrite
<1> QED BY <1>1, <1>2, <1>3 DEF FlagInv, AllCovered, MainTurn, Idle

\* A Sync that begins has everything in the log before it.
LEMMA CoveredPhases ==
    ASSUME FlagInv, TypeOK', BeginLoop \/ BeginShutdown \/ BeginMain \/ ClearWAL
    PROVE  AllCovered' /\ MainTurn'
<1> USE DEF primary, replicas, deliveries
<1>1. /\ TypeOK /\ wal \in Seq(LogEntry) /\ Len(wal) \in Nat /\ due \in [Syncer -> Nat]
      /\ sync \in [Syncer -> SyncState]
    BY DEF FlagInv, TypeOK
<1>2. PICK m : m = [Resting EXCEPT !.pc = "read"]
    OBVIOUS
<1>3. m.pc = "read" /\ m.target = 1 /\ m.attempt = 0
    BY <1>2 DEF Resting
<1>4. \A d \in Nat : Covers(m, offset, d)
  <2>1. ~ \E r \in Replica : r < 1
      BY DEF Replica
  <2> QED BY <1>3, <2>1, ConstantsAssumption DEF Covers
<1>5. ASSUME NEW s \in Syncer, Begin(s), phase # "down", UNCHANGED <<wal, offset>> PROVE AllCovered'
  <2>1. \A t \in Syncer : /\ sync'[t] = IF t = s THEN m ELSE sync[t]
                          /\ due'[t] = IF t = s THEN Len(wal) ELSE due[t]
      BY <1>1, <1>2, <1>5 DEF Begin, Becomes
  <2>2. \A t \in Syncer : due[t] <= Len(wal) /\ Covers(sync[t], offset, due[t])
      BY <1>5 DEF FlagInv, AllCovered
  <2>3. \A t \in Syncer : due'[t] <= Len(wal) /\ Covers(sync'[t], offset, due'[t])
      BY <1>1, <1>4, <2>1, <2>2
  <2> QED BY <1>5, <2>3 DEF AllCovered
<1>6. CASE BeginLoop
  <2>1. AllCovered'
      BY <1>5, <1>6 DEF BeginLoop, Syncer
  <2>2. sync'["main"] = sync["main"] /\ phase' = phase
      BY <1>1, <1>6 DEF BeginLoop, Begin, Becomes, Syncer
  <2> QED BY <2>1, <2>2 DEF FlagInv, MainTurn, Idle
<1>7. CASE BeginMain
  <2>1. AllCovered'
      BY <1>5, <1>7 DEF BeginMain, Syncer
  <2>2. phase' = "syncing"
      BY <1>7 DEF BeginMain
  <2> QED BY <2>1, <2>2 DEF MainTurn
<1>8. CASE BeginShutdown
    BY <1>8 DEF BeginShutdown, FlagInv, AllCovered, MainTurn, Idle
<1>9. CASE ClearWAL
    BY <1>9 DEF ClearWAL, FlagInv, AllCovered, MainTurn, Idle
<1> QED BY <1>6, <1>7, <1>8, <1>9

\* Steps of Sync keep the destructor's Sync in its phase, and nothing leaves "down".
LEMMA TurnSync ==
    ASSUME TypeOK, MainTurn, NEW s \in Syncer, SyncStep(s) \/ Loss(s)
    PROVE  MainTurn' /\ (phase = "down" => phase' = "down")
<1> USE DEF primary, replicas, deliveries
<1>1. sync \in [Syncer -> SyncState] /\ MainTurn /\ Resting.pc = "idle"
    BY DEF TypeOK, Resting
<1>2. ~Idle(s)
    BY DEF SyncStep, Loss, ReadLog, ComputeChecksum, ReplicaApply, Acknowledge, LoseSync,
           Compare, LoseChecksum, Finish, Idle
<1>3. CASE Finish(s)
  <2>1. CASE s = "main"
    <3>1. sync'["main"] = Resting
        BY <1>1, <1>3, <2>1 DEF Finish, Becomes
    <3> QED BY <1>1, <1>2, <2>1, <3>1 DEF MainTurn, Idle
  <2>2. CASE s # "main"
    <3>1. sync'["main"] = sync["main"] /\ phase' = phase
        BY <1>1, <1>3, <2>2 DEF Finish, Becomes, Syncer
    <3> QED BY <1>1, <3>1 DEF MainTurn, Idle
  <2> QED BY <2>1, <2>2
<1>4. CASE ~Finish(s)
  <2>1. phase' = phase
      BY <1>4 DEF SyncStep, Loss, ReadLog, ComputeChecksum, ReplicaApply, Acknowledge, LoseSync,
                  Compare, LoseChecksum
  <2>2. \E l : Becomes(s, l)
      BY <1>4 DEF SyncStep, Loss, ReadLog, ComputeChecksum, ReplicaApply, Acknowledge, LoseSync,
                  Compare, LoseChecksum
  <2>3. s # "main" => sync'["main"] = sync["main"]
      BY <1>1, <2>2 DEF Becomes, Syncer
  <2> QED BY <1>1, <1>2, <2>1, <2>3 DEF MainTurn, Idle
<1> QED BY <1>3, <1>4

LEMMA FlagInit == Init => FlagInv
<1> SUFFICES ASSUME Init PROVE FlagInv
    OBVIOUS
<1>1. TypeOK
    BY TypeInit
<1>2. Len(wal) = 1 /\ \A s \in Syncer : due[s] = 0 /\ sync[s] = Resting
    BY DEF Init
<1>3. AllCovered
    BY <1>2, RestingCovers DEF AllCovered
<1>4. MainTurn
    BY <1>2 DEF MainTurn, Idle, Syncer, Resting
<1> QED BY <1>1, <1>3, <1>4 DEF FlagInv

LEMMA FlagStep == FlagInv /\ [Next]_vars => FlagInv'
<1> SUFFICES ASSUME FlagInv, [Next]_vars PROVE FlagInv'
    OBVIOUS
<1>1. TypeOK'
    BY TypeStep DEF FlagInv
<1>2. CASE UNCHANGED vars
    BY <1>2 DEF vars, primary, replicas, deliveries, FlagInv, TypeOK, AllCovered, MainTurn, Idle
<1>3. ASSUME NEW s \in Syncer, SyncStep(s) \/ Loss(s) PROVE AllCovered' /\ MainTurn'
  <2>1. CASE phase = "down"
      BY <1>3, <2>1, TurnSync DEF AllCovered, FlagInv
  <2>2. CASE phase # "down"
      BY <1>1, <1>3, <2>2, TurnSync, CoveredSync DEF FlagInv
  <2> QED BY <2>1, <2>2
<1>4. CASE Next
    BY <1>1, <1>3, <1>4, CoveredClients, CoveredPhases DEF Next, FlagInv
<1> QED BY <1>1, <1>2, <1>4 DEF FlagInv

LEMMA FlagLeads ==
    ASSUME FlagInv, NEW s \in Syncer, Finish(s), modified, ~modified', phase # "down",
           NEW r \in Replica
    PROVE  offset[r] >= due[s]
<1>1. Covers(sync[s], offset, due[s]) /\ sync[s].pc = "finish"
    BY DEF FlagInv, AllCovered, Finish
<1>2. ~sync[s].failed
    BY DEF Finish
<1>3. sync[s].target = NumReplicas + 1
    BY <1>1 DEF Covers
<1>4. r < NumReplicas + 1
    BY ConstantsAssumption DEF Replica
<1> QED BY <1>1, <1>2, <1>3, <1>4 DEF Covers

-----------------------------------------------------------------------------
(* The modified flag is cleared for lines that every replica applied.      *)

\* The lines under way in local state l follow those that its target counts as
\* sent, b of them, and the target has applied all up to the count.
Sent(l, b, o, d) ==
    /\ l.pc = "sum" => l.count = 0
    /\ l.pc \in {"sum", "send", "answer"} =>
           b = o[l.target] /\ \A i \in 1 .. b + l.count : i \in d[l.target]

\* The loop's Sync runs beside the destructor's only if it did from the start.
Apart == IF phase \in {"up", "closing"} THEN ~overlapped ELSE overlapped \/ Idle("loop")

\* An offset counts only lines that its replica has applied.
AllSent == ~overlapped => /\ \A r \in Replica : \A i \in 1 .. offset[r] : i \in delivered[r]
                          /\ \A s \in Syncer : Sent(sync[s], base[s], offset, delivered)

SentInv == FlagInv /\ Apart /\ AllSent

LEMMA NotSent ==
    ASSUME NEW l, l.pc \notin {"sum", "send", "answer"}, NEW b, NEW o, NEW d
    PROVE  Sent(l, b, o, d)
BY DEF Sent

\* Next to a running Sync the other one rests.
LEMMA AloneSync ==
    ASSUME SentInv, ~overlapped, NEW s \in Syncer, ~Idle(s), NEW t \in Syncer, t # s
    PROVE  sync[t].pc = "idle"
BY DEF SentInv, FlagInv, MainTurn, Apart, Idle, Syncer

\* The step of Sync s is honest if its own lines are, and its target's.
LEMMA SentStep ==
    ASSUME SentInv, ~overlapped, NEW s \in Syncer, ~Idle(s), NEW m, Becomes(s, m),
           \A r \in Replica : \A i \in 1 .. offset'[r] : i \in delivered'[r],
           Sent(m, base'[s], offset', delivered')
    PROVE  AllSent'
<1>1. sync \in [Syncer -> SyncState]
    BY DEF SentInv, FlagInv, TypeOK
<1>2. ASSUME NEW t \in Syncer PROVE Sent(sync'[t], base'[t], offset', delivered')
  <2>1. CASE t = s
      BY <1>1, <2>1 DEF Becomes
  <2>2. CASE t # s
    <3>1. sync'[t] = sync[t] /\ sync[t].pc = "idle"
        BY <1>1, <2>2, AloneSync DEF Becomes
    <3> QED BY <3>1, NotSent
  <2> QED BY <2>1, <2>2
<1> QED BY <1>2 DEF AllSent

LEMMA SentSync ==
    ASSUME SentInv, TypeOK', ~overlapped, NEW s \in Syncer, SyncStep(s) \/ Loss(s)
    PROVE  AllSent'
<1> DEFINE l == sync[s]
           t == l.target
<1> USE DEF primary, replicas
<1>1. /\ TypeOK /\ offset \in [Replica -> Nat] /\ delivered \in [Replica -> SUBSET Nat]
      /\ sync \in [Syncer -> SyncState] /\ l \in SyncState /\ base \in [Syncer -> Nat]
      /\ l.pc \notin {"idle", "finish"} => t \in Replica
    BY DEF SentInv, FlagInv, TypeOK
<1>2. /\ \A r \in Replica : \A i \in 1 .. offset[r] : i \in delivered[r]
      /\ Sent(l, base[s], offset, delivered)
    BY DEF SentInv, AllSent
<1>3. ~Idle(s)
    BY DEF SyncStep, Loss, ReadLog, ComputeChecksum, ReplicaApply, Acknowledge, LoseSync,
           Compare, LoseChecksum, Finish, Idle
<1>4. ASSUME NEW m, Becomes(s, m), m.pc \notin {"sum", "send", "answer"}, UNCHANGED <<offset, delivered>>
      PROVE  AllSent'
    BY <1>2, <1>3, <1>4, NotSent, SentStep
<1>5. CASE ReadLog(s)
  <2>1. l.pc = "read" /\ UNCHANGED <<offset, delivered>> /\ base'[s] = offset[t] /\ t \in Replica
      BY <1>1, <1>5 DEF ReadLog
  <2>2. PICK u : u = Unsent(t)
      OBVIOUS
  <2>3. CASE u = << >>
    <3>1. Becomes(s, NextAttempt(l))
        BY <1>5, <2>2, <2>3 DEF ReadLog
    <3> QED BY <1>1, <1>4, <2>1, <3>1, NextAttemptIdles
  <2>4. CASE u # << >>
    <3>1. PICK m : m = [l EXCEPT !.pc = "sum", !.batch = u, !.count = 0]
        OBVIOUS
    <3>2. m.target = t /\ m.pc = "sum" /\ m.count = 0
        BY <1>1, <3>1 DEF SyncState
    <3>3. Becomes(s, m)
        BY <1>5, <2>2, <2>4, <3>1 DEF ReadLog
    <3>4. base'[s] + m.count = offset[t]
        BY <1>1, <2>1, <3>2
    <3>5. Sent(m, base'[s], offset', delivered')
        BY <1>2, <2>1, <3>2, <3>4 DEF Sent
    <3> QED BY <1>2, <1>3, <2>1, <3>3, <3>5, SentStep
  <2> QED BY <2>3, <2>4
<1>6. CASE ComputeChecksum(s)
  <2>1. PICK m : m = [l EXCEPT !.pc = "send", !.sum = data]
      OBVIOUS
  <2>2. m.target = t /\ m.pc = "send" /\ m.count = l.count /\ l.pc = "sum"
      BY <1>1, <1>6, <2>1 DEF ComputeChecksum, SyncState
  <2>3. Becomes(s, m) /\ UNCHANGED <<offset, base, delivered>>
      BY <1>6, <2>1 DEF ComputeChecksum, deliveries
  <2>4. Sent(m, base'[s], offset', delivered')
      BY <1>2, <2>2, <2>3 DEF Sent
  <2> QED BY <1>2, <1>3, <2>3, <2>4, SentStep
<1>7. CASE ReplicaApply(s)
  <2>1. l.pc = "send" /\ t \in Replica /\ l.count \in Nat /\ UNCHANGED <<offset, base>>
      BY <1>1, <1>7 DEF ReplicaApply, SyncState
  <2>2. base[s] = offset[t] /\ \A i \in 1 .. base[s] + l.count : i \in delivered[t]
      BY <1>2, <2>1 DEF Sent
  <2>3. PICK n \in Nat : n = base[s] + l.count /\ base[s] + (l.count + 1) = n + 1 /\ base[s] + l.count + 1 = n + 1
      BY <1>1, <2>1
  <2>4. CASE Accepts(t, l.batch[l.count + 1])
    <3>1. PICK q \in {"answer", "send"} : q = IF l.count + 1 = Len(l.batch) THEN "answer" ELSE "send"
        OBVIOUS
    <3>2. PICK m : m = [l EXCEPT !.count = l.count + 1, !.pc = q]
        OBVIOUS
    <3>3. m.target = t /\ m.pc = q /\ m.count = l.count + 1
        BY <1>1, <3>2 DEF SyncState
    <3>4. Becomes(s, m) /\ delivered' = [delivered EXCEPT ![t] = delivered[t] \cup {n + 1}]
        BY <1>7, <2>3, <2>4, <3>1, <3>2 DEF ReplicaApply
    <3>5. /\ delivered'[t] = delivered[t] \cup {n + 1}
          /\ \A r \in Replica : r # t => delivered'[r] = delivered[r]
        BY <1>1, <2>1, <3>4
    <3>6. \A i \in 1 .. n + 1 : i \in delivered'[t]
      <4>1. \A i \in 1 .. n + 1 : i \in 1 .. n \/ i = n + 1
          OBVIOUS
      <4> QED BY <2>2, <2>3, <3>5, <4>1
    <3>7. Sent(m, base'[s], offset', delivered')
        BY <2>1, <2>2, <2>3, <3>1, <3>3, <3>6 DEF Sent
    <3>8. \A r \in Replica : \A i \in 1 .. offset'[r] : i \in delivered'[r]
      <4>1. \A r \in Replica : delivered[r] \subseteq delivered'[r]
          BY <3>5
      <4> QED BY <1>2, <2>1, <4>1
    <3> QED BY <1>3, <3>4, <3>7, <3>8, SentStep
  <2>5. CASE ~Accepts(t, l.batch[l.count + 1])
    <3>1. PICK m : m = [l EXCEPT !.pc = "answer"]
        OBVIOUS
    <3>2. m.target = t /\ m.pc = "answer" /\ m.count = l.count
        BY <1>1, <3>1 DEF SyncState
    <3>3. Becomes(s, m) /\ delivered' = delivered
        BY <1>7, <2>5, <3>1 DEF ReplicaApply
    <3>4. Sent(m, base'[s], offset', delivered')
        BY <2>1, <2>2, <3>2, <3>3 DEF Sent
    <3> QED BY <1>2, <1>3, <2>1, <3>3, <3>4, SentStep
  <2> QED BY <2>4, <2>5
<1>8. CASE Acknowledge(s)
  <2>1. l.pc = "answer" /\ t \in Replica /\ l.count \in Nat /\ UNCHANGED <<base, delivered>>
      BY <1>1, <1>8 DEF Acknowledge, SyncState, deliveries
  <2>2. offset' = [offset EXCEPT ![t] = offset[t] + l.count]
      BY <1>8 DEF Acknowledge
  <2>3. base[s] = offset[t] /\ \A i \in 1 .. base[s] + l.count : i \in delivered[t]
      BY <1>2, <2>1 DEF Sent
  <2>4. \A r \in Replica : \A i \in 1 .. offset'[r] : i \in delivered'[r]
      BY <1>1, <1>2, <2>1, <2>2, <2>3
  <2>5. PICK m : m = [l EXCEPT !.pc = "compare"]
      OBVIOUS
  <2>6. m.pc = "compare"
      BY <1>1, <2>5 DEF SyncState
  <2>7. Becomes(s, m) \/ Becomes(s, MissedAttempt(l))
      BY <1>8, <2>5 DEF Acknowledge
  <2> QED BY <1>1, <1>3, <2>4, <2>6, <2>7, NextAttemptIdles, NotSent, SentStep
<1>9. CASE LoseSync(s)
    BY <1>1, <1>4, <1>9, NextAttemptIdles DEF LoseSync, deliveries
<1>10. CASE Compare(s)
  <2>1. Becomes(s, NextReplica(l)) \/ Becomes(s, NextAttempt(Failed(l)))
      BY <1>10 DEF Compare
  <2> QED BY <1>1, <1>4, <1>10, <2>1, NextAttemptIdles DEF Compare, deliveries
<1>11. CASE LoseChecksum(s)
    BY <1>1, <1>4, <1>11, NextAttemptIdles DEF LoseChecksum, deliveries
<1>12. CASE Finish(s)
  <2>1. Resting.pc = "idle"
      BY DEF Resting
  <2> QED BY <1>4, <1>12, <2>1 DEF Finish, deliveries
<1> QED BY <1>5, <1>6, <1>7, <1>8, <1>9, <1>10, <1>11, <1>12 DEF SyncStep, Loss

LEMMA SentInit == Init => SentInv
<1> SUFFICES ASSUME Init PROVE SentInv
    OBVIOUS
<1>1. FlagInv
    BY FlagInit
<1>2. \A s \in Syncer : sync[s].pc = "idle"
    BY DEF Init, Resting
<1>3. \A r \in Replica : \A i \in 1 .. offset[r] : i \in delivered[r]
    BY DEF Init
<1>4. AllSent
    BY <1>2, <1>3, NotSent DEF AllSent
<1>5. Apart
    BY DEF Init, Apart
<1> QED BY <1>1, <1>4, <1>5 DEF SentInv

LEMMA SentNext == SentInv /\ [Next]_vars => SentInv'
<1> SUFFICES ASSUME SentInv, [Next]_vars PROVE SentInv'
    OBVIOUS
<1> USE DEF primary, replicas, deliveries
<1>1. FlagInv /\ FlagInv' /\ TypeOK /\ TypeOK' /\ MainTurn /\ sync \in [Syncer -> SyncState]
    BY FlagStep DEF SentInv, FlagInv, TypeOK
<1>2. ASSUME UNCHANGED <<phase, offset, sync, base, delivered, overlapped>> PROVE SentInv'
  <2>1. AllSent' /\ Apart'
      BY <1>2 DEF SentInv, AllSent, Apart, Idle
  <2> QED BY <1>1, <2>1 DEF SentInv
<1>3. CASE UNCHANGED vars
    BY <1>2, <1>3 DEF vars
<1>4. CASE Next
  <2>1. ASSUME NEW c \in Client, ClientStep(c) \/ \E e \in WriteEntry : LogWrite(c, e) PROVE SentInv'
      BY <1>2, <2>1 DEF ClientStep, ApplyWrite, FlagWrite, LogWrite
  <2>2. ASSUME NEW s \in Syncer, SyncStep(s) \/ Loss(s) PROVE SentInv'
    <3>1. /\ overlapped' = overlapped
          /\ phase' = phase \/ (s = "main" /\ phase' = "synced")
          /\ \E m : Becomes(s, m)
        BY <2>2 DEF SyncStep, Loss, ReadLog, ComputeChecksum, ReplicaApply, Acknowledge, LoseSync,
                    Compare, LoseChecksum, Finish
    <3>2. ~Idle(s)
        BY <2>2 DEF SyncStep, Loss, ReadLog, ComputeChecksum, ReplicaApply, Acknowledge, LoseSync,
                    Compare, LoseChecksum, Finish, Idle
    <3>3. Apart'
      <4>1. CASE s = "loop"
          BY <3>1, <3>2, <4>1 DEF SentInv, Apart
      <4>2. CASE s = "main"
        <5>1. sync'["loop"] = sync["loop"]
            BY <1>1, <3>1, <4>2 DEF Becomes, Syncer
        <5>2. phase = "syncing"
            BY <1>1, <3>2, <4>2 DEF MainTurn
        <5> QED BY <3>1, <5>1, <5>2 DEF SentInv, Apart, Idle
      <4> QED BY <4>1, <4>2 DEF Syncer
    <3>4. AllSent'
      <4>1. CASE overlapped
          BY <3>1, <4>1 DEF AllSent
      <4> QED BY <1>1, <2>2, <4>1, SentSync
    <3> QED BY <1>1, <3>3, <3>4 DEF SentInv
  <2>3. ASSUME NEW s \in Syncer, Begin(s), UNCHANGED <<offset, base, delivered>>,
               ~overlapped' => ~overlapped
        PROVE  AllSent'
    <3>1. PICK m : m = [Resting EXCEPT !.pc = "read"]
        OBVIOUS
    <3>2. m.pc = "read"
        BY <3>1 DEF Resting
    <3>3. \A u \in Syncer : sync'[u] = IF u = s THEN m ELSE sync[u]
        BY <1>1, <2>3, <3>1 DEF Begin, Becomes
    <3>4. ~overlapped' => \A u \in Syncer : Sent(sync'[u], base'[u], offset', delivered')
        BY <2>3, <3>2, <3>3, NotSent DEF SentInv, AllSent
    <3> QED BY <2>3, <3>4 DEF SentInv, AllSent
  <2>4. CASE BeginLoop
    <3>1. AllSent'
        BY <2>3, <2>4 DEF BeginLoop, Syncer
    <3>2. Apart'
        BY <2>4 DEF BeginLoop, SentInv, Apart
    <3> QED BY <1>1, <3>1, <3>2 DEF SentInv
  <2>5. CASE BeginMain
    <3>1. ~overlapped
        BY <2>5 DEF BeginMain, SentInv, Apart
    <3>2. AllSent'
        BY <2>3, <2>5, <3>1 DEF BeginMain, Syncer
    <3>3. Apart'
      <4>1. sync'["loop"] = sync["loop"]
          BY <1>1, <2>5 DEF BeginMain, Begin, Becomes, Syncer
      <4> QED BY <2>5, <4>1 DEF BeginMain, Apart, Idle
    <3> QED BY <1>1, <3>2, <3>3 DEF SentInv
  <2>6. CASE BeginShutdown \/ ClearWAL
    <3>1. Apart' /\ AllSent'
        BY <2>6 DEF BeginShutdown, ClearWAL, SentInv, Apart, AllSent, Idle
    <3> QED BY <1>1, <3>1 DEF SentInv
  <2> QED BY <1>4, <2>1, <2>2, <2>4, <2>5, <2>6 DEF Next
<1> QED BY <1>3, <1>4

\* A Sync that clears the modified flag has had every line that was in the log
\* when it began applied by every replica, if no second Sync ran beside it.
THEOREM FlagHonest == Spec => FlagClearedWhenSent
<1>1. ASSUME SentInv, ~overlapped, NEW s \in Syncer PROVE ClearsDelivered(s)
  <2>1. SUFFICES ASSUME Finish(s), modified, ~modified', NEW r \in Replica
                 PROVE  1 .. due[s] \subseteq delivered[r]
      BY DEF ClearsDelivered
  <2>2. phase # "down"
    <3>1. ~Idle(s)
        BY <2>1 DEF Finish, Idle
    <3> QED BY <1>1, <3>1 DEF SentInv, FlagInv, MainTurn, Apart, Syncer
  <2>3. offset[r] >= due[s]
      BY <1>1, <2>1, <2>2, FlagLeads DEF SentInv
  <2>4. offset[r] \in Nat /\ due[s] \in Nat /\ \A i \in 1 .. offset[r] : i \in delivered[r]
      BY <1>1 DEF SentInv, FlagInv, TypeOK, AllSent
  <2> QED BY <2>3, <2>4
<1>2. SentInv /\ [Next]_vars => [~overlapped => \A s \in Syncer : ClearsDelivered(s)]_vars
    BY <1>1
<1> QED BY <1>2, SentInit, SentNext, PTL DEF Spec, FlagClearedWhenSent

-----------------------------------------------------------------------------
(* Replicas hold prefixes of the log.                                      *)

\* The lines replica r has applied when the loop's local state is l.
Reached(l, o, r) == o[r] + (IF l.pc \in {"send", "answer"} /\ l.target = r THEN l.count ELSE 0)

\* The lines under way are those of log w that follow the target's offset.
Ahead(l, o, w) ==
    /\ l.pc = "sum" => l.count = 0
    /\ l.pc \in {"sum", "send", "answer"} =>
           /\ l.count <= Len(l.batch)
           /\ \A i \in 1 .. Len(l.batch) : o[l.target] + i <= Len(w) /\ w[o[l.target] + i] = l.batch[i]

\* A replica with store f is where line n of log w leads.
Held(n, w, h, f) == /\ n <= Len(w)
                    /\ h <=> n > 0
                    /\ \A id \in Id : Yields(Absent, w, n, id, f[id])

\* The loop goes from local state l to m while no replica applies a line ...
Stays(l, o, m, p) == copy' = copy /\ \A r \in Replica : Reached(m, p, r) = Reached(l, o, r)

\* ... or while one of them applies one.
Advances(l, m) ==
    \E t \in Replica : /\ Reached(m, offset, t) = Reached(l, offset, t) + 1
                       /\ \A r \in Replica \ {t} : /\ Reached(m, offset, r) = Reached(l, offset, r)
                                                   /\ copy'[r] = copy[r]

PrefixInv ==
    /\ TypeOK
    /\ MainTurn
    /\ Undisturbed => /\ Len(wal) > 0
                      /\ Ahead(sync["loop"], offset, wal)
                      /\ \A r \in Replica : Held(Reached(sync["loop"], offset, r), wal, hosted[r], copy[r])

\* While nothing disturbs the table, Sync is run by the loop alone.
LEMMA OnlyLoop ==
    ASSUME TypeOK, TypeOK', MainTurn, NEW s \in Syncer, SyncStep(s) \/ Loss(s), Undisturbed'
    PROVE  Undisturbed /\ s = "loop"
<1>1. losses \in Nat /\ losses' \in Nat
    BY DEF TypeOK
<1>2. /\ losses' = losses \/ losses' = losses + 1
      /\ phase' = phase \/ phase' = "synced"
    BY DEF SyncStep, Loss, ReadLog, ComputeChecksum, ReplicaApply, Acknowledge, LoseSync,
           Compare, LoseChecksum, Finish, primary
<1>3. Undisturbed
    BY <1>1, <1>2 DEF Undisturbed
<1>4. ~Idle(s)
    BY DEF SyncStep, Loss, ReadLog, ComputeChecksum, ReplicaApply, Acknowledge, LoseSync,
           Compare, LoseChecksum, Finish, Idle
<1> QED BY <1>3, <1>4 DEF Undisturbed, MainTurn, Syncer

\* Where the loop stands between two RPCs nothing is under way.
LEMMA NotSending ==
    ASSUME NEW l, l.pc \notin {"sum", "send", "answer"}, NEW o, NEW w
    PROVE  Ahead(l, o, w) /\ \A r \in Replica : o[r] \in Nat => Reached(l, o, r) = o[r]
BY DEF Ahead, Reached

\* The log grows by a line, and what was applied stays what it was.
LEMMA PrefixLog ==
    ASSUME PrefixInv, Undisturbed, NEW c \in Client, NEW e \in WriteEntry, LogWrite(c, e)
    PROVE  /\ Len(wal') > 0
           /\ Ahead(sync["loop"], offset, wal')
           /\ \A r \in Replica : Held(Reached(sync["loop"], offset, r), wal', hosted[r], copy[r])
<1> DEFINE l == sync["loop"]
           n == Len(wal)
<1>1. wal \in Seq(LogEntry) /\ n \in Nat /\ e \in LogEntry /\ wal' = Append(wal, e)
    BY DEF PrefixInv, TypeOK, LogWrite, LogEntry
<1>2. Len(wal') = n + 1 /\ \A i \in 1 .. n : wal[i] = wal'[i]
    BY <1>1
<1>3. l \in SyncState /\ offset \in [Replica -> Nat] /\ (l.pc \notin {"idle", "finish"} => l.target \in Replica)
    BY DEF PrefixInv, TypeOK, Syncer
<1>4. Ahead(l, offset, wal')
    BY <1>1, <1>2, <1>3 DEF PrefixInv, Ahead, SyncState
<1>5. ASSUME NEW r \in Replica PROVE Held(Reached(l, offset, r), wal', hosted[r], copy[r])
  <2>1. PICK k \in Nat : k = Reached(l, offset, r)
      BY <1>3 DEF Reached, SyncState
  <2>2. Held(k, wal, hosted[r], copy[r])
      BY <2>1 DEF PrefixInv
  <2>3. \A i \in 1 .. k : wal[i] = wal'[i]
      BY <1>1, <1>2, <2>1, <2>2 DEF Held
  <2>4. \A id \in Id : Yields(Absent, wal', k, id, copy[r][id])
      BY <2>1, <2>2, <2>3, YieldsSamePrefix DEF Held
  <2> QED BY <1>1, <1>2, <2>1, <2>2, <2>4 DEF Held
<1> QED BY <1>1, <1>2, <1>4, <1>5

\* An accepted line takes the replica one line further, a refused one nowhere.
LEMMA PrefixApply ==
    ASSUME PrefixInv, Undisturbed, ReplicaApply("loop")
    PROVE  /\ Ahead(sync'["loop"], offset, wal)
           /\ \A r \in Replica : Held(Reached(sync'["loop"], offset, r), wal, hosted'[r], copy'[r])
           /\ \/ Stays(sync["loop"], offset, sync'["loop"], offset')
              \/ Advances(sync["loop"], sync'["loop"])
<1> DEFINE l == sync["loop"]
           t == l.target
<1>0. "loop" \in Syncer
    BY DEF Syncer
<1>1. /\ TypeOK /\ wal \in Seq(LogEntry) /\ Len(wal) \in Nat /\ offset \in [Replica -> Nat]
      /\ hosted \in [Replica -> BOOLEAN] /\ copy \in [Replica -> [Id -> Value]]
      /\ sync \in [Syncer -> SyncState] /\ l \in SyncState
      /\ l.pc = "send" /\ t \in Replica /\ l.count \in Nat /\ Len(l.batch) \in Nat /\ l.count < Len(l.batch)
    BY <1>0 DEF PrefixInv, TypeOK, ReplicaApply, SyncState
<1>2. PICK n \in Nat : n = offset[t] + l.count /\ offset[t] + (l.count + 1) = n + 1
  <2>1. PICK a \in Nat, b \in Nat : a = offset[t] /\ b = l.count
      BY <1>1
  <2>2. a + b \in Nat /\ a + (b + 1) = (a + b) + 1
      OBVIOUS
  <2> QED BY <2>1, <2>2
<1>3. /\ Ahead(l, offset, wal)
      /\ \A r \in Replica : Held(Reached(l, offset, r), wal, hosted[r], copy[r])
    BY DEF PrefixInv
<1>4. Reached(l, offset, t) = n /\ \A r \in Replica : r # t => Reached(l, offset, r) = offset[r]
    BY <1>1, <1>2 DEF Reached
<1>5. PICK e \in LogEntry : e = l.batch[l.count + 1]
    BY <1>1 DEF SyncState
<1>6. n + 1 <= Len(wal) /\ wal[n + 1] = e
  <2>1. l.count + 1 \in 1 .. Len(l.batch)
      BY <1>1
  <2>2. offset[t] + (l.count + 1) <= Len(wal) /\ wal[offset[t] + (l.count + 1)] = l.batch[l.count + 1]
      BY <1>1, <1>3, <2>1 DEF Ahead
  <2> QED BY <1>2, <1>5, <2>2
<1>7. CASE Accepts(t, e)
  <2>1. PICK q \in {"answer", "send"} : q = IF l.count + 1 = Len(l.batch) THEN "answer" ELSE "send"
      OBVIOUS
  <2>2. PICK m : m = [l EXCEPT !.count = l.count + 1, !.pc = q]
      OBVIOUS
  <2>3. m.target = t /\ m.pc = q /\ m.count = l.count + 1 /\ m.batch = l.batch
      BY <1>1, <2>2 DEF SyncState
  <2>4. sync'["loop"] = m
      BY <1>0, <1>1, <1>5, <1>7, <2>1, <2>2 DEF ReplicaApply, Becomes
  <2>5. Ahead(m, offset, wal)
      BY <1>1, <1>3, <2>1, <2>3 DEF Ahead
  <2>6. PICK f : f = [id \in Id |-> Effect(copy[t][id], e, id)]
      OBVIOUS
  <2>7. hosted' = [hosted EXCEPT ![t] = TRUE] /\ copy' = [copy EXCEPT ![t] = f]
      BY <1>5, <1>7, <2>6 DEF ReplicaApply
  <2>8. ASSUME NEW id \in Id PROVE Yields(Absent, wal, n + 1, id, f[id])
    <3>1. Yields(Absent, wal, n, id, copy[t][id]) /\ copy[t][id] \in Value
        BY <1>1, <1>3, <1>4 DEF Held
    <3>2. \A i \in 1 .. n + 1 : Adds(wal[i], id) => wal[i].payload \in Payload
      <4>1. \A i \in 1 .. n + 1 : wal[i] \in LogEntry
          BY <1>1, <1>6
      <4>2. \A x \in LogEntry : Adds(x, id) => x.payload \in Payload
          BY DEF Adds, LogEntry, WriteEntry, InsertEntry, RemoveEntry, CreateEntry
      <4> QED BY <4>1, <4>2
    <3>3. Absent \in Value
        BY DEF Value
    <3>4. Yields(Absent, wal, n + 1, id, Effect(copy[t][id], wal[n + 1], id))
        BY <3>1, <3>2, <3>3, YieldsStep
    <3>5. f[id] = Effect(copy[t][id], e, id)
        BY <2>6
    <3> QED BY <1>6, <3>4, <3>5
  <2>9. Held(n + 1, wal, hosted'[t], copy'[t])
      BY <1>1, <1>6, <2>7, <2>8 DEF Held
  <2>10. Reached(m, offset, t) = n + 1 /\ \A r \in Replica : r # t => Reached(m, offset, r) = offset[r]
    <3>1. m.pc \in {"send", "answer"}
        BY <2>1, <2>3
    <3>2. Reached(m, offset, t) = n + 1
        BY <1>2, <2>3, <3>1 DEF Reached
    <3>3. \A r \in Replica : r # t => Reached(m, offset, r) = offset[r]
        BY <1>1, <2>3 DEF Reached
    <3> QED BY <3>2, <3>3
  <2>11. \A r \in Replica : r # t => hosted'[r] = hosted[r] /\ copy'[r] = copy[r]
      BY <1>1, <2>7
  <2>12. \A r \in Replica : r # t => Held(offset[r], wal, hosted[r], copy[r])
      BY <1>3, <1>4
  <2>13. ASSUME NEW r \in Replica PROVE Held(Reached(m, offset, r), wal, hosted'[r], copy'[r])
    <3>1. CASE r = t
        BY <3>1, <2>9, <2>10
    <3>2. CASE r # t
        BY <3>2, <2>10, <2>11, <2>12
    <3> QED BY <3>1, <3>2
  <2>14. Advances(l, m)
      BY <1>1, <1>4, <2>10, <2>11 DEF Advances
  <2> QED BY <2>4, <2>5, <2>13, <2>14
<1>8. CASE ~Accepts(t, e)
  <2>1. PICK m : m = [l EXCEPT !.pc = "answer"]
      OBVIOUS
  <2>2. m.target = t /\ m.pc = "answer" /\ m.count = l.count /\ m.batch = l.batch
      BY <1>1, <2>1 DEF SyncState
  <2>3. sync'["loop"] = m /\ hosted' = hosted /\ copy' = copy
      BY <1>0, <1>1, <1>5, <1>8, <2>1 DEF ReplicaApply, Becomes, replicas
  <2>4. Ahead(m, offset, wal)
      BY <1>1, <1>3, <2>2 DEF Ahead
  <2>5. \A r \in Replica : Reached(m, offset, r) = Reached(l, offset, r)
      BY <1>1, <2>2 DEF Reached
  <2>6. offset' = offset
      BY DEF ReplicaApply
  <2> QED BY <1>3, <2>3, <2>4, <2>5, <2>6 DEF Stays
<1> QED BY <1>7, <1>8

\* The other steps of the loop move the count into the offset, or do nothing
\* to what was applied.
LEMMA PrefixSync ==
    ASSUME PrefixInv, Undisturbed, TypeOK', SyncStep("loop") \/ Loss("loop"), Undisturbed'
    PROVE  /\ Ahead(sync'["loop"], offset', wal')
           /\ \A r \in Replica : Held(Reached(sync'["loop"], offset', r), wal', hosted'[r], copy'[r])
           /\ wal' = wal
           /\ \/ Stays(sync["loop"], offset, sync'["loop"], offset')
              \/ Advances(sync["loop"], sync'["loop"]) /\ offset' = offset
<1> DEFINE l == sync["loop"]
           Goal == /\ Ahead(sync'["loop"], offset', wal')
                   /\ \A r \in Replica : Held(Reached(sync'["loop"], offset', r), wal', hosted'[r], copy'[r])
                   /\ wal' = wal
                   /\ Stays(l, offset, sync'["loop"], offset')
<1> USE DEF primary, replicas, deliveries
<1>0. "loop" \in Syncer
    BY DEF Syncer
<1>1. /\ TypeOK /\ wal \in Seq(LogEntry) /\ Len(wal) \in Nat /\ offset \in [Replica -> Nat]
      /\ sync \in [Syncer -> SyncState] /\ l \in SyncState /\ losses \in Nat
      /\ l.pc \notin {"idle", "finish"} => l.target \in Replica
    BY <1>0 DEF PrefixInv, TypeOK
<1>2. /\ Ahead(l, offset, wal)
      /\ \A r \in Replica : Held(Reached(l, offset, r), wal, hosted[r], copy[r])
    BY DEF PrefixInv
<1>3. \A m : Becomes("loop", m) => sync'["loop"] = m
    BY <1>0, <1>1 DEF Becomes
<1>4. ASSUME NEW m, Becomes("loop", m), UNCHANGED <<wal, replicas>>, offset' \in [Replica -> Nat],
             m.pc \notin {"sum", "send", "answer"},
             \A r \in Replica : offset'[r] = Reached(l, offset, r)
      PROVE  Goal
  <2>1. sync'["loop"] = m /\ wal' = wal /\ hosted' = hosted /\ copy' = copy
      BY <1>3, <1>4
  <2>2. Ahead(m, offset', wal) /\ \A r \in Replica : Reached(m, offset', r) = offset'[r]
      BY <1>4, NotSending
  <2> QED BY <1>2, <1>4, <2>1, <2>2 DEF Stays
<1>5. l.pc \notin {"sum", "send", "answer"} => \A r \in Replica : offset[r] = Reached(l, offset, r)
    BY <1>1, NotSending
<1>6. CASE ReadLog("loop")
  <2>1. l.pc = "read" /\ l.target \in Replica /\ UNCHANGED <<wal, offset, replicas>>
      BY <1>1, <1>6 DEF ReadLog
  <2>2. PICK b : b = Unsent(l.target)
      OBVIOUS
  <2>3. /\ Len(b) = IF offset[l.target] < Len(wal) THEN Len(wal) - offset[l.target] ELSE 0
        /\ \A i \in 1 .. Len(b) : b[i] = wal[offset[l.target] + i]
      BY <1>1, <2>1, <2>2, UnsentLines
  <2>4. CASE b = << >>
    <3>1. Becomes("loop", NextAttempt(l))
        BY <1>6, <2>2, <2>4 DEF ReadLog
    <3> QED BY <1>1, <1>4, <1>5, <2>1, <3>1, NextAttemptIdles
  <2>5. CASE b # << >>
    <3>1. PICK m : m = [l EXCEPT !.pc = "sum", !.batch = b, !.count = 0]
        OBVIOUS
    <3>2. m.target = l.target /\ m.pc = "sum" /\ m.batch = b /\ m.count = 0
        BY <1>1, <3>1 DEF SyncState
    <3>3. sync'["loop"] = m
        BY <1>3, <1>6, <2>2, <2>5, <3>1 DEF ReadLog
    <3>4. Ahead(m, offset, wal)
      <4>1. offset[l.target] \in Nat /\ Len(b) \in Nat
          BY <1>1, <2>1, <2>3
      <4>2. \A i \in 1 .. Len(b) : offset[l.target] + i <= Len(wal) /\ wal[offset[l.target] + i] = b[i]
          BY <1>1, <2>3, <4>1
      <4> QED BY <3>2, <4>1, <4>2 DEF Ahead
    <3>5. \A r \in Replica : Reached(m, offset, r) = offset[r]
        BY <1>1, <3>2 DEF Reached
    <3> QED BY <1>2, <1>5, <2>1, <3>3, <3>4, <3>5 DEF Stays
  <2> QED BY <2>4, <2>5
<1>7. CASE ComputeChecksum("loop")
  <2>1. PICK m : m = [l EXCEPT !.pc = "send", !.sum = data]
      OBVIOUS
  <2>2. m.target = l.target /\ m.pc = "send" /\ m.batch = l.batch /\ m.count = l.count /\ l.pc = "sum"
      BY <1>1, <1>7, <2>1 DEF ComputeChecksum, SyncState
  <2>3. sync'["loop"] = m /\ UNCHANGED <<wal, offset, replicas>>
      BY <1>3, <1>7, <2>1 DEF ComputeChecksum
  <2>4. Ahead(m, offset, wal) /\ l.count = 0
      BY <1>2, <2>2 DEF Ahead
  <2>5. \A r \in Replica : Reached(m, offset, r) = Reached(l, offset, r)
      BY <1>1, <2>2, <2>4 DEF Reached
  <2> QED BY <1>2, <2>3, <2>4, <2>5 DEF Stays
<1>8. CASE ReplicaApply("loop")
  <2>1. UNCHANGED <<wal, offset>>
      BY <1>8 DEF ReplicaApply
  <2> QED BY <1>8, <2>1, PrefixApply
<1>9. CASE Acknowledge("loop")
  <2>1. l.pc = "answer" /\ l.target \in Replica /\ l.count \in Nat /\ UNCHANGED <<wal, replicas>>
      BY <1>1, <1>9 DEF Acknowledge, SyncState
  <2>2. \A r \in Replica : offset'[r] = Reached(l, offset, r)
      BY <1>1, <1>9, <2>1 DEF Acknowledge, Reached
  <2>3. offset' \in [Replica -> Nat]
      BY DEF TypeOK
  <2>4. PICK m : m = [l EXCEPT !.pc = "compare"]
      OBVIOUS
  <2>5. m.pc = "compare"
      BY <1>1, <2>4 DEF SyncState
  <2>6. Becomes("loop", m) \/ Becomes("loop", MissedAttempt(l))
      BY <1>9, <2>4 DEF Acknowledge
  <2> QED BY <1>1, <1>4, <2>1, <2>2, <2>3, <2>5, <2>6, NextAttemptIdles
<1>10. CASE Loss("loop")
  <2>1. losses' = losses + 1 /\ losses = 0
      BY <1>10 DEF Loss, LoseSync, LoseChecksum, Undisturbed
  <2> QED BY <2>1 DEF Undisturbed
<1>11. CASE Compare("loop")
  <2>1. l.pc = "compare" /\ UNCHANGED <<wal, offset, replicas>>
      BY <1>11 DEF Compare
  <2>2. Becomes("loop", NextReplica(l)) \/ Becomes("loop", NextAttempt(Failed(l)))
      BY <1>11 DEF Compare
  <2> QED BY <1>1, <1>4, <1>5, <2>1, <2>2, NextAttemptIdles
<1>12. CASE Finish("loop")
  <2>1. l.pc = "finish" /\ UNCHANGED <<wal, offset, replicas>> /\ Becomes("loop", Resting)
      BY <1>12 DEF Finish
  <2>2. Resting.pc = "idle"
      BY DEF Resting
  <2> QED BY <1>1, <1>4, <1>5, <2>1, <2>2
<1> QED BY <1>6, <1>7, <1>8, <1>9, <1>10, <1>11, <1>12 DEF SyncStep

LEMMA PrefixInit == Init => PrefixInv
<1> SUFFICES ASSUME Init PROVE PrefixInv
    OBVIOUS
<1>1. TypeOK /\ MainTurn
    BY FlagInit DEF FlagInv
<1>2. sync["loop"] = Resting /\ Resting.pc = "idle" /\ Len(wal) = 1 /\ \A r \in Replica : offset[r] = 0
    BY DEF Init, Syncer, Resting
<1>3. Ahead(Resting, offset, wal) /\ \A r \in Replica : Reached(Resting, offset, r) = 0
    BY <1>2, NotSending
<1>4. ASSUME NEW r \in Replica PROVE Held(0, wal, hosted[r], copy[r])
  <2>1. ~hosted[r] /\ \A id \in Id : copy[r][id] = Absent
      BY DEF Init, EmptyMap
  <2> QED BY <1>2, <2>1, YieldsNothing DEF Held
<1> QED BY <1>1, <1>2, <1>3, <1>4 DEF PrefixInv

LEMMA PrefixStep == PrefixInv /\ [Next]_vars => PrefixInv'
<1> SUFFICES ASSUME PrefixInv, [Next]_vars PROVE PrefixInv'
    OBVIOUS
<1> USE DEF primary, replicas, deliveries
<1>1. TypeOK /\ TypeOK' /\ MainTurn
    BY TypeStep DEF PrefixInv
<1>2. CASE UNCHANGED vars
    BY <1>2 DEF vars, PrefixInv, TypeOK, MainTurn, Idle, Undisturbed
<1>3. CASE Next
  <2>1. ASSUME NEW c \in Client, ClientStep(c) \/ \E e \in WriteEntry : LogWrite(c, e)
        PROVE  PrefixInv'
    <3>1. UNCHANGED <<phase, offset, sync, losses, hosted, copy>>
        BY <2>1 DEF ClientStep, ApplyWrite, FlagWrite, LogWrite
    <3>2. Undisturbed' => Undisturbed
        BY <3>1 DEF Undisturbed
    <3>3. ClientStep(c) => wal' = wal
        BY DEF ClientStep, ApplyWrite, FlagWrite
    <3>4. MainTurn'
        BY <1>1, <3>1 DEF MainTurn, Idle
    <3> QED BY <1>1, <2>1, <3>1, <3>2, <3>3, <3>4, PrefixLog DEF PrefixInv
  <2>2. ASSUME NEW s \in Syncer, SyncStep(s) \/ Loss(s) PROVE PrefixInv'
    <3>1. MainTurn'
        BY <1>1, <2>2, TurnSync
    <3>2. Undisturbed' => Undisturbed /\ s = "loop"
        BY <1>1, <2>2, OnlyLoop
    <3> QED BY <1>1, <2>2, <3>1, <3>2, PrefixSync DEF PrefixInv
  <2>3. CASE BeginLoop
    <3>1. PICK m : m = [Resting EXCEPT !.pc = "read"]
        OBVIOUS
    <3>2. m.pc = "read"
        BY <3>1 DEF Resting
    <3>3. sync'["loop"] = m /\ sync'["main"] = sync["main"] /\ sync["loop"].pc = "idle"
        BY <1>1, <2>3, <3>1 DEF BeginLoop, Begin, Becomes, Idle, TypeOK, Syncer
    <3>4. UNCHANGED <<phase, wal, offset, losses, hosted, copy>>
        BY <2>3 DEF BeginLoop
    <3>5. MainTurn' /\ (Undisturbed' <=> Undisturbed)
        BY <1>1, <3>3, <3>4 DEF MainTurn, Idle, Undisturbed
    <3>6. offset \in [Replica -> Nat]
        BY <1>1 DEF TypeOK
    <3>7. /\ Ahead(m, offset, wal)
          /\ \A r \in Replica : Reached(m, offset, r) = Reached(sync["loop"], offset, r)
        BY <3>2, <3>3, <3>6, NotSending
    <3> QED BY <1>1, <3>3, <3>4, <3>5, <3>7 DEF PrefixInv
  <2>4. CASE BeginShutdown \/ BeginMain \/ ClearWAL
    <3>1. phase' # "up"
        BY <2>4 DEF BeginShutdown, BeginMain, ClearWAL
    <3>2. MainTurn'
        BY <1>1, <2>4 DEF BeginShutdown, BeginMain, ClearWAL, MainTurn, Idle
    <3> QED BY <1>1, <3>1, <3>2 DEF PrefixInv, Undisturbed
  <2> QED BY <1>3, <2>1, <2>2, <2>3, <2>4 DEF Next
<1> QED BY <1>2, <1>3

\* Until a call fails or the primary shuts down, a replica holds what the lines
\* it has applied make of an empty store, whatever clients write meanwhile.
THEOREM PrefixHeld == Spec => []ReplicaHoldsPrefix
<1>1. PrefixInv => ReplicaHoldsPrefix
    BY DEF PrefixInv, Reached, Held, ReplicaHoldsPrefix, Applied
<1> QED BY <1>1, PrefixInit, PrefixStep, PTL DEF Spec

-----------------------------------------------------------------------------
(* An undisturbed table implements StateFollower.                          *)

\* The primary's states are one for each line.
LEMMA StatesAre ==
    ASSUME TypeOK, Undisturbed
    PROVE  /\ primaryStates \in Seq({StateAfter(n) : n \in 1 .. Len(wal)})
           /\ Len(primaryStates) = Len(wal)
           /\ \A n \in 1 .. Len(wal) : primaryStates[n] = StateAfter(n)
<1>1. Len(wal) \in Nat
    BY DEF TypeOK
<1>2. primaryStates = [n \in 1 .. Len(wal) |-> StateAfter(n)]
    BY DEF primaryStates
<1> QED BY <1>1, <1>2

LEMMA StatesBecome ==
    ASSUME TypeOK', Undisturbed'
    PROVE  /\ primaryStates' \in Seq({StateAfter(n)' : n \in 1 .. Len(wal')})
           /\ Len(primaryStates') = Len(wal')
           /\ \A n \in 1 .. Len(wal') : primaryStates'[n] = StateAfter(n)'
<1>1. Len(wal') \in Nat
    BY DEF TypeOK
<1>2. primaryStates' = [n \in 1 .. Len(wal') |-> StateAfter(n)']
    BY DEF primaryStates
<1> QED BY <1>1, <1>2

\* What a replica holds is the state of the primary it has got to.
LEMMA HeldState ==
    ASSUME NEW n \in Nat, NEW f \in [Id -> Value], NEW h, Held(n, wal, h, f)
    PROVE  StateAfter(n) = f
<1>1. ASSUME NEW id \in Id PROVE (CHOOSE v \in Value : Yields(Absent, wal, n, id, v)) = f[id]
  <2>1. f[id] \in Value /\ Yields(Absent, wal, n, id, f[id])
      BY DEF Held
  <2>2. \A v \in Value : Yields(Absent, wal, n, id, v) => v = f[id]
      BY <2>1, YieldsUnique
  <2> QED BY <2>1, <2>2
<1> QED BY <1>1 DEF StateAfter

\* A line more in the log leaves the states before it what they were.
LEMMA StatesStay ==
    ASSUME TypeOK, NEW e \in LogEntry, wal' = Append(wal, e), NEW n \in 1 .. Len(wal)
    PROVE  StateAfter(n)' = StateAfter(n)
<1>1. n \in Nat /\ \A i \in 1 .. n : wal[i] = wal'[i]
    BY DEF TypeOK
<1>2. ASSUME NEW id \in Id, NEW v PROVE Yields(Absent, wal', n, id, v) <=> Yields(Absent, wal, n, id, v)
  <2>1. \A i \in 1 .. n : wal'[i] = wal[i]
      BY <1>1
  <2> QED BY <1>1, <2>1, YieldsSamePrefix
<1>3. \A id \in Id : (CHOOSE v \in Value : Yields(Absent, wal', n, id, v))
                         = (CHOOSE v \in Value : Yields(Absent, wal, n, id, v))
    BY <1>2
<1> QED BY <1>3 DEF StateAfter

LEMMA FollowsInit == Init => Followed!Init
<1> SUFFICES ASSUME Init PROVE Followed!Init
    OBVIOUS
<1>1. TypeOK /\ Undisturbed /\ wal = <<CreateEntry>> /\ sync["loop"].pc = "idle"
    BY TypeInit DEF Init, Undisturbed, Syncer, Resting
<1>2. StateAfter(1) = EmptyMap
  <2>1. \A id \in Id : Yields(Absent, wal, 1, id, Absent)
    <3>1. \A id \in Id : \A i \in 1 .. 1 : ~Kills(wal[i], id) /\ ~Adds(wal[i], id)
        BY <1>1 DEF Kills, Adds, CreateEntry
    <3> QED BY <3>1, YieldsOthers
  <2>2. EmptyMap \in [Id -> Value] /\ \A id \in Id : EmptyMap[id] = Absent
      BY DEF EmptyMap, Value
  <2>3. Held(1, wal, TRUE, EmptyMap)
      BY <1>1, <2>1, <2>2 DEF Held
  <2> QED BY <2>2, <2>3, HeldState
<1>3. primaryStates = <<EmptyMap>>
    BY <1>1, <1>2, StatesAre
<1>4. positions = [r \in Replica |-> 0] /\ copies = [r \in Replica |-> EmptyMap]
    BY <1>1 DEF Init, positions, copies, Applied
<1> QED BY <1>3, <1>4 DEF Followed!Init

\* A disturbance ends the promise, and nothing brings it back.
LEMMA Abandons ==
    ASSUME ~Undisturbed' PROVE Followed!Abandon
BY DEF Followed!Abandon, primaryStates, positions, copies

LEMMA Disturbed ==
    ASSUME ~Undisturbed, ~Undisturbed'
    PROVE  UNCHANGED <<primaryStates, positions, copies>>
BY DEF primaryStates, positions, copies

\* A step that moves no replica.
LEMMA FollowersStay ==
    ASSUME Undisturbed, Undisturbed', Stays(sync["loop"], offset, sync'["loop"], offset')
    PROVE  UNCHANGED <<positions, copies>>
<1>1. \A r \in Replica : Applied(r)' = Applied(r)
    BY DEF Applied, Stays, Reached
<1> QED BY <1>1 DEF positions, copies, Stays

LEMMA FollowersWrite ==
    ASSUME PrefixInv, PrefixInv', Undisturbed, NEW c \in Client, NEW e \in WriteEntry, LogWrite(c, e)
    PROVE  Followed!Write
<1>0. Undisturbed' /\ UNCHANGED <<sync, offset, copy>> /\ wal' = Append(wal, e) /\ e \in LogEntry
    BY DEF LogWrite, Undisturbed, replicas, LogEntry
<1>1. /\ TypeOK /\ TypeOK' /\ wal \in Seq(LogEntry)
    BY DEF PrefixInv, TypeOK
<1>2. PICK k \in Nat : k = Len(wal) /\ Len(wal') = k + 1
    BY <1>0, <1>1
<1>3. Ahead(sync["loop"], offset, wal) /\ \A r \in Replica : Reached(sync["loop"], offset, r) <= k
    BY <1>2 DEF PrefixInv, Held
<1>4. UNCHANGED <<positions, copies>>
    BY <1>0, FollowersStay DEF Stays
<1>5. /\ Len(primaryStates) = k
      /\ \A n \in 1 .. k : primaryStates[n] = StateAfter(n)
      /\ primaryStates \in Seq({StateAfter(n) : n \in 1 .. k})
    BY <1>1, <1>2, StatesAre
<1>6. /\ Len(primaryStates') = k + 1
      /\ \A n \in 1 .. k : primaryStates'[n] = StateAfter(n)
      /\ primaryStates' \in Seq({StateAfter(n)' : n \in 1 .. k + 1})
  <2>1. \A n \in 1 .. k : StateAfter(n)' = StateAfter(n)
      BY <1>0, <1>1, <1>2, StatesStay
  <2> QED BY <1>0, <1>1, <1>2, <2>1, StatesBecome
<1>7. primaryStates # << >>
    BY <1>2, <1>5 DEF PrefixInv
<1>8. SubSeq(primaryStates', 1, k) = primaryStates
  <2>1. PICK h : h = primaryStates'
      OBVIOUS
  <2>2. \A i \in 1 .. k : h[i] = primaryStates[i]
      BY <1>5, <1>6, <2>1
  <2>3. /\ SubSeq(h, 1, k) \in Seq({StateAfter(n)' : n \in 1 .. k + 1})
        /\ Len(SubSeq(h, 1, k)) = k
        /\ \A i \in 1 .. k : SubSeq(h, 1, k)[i] = h[i]
      BY <1>2, <1>6, <2>1, SubSeqProperties
  <2> QED BY <1>5, <2>1, <2>2, <2>3
<1> QED BY <1>4, <1>5, <1>6, <1>7, <1>8 DEF Followed!Write

LEMMA FollowersAdvance ==
    ASSUME PrefixInv, PrefixInv', Undisturbed, Undisturbed', wal' = wal,
           Advances(sync["loop"], sync'["loop"]), offset' = offset
    PROVE  \E r \in Replica : Followed!Follow(r)
<1>1. PICK t \in Replica :
          /\ Reached(sync'["loop"], offset, t) = Reached(sync["loop"], offset, t) + 1
          /\ \A r \in Replica \ {t} : /\ Reached(sync'["loop"], offset, r) = Reached(sync["loop"], offset, r)
                                      /\ copy'[r] = copy[r]
    BY DEF Advances
<1>2. /\ TypeOK /\ copy \in [Replica -> [Id -> Value]] /\ copy' \in [Replica -> [Id -> Value]]
      /\ offset \in [Replica -> Nat] /\ sync["loop"] \in SyncState /\ Len(wal) \in Nat
    BY DEF PrefixInv, TypeOK, Syncer
<1>3. \A r \in Replica : /\ Applied(r) = Reached(sync["loop"], offset, r)
                         /\ Applied(r)' = Reached(sync'["loop"], offset, r)
    BY DEF Applied, Reached
<1>4. Applied(t) \in Nat
    BY <1>2 DEF Applied, SyncState
<1>5. PICK n \in Nat : n = Applied(t) /\ n + 1 = Applied(t)' /\ n + 1 \in Nat
    BY <1>1, <1>3, <1>4
<1>6. Held(n + 1, wal, hosted'[t], copy'[t])
    BY <1>3, <1>5 DEF PrefixInv
<1>7. n + 1 <= Len(wal) /\ StateAfter(n + 1) = copy'[t]
    BY <1>2, <1>5, <1>6, HeldState DEF Held
<1>8. /\ Len(primaryStates) = Len(wal) /\ primaryStates[n + 1] = copy'[t]
    BY <1>2, <1>5, <1>7, StatesAre
<1>9. primaryStates' = primaryStates
  <2>1. \A k \in Nat : StateAfter(k)' = StateAfter(k)
      BY DEF StateAfter
  <2> QED BY <1>2, <2>1 DEF primaryStates
<1>10. positions[t] = n /\ positions' = [positions EXCEPT ![t] = n + 1]
  <2>1. \A r \in Replica : r # t => Applied(r)' = Applied(r)
      BY <1>1, <1>3
  <2> QED BY <1>5, <2>1 DEF positions
<1>11. copies' = [copies EXCEPT ![t] = copy'[t]]
    BY <1>1 DEF copies
<1>12. positions[t] < Len(primaryStates)
    BY <1>2, <1>5, <1>7, <1>8, <1>10
<1>13. Followed!Follow(t)
    BY <1>5, <1>8, <1>9, <1>10, <1>11, <1>12 DEF Followed!Follow
<1> QED BY <1>13

\* Refinement: until a call fails or the primary shuts down, every replica goes
\* through the states of the primary, one by one and in their order.
THEOREM Follows == Spec => ImplementsStateFollower
<1>1. PrefixInv /\ PrefixInv' /\ [Next]_vars => [Followed!Next]_<<primaryStates, positions, copies>>
  <2> SUFFICES ASSUME PrefixInv, PrefixInv', [Next]_vars
               PROVE  [Followed!Next]_<<primaryStates, positions, copies>>
      OBVIOUS
  <2>1. CASE ~Undisturbed'
      BY <2>1, Abandons DEF Followed!Next
  <2>2. CASE Undisturbed'
    <3>0. TypeOK /\ TypeOK' /\ MainTurn
        BY DEF PrefixInv
    <3> DEFINE still == UNCHANGED <<primaryStates, positions, copies>>
    <3>1. ASSUME Undisturbed, wal' = wal, Stays(sync["loop"], offset, sync'["loop"], offset') PROVE still
      <4>1. \A k \in Nat : StateAfter(k)' = StateAfter(k)
          BY <3>1 DEF StateAfter
      <4>2. Len(wal) \in Nat
          BY <3>0 DEF TypeOK
      <4>3. primaryStates' = primaryStates
          BY <2>2, <3>1, <4>1, <4>2 DEF primaryStates
      <4> QED BY <2>2, <3>1, <4>3, FollowersStay
    <3>2. CASE UNCHANGED vars
      <4>1. UNCHANGED <<phase, losses, wal, offset, sync, copy>>
          BY <3>2 DEF vars, primary, replicas, deliveries
      <4>2. Undisturbed /\ Stays(sync["loop"], offset, sync'["loop"], offset')
          BY <2>2, <4>1 DEF Undisturbed, Stays
      <4> QED BY <3>1, <4>1, <4>2
    <3>3. ASSUME NEW c \in Client, NEW e \in WriteEntry, LogWrite(c, e) PROVE Followed!Next
      <4>1. Undisturbed
          BY <2>2, <3>3 DEF LogWrite, Undisturbed
      <4> QED BY <3>3, <4>1, FollowersWrite DEF Followed!Next
    <3>4. ASSUME NEW c \in Client, ClientStep(c) PROVE still
      <4>1. UNCHANGED <<phase, losses, wal, offset, sync, copy>>
          BY <3>4 DEF ClientStep, ApplyWrite, FlagWrite, replicas
      <4>2. Undisturbed /\ Stays(sync["loop"], offset, sync'["loop"], offset')
          BY <2>2, <4>1 DEF Undisturbed, Stays
      <4> QED BY <3>1, <4>1, <4>2
    <3>5. CASE BeginLoop
      <4>1. UNCHANGED <<phase, losses, wal, offset, copy>> /\ Undisturbed
          BY <2>2, <3>5 DEF BeginLoop, Undisturbed, primary, replicas
      <4>2. sync["loop"].pc = "idle" /\ sync'["loop"] = [Resting EXCEPT !.pc = "read"]
          BY <3>0, <3>5 DEF BeginLoop, Begin, Idle, Becomes, TypeOK, Syncer
      <4>3. sync'["loop"].pc = "read"
          BY <4>2 DEF Resting
      <4>4. Stays(sync["loop"], offset, sync'["loop"], offset')
          BY <4>1, <4>2, <4>3 DEF Stays, Reached
      <4> QED BY <3>1, <4>1, <4>4
    <3>6. ASSUME NEW s \in Syncer, SyncStep(s) \/ Loss(s) PROVE Followed!Next \/ still
      <4>1. Undisturbed /\ s = "loop"
          BY <2>2, <3>0, <3>6, OnlyLoop
      <4>2. /\ wal' = wal
            /\ \/ Stays(sync["loop"], offset, sync'["loop"], offset')
               \/ Advances(sync["loop"], sync'["loop"]) /\ offset' = offset
          BY <2>2, <3>0, <3>6, <4>1, PrefixSync
      <4> QED BY <2>2, <3>1, <4>1, <4>2, FollowersAdvance DEF Followed!Next
    <3>7. ~(BeginShutdown \/ BeginMain \/ ClearWAL)
        BY <2>2 DEF BeginShutdown, BeginMain, ClearWAL, Undisturbed
    <3> QED BY <3>2, <3>3, <3>4, <3>5, <3>6, <3>7 DEF Next
  <2> QED BY <2>1, <2>2
<1> QED BY <1>1, FollowsInit, PrefixInit, PrefixStep, PTL
        DEF Spec, ImplementsStateFollower, Followed!Spec
=============================================================================
