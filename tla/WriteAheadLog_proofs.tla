------------------------ MODULE WriteAheadLog_proofs ------------------------
(***************************************************************************)
(* Lemmas about replaying log lines, for logs of any length.               *)
(***************************************************************************)
EXTENDS WriteAheadLog, TLAPS

\* Replaying no line leaves the base.
LEMMA YieldsNothing ==
    ASSUME NEW base, NEW entries, NEW id
    PROVE  Yields(base, entries, 0, id, base)
BY DEF Yields, FirstAdd

\* Lines that neither add nor remove an id leave it alone.
LEMMA YieldsOthers ==
    ASSUME NEW base, NEW entries, NEW n \in Nat, NEW id,
           \A i \in 1 .. n : ~Kills(entries[i], id) /\ ~Adds(entries[i], id)
    PROVE  Yields(base, entries, n, id, base)
BY DEF Yields, FirstAdd

\* Only the lines that are replayed matter.
LEMMA YieldsSamePrefix ==
    ASSUME NEW base, NEW e, NEW f, NEW n \in Nat, NEW id, NEW v,
           \A i \in 1 .. n : e[i] = f[i],
           Yields(base, e, n, id, v)
    PROVE  Yields(base, f, n, id, v)
BY DEF Yields, FirstAdd, Adds, Kills

\* One more line has the effect VectorStore gives it.
LEMMA YieldsStep ==
    ASSUME NEW entries, NEW n \in Nat, NEW id, NEW v \in Value, NEW base \in Value,
           \A i \in 1 .. n+1 : Adds(entries[i], id) => entries[i].payload \in Payload,
           Yields(base, entries, n, id, v)
    PROVE  Yields(base, entries, n+1, id, Effect(v, entries[n+1], id))
<1> DEFINE e == entries[n+1]
<1>0. ~(Kills(e, id) /\ Adds(e, id))
    BY DEF Kills, Adds
<1>1. CASE Kills(e, id)
    BY <1>1 DEF Yields, FirstAdd, Effect
<1>2. CASE ~Kills(e, id) /\ ~Adds(e, id)
  <2>1. \A lo \in 1 .. n+1 : FirstAdd(entries, lo, n, id, v) => FirstAdd(entries, lo, n+1, id, v)
      BY <1>2 DEF FirstAdd
  <2> QED BY <2>1, <1>2 DEF Yields, Effect
<1>3. CASE Adds(e, id)
  <2>0. Absent \notin Payload
      BY LogAssumption
  <2>1. \A lo \in 1 .. n+1 :
           FirstAdd(entries, lo, n, id, v) => FirstAdd(entries, lo, n+1, id, Effect(v, e, id))
    <3> SUFFICES ASSUME NEW lo \in 1 .. n+1, FirstAdd(entries, lo, n, id, v)
                 PROVE  FirstAdd(entries, lo, n+1, id, Effect(v, e, id))
        OBVIOUS
    <3>1. CASE v = Absent
      <4>1. \A i \in lo .. n : ~Adds(entries[i], id)
          BY <3>1, <2>0 DEF FirstAdd
      <4> QED BY <4>1, <3>1, <1>3, <1>0 DEF FirstAdd, Effect
    <3>2. CASE v # Absent
      <4>1. PICK i \in lo .. n : /\ Adds(entries[i], id)
                                 /\ \A j \in lo .. (i-1) : ~Adds(entries[j], id)
                                 /\ v = entries[i].payload
          BY <3>2 DEF FirstAdd
      <4> QED BY <4>1, <3>2, <1>3, <1>0 DEF FirstAdd, Effect
    <3> QED BY <3>1, <3>2
  <2>2. ASSUME base # Absent, v = base PROVE Effect(v, e, id) = base
      BY <2>2, <1>3, <1>0 DEF Effect
  <2> QED BY <2>1, <2>2, <1>3, <1>0 DEF Yields
<1> QED BY <1>1, <1>2, <1>3

\* Replay is a function of the base and the lines.
LEMMA YieldsUnique ==
    ASSUME NEW base, NEW entries, NEW n \in Nat, NEW id, NEW v, NEW w,
           Yields(base, entries, n, id, v), Yields(base, entries, n, id, w)
    PROVE  v = w
<1>1. \A lo \in Nat : FirstAdd(entries, lo, n, id, v) /\ FirstAdd(entries, lo, n, id, w) => v = w
    BY DEF FirstAdd
<1>2. CASE \A i \in 1 .. n : ~Kills(entries[i], id)
    BY <1>1, <1>2 DEF Yields
<1>3. CASE ~ \A i \in 1 .. n : ~Kills(entries[i], id)
  <2>1. PICK r \in 1 .. n : /\ Kills(entries[r], id)
                            /\ \A i \in (r+1) .. n : ~Kills(entries[i], id)
                            /\ FirstAdd(entries, r+1, n, id, v)
      BY <1>3 DEF Yields
  <2>2. PICK s \in 1 .. n : /\ Kills(entries[s], id)
                            /\ \A i \in (s+1) .. n : ~Kills(entries[i], id)
                            /\ FirstAdd(entries, s+1, n, id, w)
      BY <1>3 DEF Yields
  <2>3. r = s
      BY <2>1, <2>2
  <2> QED BY <2>1, <2>2, <2>3, <1>1
<1> QED BY <1>2, <1>3

\* Replaying a log over its own result changes nothing: the lines of a log
\* that was not cleared after the snapshot was saved are harmless.
LEMMA YieldsIdempotent ==
    ASSUME NEW base, NEW entries, NEW n \in Nat, NEW id, NEW v,
           Yields(base, entries, n, id, v)
    PROVE  Yields(v, entries, n, id, v)
<1>1. CASE \A i \in 1 .. n : ~Kills(entries[i], id)
  <2>1. IF base = Absent THEN FirstAdd(entries, 1, n, id, v) ELSE v = base
      BY <1>1 DEF Yields
  <2>2. CASE v = Absent
      BY <1>1, <2>1, <2>2 DEF Yields
  <2>3. CASE v # Absent
      BY <1>1, <2>3 DEF Yields
  <2> QED BY <2>2, <2>3
<1>2. CASE ~ \A i \in 1 .. n : ~Kills(entries[i], id)
    BY <1>2 DEF Yields
<1> QED BY <1>1, <1>2

\* One more line in the log has its effect on what the files bring back.
LEMMA YieldsAppend ==
    ASSUME NEW lines \in Seq(LogEntry), NEW e \in LogEntry, NEW id,
           NEW base \in Value, NEW v \in Value,
           Yields(base, lines, Len(lines), id, v)
    PROVE  Yields(base, Append(lines, e), Len(Append(lines, e)), id, Effect(v, e, id))
<1> DEFINE n == Len(lines)
           more == Append(lines, e)
<1>1. n \in Nat /\ Len(more) = n + 1 /\ more[n+1] = e /\ \A i \in 1 .. n : lines[i] = more[i]
    OBVIOUS
<1>2. Yields(base, more, n, id, v)
    BY <1>1, YieldsSamePrefix
<1>3. \A i \in 1 .. n+1 : more[i] \in LogEntry
    BY <1>1
<1>4. \A i \in 1 .. n+1 : Adds(more[i], id) => more[i].payload \in Payload
    BY <1>3 DEF Adds, LogEntry, WriteEntry, InsertEntry, RemoveEntry, CreateEntry
<1> HIDE DEF n, more
<1>5. Yields(base, more, n+1, id, Effect(v, more[n+1], id))
    BY <1>1, <1>2, <1>4, YieldsStep
<1> QED BY <1>1, <1>5 DEF n, more

\* The effect of a line is a value.
LEMMA EffectType ==
    ASSUME NEW e \in LogEntry, NEW v \in Value, NEW id
    PROVE  Effect(v, e, id) \in Value
BY DEF Effect, Value, Adds, Kills, LogEntry, WriteEntry, InsertEntry, RemoveEntry, CreateEntry

\* A create line has no effect.
LEMMA EffectCreate == ASSUME NEW v, NEW id PROVE Effect(v, CreateEntry, id) = v
BY DEF Effect, Adds, Kills, CreateEntry

\* A line about another id has no effect.
LEMMA EffectOther ==
    ASSUME NEW v, NEW e, NEW id, e.id # id
    PROVE  Effect(v, e, id) = v
BY DEF Effect, Adds, Kills
=============================================================================
