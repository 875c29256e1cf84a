------------------------- MODULE BatchSearch_proofs -------------------------
(***************************************************************************)
(* What the result cache promises, where the tasks of the thread pool are, *)
(* and the types of BatchSearch, for any number of searchers, writers and  *)
(* workers, any batches and any capacity.                                  *)
(***************************************************************************)
EXTENDS BatchSearch, FiniteSetTheorems, TLAPS

-----------------------------------------------------------------------------
(* Freshness.                                                              *)

WriteUnderWay == \E w \in Writer : made[w] # 0

\* What a searcher has got so far is outdated for the reasons for which a
\* cached result may be, or because InvalidateAll came in between.
GotExplained ==
    role = "primary" =>
        \A s \in Searcher : Outdated(got[s]) => WriteUnderWay \/ cut[s] \/ skipped

FreshInv == /\ version \in Nat
            /\ DOMAIN made = Writer /\ DOMAIN got = Searcher /\ DOMAIN cut = Searcher
            /\ GotExplained
            /\ StaleOnlyIfRaced

\* A result that a task brings is as new as the store.
LEMMA RunTaskFresh ==
    ASSUME FreshInv, NEW w \in Worker, RunTask(w)
    PROVE  FreshInv'
<1> DEFINE s == doing[w][1]
           i == doing[w][2]
           r == [request |-> asked[s][i], version |-> version]
<1>1. /\ got' = [got EXCEPT ![s][i] = r]
      /\ UNCHANGED <<role, asked, cache, version, made, cut, late, skipped>>
  BY DEF RunTask, calls, lru, writes, races
<1>2. r.version = version
  OBVIOUS
<1> HIDE DEF r, s, i
<1>3. ASSUME NEW x \in Searcher, Outdated(got[x])'
      PROVE  Outdated(got[x])
  <2>1. PICK j \in DOMAIN got'[x] : got'[x][j] # Nothing /\ got'[x][j].version < version
    BY <1>1, <1>3 DEF Outdated
  <2>2. DOMAIN got'[x] = DOMAIN got[x]
    BY <1>1 DEF FreshInv
  <2>3. got'[x][j] = got[x][j] \/ got'[x][j] = r
    BY <1>1, <2>2 DEF FreshInv
  <2> QED BY <1>2, <2>1, <2>2, <2>3 DEF Outdated, FreshInv
<1> QED
  BY <1>1, <1>3 DEF FreshInv, GotExplained, WriteUnderWay, StaleOnlyIfRaced, Outdated

\* What is cached late is noted.
LEMMA StoreResultsFresh ==
    ASSUME FreshInv, NEW s \in Searcher, StoreResults(s)
    PROVE  FreshInv'
<1> DEFINE k == BatchKey(asked[s])
           others == DOMAIN cache' \ {k}
<1>1. /\ UNCHANGED <<role, version, made, skipped>>
      /\ got' = [got EXCEPT ![s] = << >>]
      /\ cut' = [cut EXCEPT ![s] = FALSE]
      /\ late' = (IF cut[s] THEN late \cup {k} ELSE late \ {k}) \cap DOMAIN cache'
      /\ Store(k, got[s])
  BY DEF StoreResults, writes
<1>2. k \in DOMAIN cache' /\ cache'[k] = got[s]
  BY <1>1 DEF Store
<1>3. others \subseteq DOMAIN cache /\ \A x \in others : cache'[x] = cache[x]
  BY <1>1 DEF Store
<1> HIDE DEF k
<1>4. GotExplained'
  BY <1>1 DEF FreshInv, GotExplained, WriteUnderWay, Outdated
<1>5. StaleOnlyIfRaced'
  <2> SUFFICES ASSUME role = "primary", NEW x \in DOMAIN cache', Outdated(cache[x])'
               PROVE  WriteUnderWay \/ x \in late' \/ skipped
    BY <1>1 DEF StaleOnlyIfRaced, WriteUnderWay
  <2>1. CASE x = k
    <3>1. Outdated(got[s])
      BY <1>1, <1>2, <2>1 DEF Outdated
    <3> QED BY <1>1, <1>2, <2>1, <3>1 DEF FreshInv, GotExplained
  <2>2. CASE x # k
    <3>1. x \in DOMAIN cache /\ Outdated(cache[x])
      BY <1>1, <1>3, <2>2 DEF Outdated
    <3> QED BY <1>1, <2>2, <3>1 DEF FreshInv, StaleOnlyIfRaced, WriteUnderWay
  <2> QED BY <2>1, <2>2
<1> QED BY <1>1, <1>4, <1>5 DEF FreshInv

\* InvalidateAll empties the cache, and notes what it comes too early for.
LEMMA InvalidateFresh ==
    ASSUME FreshInv, NEW w \in Writer, Invalidate(w)
    PROVE  FreshInv'
<1>1. /\ UNCHANGED <<role, got, version>> /\ DOMAIN cache' = {}
      /\ made' = [made EXCEPT ![w] = 0]
      /\ cut' = [s \in Searcher |-> cut[s] \/ Outdated(got[s])]
  BY DEF Invalidate, InvalidateAll, Answered, calls
<1>2. \A s \in Searcher : Outdated(got[s])' => cut'[s]
  BY <1>1 DEF Outdated
<1> QED BY <1>1, <1>2 DEF FreshInv, GotExplained, StaleOnlyIfRaced

\* A write that finds the flag down leaves without invalidating.
LEMMA ReadFlagFresh ==
    ASSUME FreshInv, NEW w \in Writer, ReadModifiedFlag(w)
    PROVE  FreshInv'
<1>1. /\ UNCHANGED <<role, got, cache, version, cut, late>>
      /\ \/ UNCHANGED <<made, skipped>>
         \/ /\ made' = [made EXCEPT ![w] = 0]
            /\ skipped' = (skipped \/ made[w] # 0)
  BY DEF ReadModifiedFlag, Answered, calls, lru
<1>2. WriteUnderWay => WriteUnderWay' \/ skipped'
  BY <1>1 DEF WriteUnderWay, FreshInv
<1>3. skipped => skipped'
  BY <1>1
<1> QED
  BY <1>1, <1>2, <1>3 DEF FreshInv, GotExplained, WriteUnderWay, StaleOnlyIfRaced, Outdated

\* Every step keeps the invariant.
LEMMA FreshStep ==
    ASSUME FreshInv, [Next]_vars
    PROVE  FreshInv'
<1> USE DEF FreshInv, GotExplained, WriteUnderWay, StaleOnlyIfRaced, Outdated
<1>1. ASSUME NEW s \in Searcher, NEW b \in Batch, Hit(s, b) PROVE FreshInv'
  BY <1>1 DEF Hit, Touch, calls, writes, races
<1>2. ASSUME NEW s \in Searcher, NEW b \in Batch, Miss(s, b) PROVE FreshInv'
  BY <1>2 DEF Miss, lru, writes
<1>3. ASSUME NEW s \in Searcher, EnqueueTask(s) PROVE FreshInv'
  BY <1>3 DEF EnqueueTask, lru, writes, races
<1>4. ASSUME NEW s \in Searcher, StoreResults(s) PROVE FreshInv'
  BY <1>4, StoreResultsFresh
<1>5. ASSUME NEW w \in Worker, Sleep(w) \/ Take(w) PROVE FreshInv'
  BY <1>5 DEF Sleep, Take, calls, lru, writes, races
<1>6. ASSUME NEW w \in Worker, RunTask(w) PROVE FreshInv'
  BY <1>6, RunTaskFresh
<1>7. ASSUME NEW w \in Writer, ApplyWrite(w) PROVE FreshInv'
  BY <1>7 DEF ApplyWrite, calls, lru, races
<1>8. ASSUME NEW w \in Writer, SetModifiedFlag(w) PROVE FreshInv'
  BY <1>8 DEF SetModifiedFlag, calls, lru, races
<1>9. ASSUME NEW w \in Writer, ReadModifiedFlag(w) PROVE FreshInv'
  BY <1>9, ReadFlagFresh
<1>10. ASSUME NEW w \in Writer, Invalidate(w) PROVE FreshInv'
  BY <1>10, InvalidateFresh
<1>11. CASE SyncClearsFlag
  BY <1>11 DEF SyncClearsFlag, calls, lru, races
<1>12. CASE ApplyWALEntry
  BY <1>12 DEF ApplyWALEntry, calls, lru, races
<1>13. CASE UNCHANGED vars
  BY <1>13 DEF vars, calls, lru, writes, races
<1>14. \A ask \in Asks : ask[1] \in Searcher /\ ask[2] \in Batch
  BY ConstantsAssumption DEF ConstantsAssumption
<1> QED
  BY <1>1, <1>2, <1>3, <1>4, <1>5, <1>6, <1>7, <1>8, <1>9, <1>10, <1>11, <1>12, <1>13, <1>14
  DEF Next, SearcherStep, WorkerStep, WriterStep

\* A result cached on a primary is outdated only while the write that
\* outdated it is under way, or after one of the two named races.
THEOREM FreshUnlessRaced == Spec => []StaleOnlyIfRaced
<1>1. Init => FreshInv
  BY DEF Init, FreshInv, GotExplained, StaleOnlyIfRaced, Outdated
<1>2. FreshInv /\ [Next]_vars => FreshInv'
  BY FreshStep
<1>3. FreshInv => StaleOnlyIfRaced
  BY DEF FreshInv
<1> QED
  BY <1>1, <1>2, <1>3, PTL DEF Spec
-----------------------------------------------------------------------------
(* Hits.                                                                   *)

\* The results of a call are for its requests, in their order.
GotAnswers ==
    \A s \in Searcher :
        /\ asked[s] \in Batch \cup {NoBatch}
        /\ DOMAIN got[s] = DOMAIN asked[s]
        /\ \A i \in DOMAIN got[s] : got[s][i] # Nothing => got[s][i].request = asked[s][i]

\* So are those of a cache entry, for the batch that was looked up.
CacheAnswers ==
    \A k \in DOMAIN cache : \E b \in Batch :
        /\ k = BatchKey(b)
        /\ DOMAIN cache[k] = DOMAIN b
        /\ \A i \in DOMAIN b : cache[k][i].request = b[i]

AnswersInv == /\ DOMAIN asked = Searcher /\ DOMAIN got = Searcher
              /\ GotAnswers /\ CacheAnswers

\* A task answers the request at its place in the batch of the call.
LEMMA RunTaskAnswers ==
    ASSUME AnswersInv, NEW w \in Worker, RunTask(w)
    PROVE  AnswersInv'
<1> DEFINE s == doing[w][1]
           i == doing[w][2]
           r == [request |-> asked[s][i], version |-> version]
<1>1. /\ got' = [got EXCEPT ![s][i] = r]
      /\ UNCHANGED <<asked, cache>>
  BY DEF RunTask, lru
<1>2. r.request = asked[s][i]
  OBVIOUS
<1> HIDE DEF r, s, i
<1>3. ASSUME NEW x \in Searcher
      PROVE  /\ DOMAIN got'[x] = DOMAIN asked[x]
             /\ \A j \in DOMAIN got'[x] : got'[x][j] # Nothing => got'[x][j].request = asked[x][j]
  <2>1. DOMAIN got'[x] = DOMAIN got[x]
    BY <1>1 DEF AnswersInv
  <2>2. \A j \in DOMAIN got[x] : got'[x][j] = got[x][j] \/ (x = s /\ j = i /\ got'[x][j] = r)
    BY <1>1 DEF AnswersInv
  <2> QED BY <1>2, <2>1, <2>2 DEF AnswersInv, GotAnswers
<1>4. GotAnswers'
  BY <1>1, <1>3 DEF AnswersInv, GotAnswers, NoBatch
<1>5. CacheAnswers'
  BY <1>1 DEF AnswersInv, CacheAnswers, BatchKey
<1> QED
  BY <1>1, <1>4, <1>5 DEF AnswersInv

\* A call caches all its results, and forgets them.
LEMMA StoreResultsAnswers ==
    ASSUME AnswersInv, NEW s \in Searcher, StoreResults(s)
    PROVE  AnswersInv'
<1> DEFINE k == BatchKey(asked[s])
           others == DOMAIN cache' \ {k}
<1>1. /\ asked[s] # NoBatch
      /\ \A i \in DOMAIN got[s] : got[s][i] # Nothing
      /\ asked' = [asked EXCEPT ![s] = NoBatch]
      /\ got' = [got EXCEPT ![s] = << >>]
      /\ Store(k, got[s])
  BY DEF StoreResults
<1>2. k \in DOMAIN cache' /\ cache'[k] = got[s]
  BY <1>1 DEF Store
<1>3. others \subseteq DOMAIN cache /\ \A x \in others : cache'[x] = cache[x]
  BY <1>1 DEF Store
<1>4. \E b \in Batch : /\ k = BatchKey(b)
                       /\ DOMAIN cache'[k] = DOMAIN b
                       /\ \A i \in DOMAIN b : cache'[k][i].request = b[i]
  BY <1>1, <1>2 DEF AnswersInv, GotAnswers
<1> HIDE DEF k
<1>5. \A x \in others : \E b \in Batch :
         /\ x = BatchKey(b)
         /\ DOMAIN cache'[x] = DOMAIN b
         /\ \A i \in DOMAIN b : cache'[x][i].request = b[i]
  BY <1>3 DEF AnswersInv, CacheAnswers
<1>6. CacheAnswers'
  <2>1. \A x \in DOMAIN cache' : \E b \in Batch :
           /\ x = BatchKey(b)
           /\ DOMAIN cache'[x] = DOMAIN b
           /\ \A i \in DOMAIN b : cache'[x][i].request = b[i]
    BY <1>4, <1>5
  <2> QED BY <2>1 DEF CacheAnswers
<1>7. GotAnswers'
  BY <1>1 DEF AnswersInv, GotAnswers, NoBatch
<1> QED BY <1>1, <1>6, <1>7 DEF AnswersInv

\* Every step keeps the invariant.
LEMMA AnswersStep ==
    ASSUME AnswersInv, [Next]_vars
    PROVE  AnswersInv'
<1>1. ASSUME NEW s \in Searcher, NEW b \in Batch, Miss(s, b) PROVE AnswersInv'
  <2>1. /\ asked' = [asked EXCEPT ![s] = b]
        /\ got' = [got EXCEPT ![s] = [i \in DOMAIN b |-> Nothing]]
        /\ cache' = cache
    BY <1>1 DEF Miss, lru
  <2> QED BY <2>1 DEF AnswersInv, GotAnswers, CacheAnswers, BatchKey
<1>2. ASSUME NEW s \in Searcher, StoreResults(s) PROVE AnswersInv'
  BY <1>2, StoreResultsAnswers
<1>3. ASSUME NEW w \in Worker, RunTask(w) PROVE AnswersInv'
  BY <1>3, RunTaskAnswers
<1>4. ASSUME NEW w \in Writer, Invalidate(w) PROVE AnswersInv'
  <2>1. UNCHANGED calls /\ DOMAIN cache' = {}
    BY <1>4 DEF Invalidate, InvalidateAll
  <2> QED BY <2>1 DEF AnswersInv, GotAnswers, CacheAnswers, calls
<1>5. CASE UNCHANGED <<asked, got, cache>>
  BY <1>5 DEF AnswersInv, GotAnswers, CacheAnswers, BatchKey
<1>6. ASSUME NEW s \in Searcher, NEW b \in Batch, Hit(s, b) PROVE AnswersInv'
  BY <1>5, <1>6 DEF Hit, Touch, calls
<1>7. ASSUME NEW s \in Searcher, EnqueueTask(s) PROVE AnswersInv'
  BY <1>5, <1>7 DEF EnqueueTask, lru
<1>8. ASSUME NEW w \in Worker, Sleep(w) \/ Take(w) PROVE AnswersInv'
  BY <1>5, <1>8 DEF Sleep, Take, calls, lru
<1>9. ASSUME NEW w \in Writer, ApplyWrite(w) \/ SetModifiedFlag(w) \/ ReadModifiedFlag(w)
      PROVE  AnswersInv'
  BY <1>5, <1>9 DEF ApplyWrite, SetModifiedFlag, ReadModifiedFlag, calls, lru
<1>10. CASE SyncClearsFlag \/ ApplyWALEntry \/ UNCHANGED vars
  BY <1>5, <1>10 DEF SyncClearsFlag, ApplyWALEntry, vars, calls, lru
<1>11. \A ask \in Asks : ask[1] \in Searcher /\ ask[2] \in Batch
  BY ConstantsAssumption DEF ConstantsAssumption
<1> QED
  BY <1>1, <1>2, <1>3, <1>4, <1>6, <1>7, <1>8, <1>9, <1>10, <1>11
  DEF Next, SearcherStep, WorkerStep, WriterStep

\* Whatever is cached under a key are the answers to one batch of that key.
THEOREM EntriesAnswer == Spec => []EntryAnswersOneBatch
<1>1. Init => AnswersInv
  BY DEF Init, AnswersInv, GotAnswers, CacheAnswers, NoBatch
<1>2. AnswersInv /\ [Next]_vars => AnswersInv'
  BY AnswersStep
<1>3. AnswersInv => EntryAnswersOneBatch
  <2> SUFFICES ASSUME AnswersInv, NEW k \in DOMAIN cache
               PROVE  \E b \in Batch : BatchKey(b) = k /\ RequestsOf(cache[k]) = b
    BY DEF EntryAnswersOneBatch
  <2>1. PICK b \in Batch : /\ k = BatchKey(b)
                          /\ DOMAIN cache[k] = DOMAIN b
                          /\ \A i \in DOMAIN b : cache[k][i].request = b[i]
    BY DEF AnswersInv, CacheAnswers
  <2>2. b = [i \in 1 .. Len(b) |-> b[i]]
    BY ConstantsAssumption DEF ConstantsAssumption
  <2>3. RequestsOf(cache[k]) = b
    BY <2>1, <2>2 DEF RequestsOf
  <2> QED BY <2>1, <2>3
<1> QED
  BY <1>1, <1>2, <1>3, PTL DEF Spec
-----------------------------------------------------------------------------
(* The order of the cache.                                                 *)

KeysOf(s) == {s[i] : i \in 1 .. Len(s)}
Distinct(s) == \A i, j \in 1 .. Len(s) : s[i] = s[j] => i = j

\* keys_ holds the newest of the used keys, as many as fit, in their order.
Newest(s, t) ==
    /\ Len(s) = IF Len(t) < Capacity THEN Len(t) ELSE Capacity
    /\ \A i \in 1 .. Len(s) : s[i] = t[Len(t) - Len(s) + i]

OrderInv == /\ keys \in Seq(Key) /\ recent \in Seq(Key)
            /\ Distinct(recent)
            /\ Newest(keys, recent)
            /\ DOMAIN cache = KeysOf(keys)

\* A key that is not there is appended.
LEMMA MovedNew ==
    ASSUME NEW K, NEW s \in Seq(K), NEW k \in K, \A i \in 1 .. Len(s) : s[i] # k
    PROVE  MovedLast(s, k) = Append(s, k)
BY DEF MovedLast, Without, Holds

\* A key that is there moves to the end, and the ones behind it move up.
LEMMA MovedOld ==
    ASSUME NEW K, NEW s \in Seq(K), Distinct(s), NEW p \in 1 .. Len(s)
    PROVE  /\ MovedLast(s, s[p]) \in Seq(K)
           /\ Len(MovedLast(s, s[p])) = Len(s)
           /\ \A i \in 1 .. Len(s) :
                 MovedLast(s, s[p])[i] = IF i < p THEN s[i]
                                         ELSE IF i < Len(s) THEN s[i + 1] ELSE s[p]
<1> DEFINE w == [i \in 1 .. Len(s) - 1 |-> IF i < p THEN s[i] ELSE s[i + 1]]
<1>1. (CHOOSE i \in DOMAIN s : s[i] = s[p]) = p
  <2>1. DOMAIN s = 1 .. Len(s)
    OBVIOUS
  <2>2. p \in DOMAIN s /\ \A i \in DOMAIN s : s[i] = s[p] => i = p
    BY <2>1 DEF Distinct
  <2> QED BY <2>2
<1>2. Without(s, s[p]) = w
  <2>1. Holds(s, s[p])
    BY DEF Holds
  <2> QED BY <1>1, <2>1 DEF Without
<1>3. w \in Seq(K) /\ Len(w) = Len(s) - 1
  <2>1. Len(s) - 1 \in Nat
    OBVIOUS
  <2>2. \A i \in 1 .. Len(s) - 1 : w[i] \in K
    OBVIOUS
  <2> QED BY <2>1, <2>2
<1>4. \A i \in 1 .. Len(s) - 1 : w[i] = IF i < p THEN s[i] ELSE s[i + 1]
  OBVIOUS
<1> HIDE DEF w
<1>5. /\ Append(w, s[p]) \in Seq(K) /\ Len(Append(w, s[p])) = Len(s)
      /\ \A i \in 1 .. Len(s) - 1 : Append(w, s[p])[i] = w[i]
      /\ Append(w, s[p])[Len(s)] = s[p]
  BY <1>3
<1> QED
  BY <1>2, <1>4, <1>5 DEF MovedLast

\* Moving a key to the end keeps the keys distinct.
LEMMA MovedDistinct ==
    ASSUME NEW K, NEW s \in Seq(K), Distinct(s), NEW k \in K
    PROVE  MovedLast(s, k) \in Seq(K) /\ Distinct(MovedLast(s, k))
<1>1. CASE \A i \in 1 .. Len(s) : s[i] # k
  <2>1. MovedLast(s, k) = Append(s, k)
    BY <1>1, MovedNew
  <2> QED BY <1>1, <2>1 DEF Distinct
<1>2. CASE \E i \in 1 .. Len(s) : s[i] = k
  <2>1. PICK p \in 1 .. Len(s) : s[p] = k
    BY <1>2
  <2>2. PICK m : m = MovedLast(s, k)
    OBVIOUS
  <2>3. /\ m \in Seq(K) /\ Len(m) = Len(s)
        /\ \A i \in 1 .. Len(s) : m[i] = IF i < p THEN s[i]
                                         ELSE IF i < Len(s) THEN s[i + 1] ELSE s[p]
    BY <2>1, <2>2, MovedOld
  <2>4. Distinct(m)
    BY <2>3 DEF Distinct
  <2> QED BY <2>2, <2>3, <2>4
<1> QED BY <1>1, <1>2

\* A key of the cache moves to the end of both sequences.
LEMMA TouchedNewest ==
    ASSUME NEW K, NEW s \in Seq(K), NEW t \in Seq(K), Distinct(t), Newest(s, t),
           NEW p \in 1 .. Len(s)
    PROVE  /\ Newest(MovedLast(s, s[p]), MovedLast(t, s[p]))
           /\ MovedLast(s, s[p]) \in Seq(K)
           /\ KeysOf(MovedLast(s, s[p])) = KeysOf(s)
<1>1. PICK n \in Nat, m \in Nat : n = Len(t) /\ m = Len(s)
  OBVIOUS
<1>2. m <= n
  BY <1>1, ConstantsAssumption DEF Newest, ConstantsAssumption
<1>3. PICK d \in Nat : d = n - m /\ n = d + m
  BY <1>2
<1>4. \A i \in 1 .. m : d + i \in 1 .. n /\ s[i] = t[d + i]
  <2>1. \A i \in 1 .. m : s[i] = t[n - m + i]
    BY <1>1 DEF Newest
  <2>2. \A i \in 1 .. m : d + i \in 1 .. n /\ n - m + i = d + i
    BY <1>2, <1>3
  <2> QED BY <2>1, <2>2
<1>5. Distinct(s)
  <2> SUFFICES ASSUME NEW i \in 1 .. m, NEW j \in 1 .. m, s[i] = s[j] PROVE i = j
    BY <1>1 DEF Distinct
  <2>1. d + i = d + j
    BY <1>1, <1>4 DEF Distinct
  <2> QED BY <2>1
<1>6. PICK q \in 1 .. n : q = d + p
  BY <1>1, <1>4
<1>7. s[p] = t[q]
  BY <1>1, <1>4, <1>6
<1>8. PICK a : a = MovedLast(s, s[p])
  OBVIOUS
<1>9. PICK b : b = MovedLast(t, t[q])
  OBVIOUS
<1>10. /\ a \in Seq(K) /\ Len(a) = m
       /\ \A i \in 1 .. m : /\ i < p => a[i] = s[i]
                            /\ i >= p /\ i < m => a[i] = s[i + 1]
                            /\ i >= p /\ i = m => a[i] = s[p]
  <2>1. /\ a \in Seq(K) /\ Len(a) = m
        /\ \A i \in 1 .. m : a[i] = IF i < p THEN s[i] ELSE IF i < m THEN s[i + 1] ELSE s[p]
    BY <1>1, <1>5, <1>8, MovedOld
  <2>2. p \in 1 .. m
    BY <1>1
  <2> QED BY <2>1, <2>2
<1>11. /\ Len(b) = n
       /\ \A i \in 1 .. n : /\ i < q => b[i] = t[i]
                            /\ i >= q /\ i < n => b[i] = t[i + 1]
                            /\ i >= q /\ i = n => b[i] = t[q]
  <2>1. /\ Len(b) = n
        /\ \A i \in 1 .. n : b[i] = IF i < q THEN t[i] ELSE IF i < n THEN t[i + 1] ELSE t[q]
    BY <1>1, <1>9, MovedOld
  <2> QED BY <2>1
<1>12. \A i \in 1 .. m : a[i] = b[d + i]
  <2> SUFFICES ASSUME NEW i \in 1 .. m PROVE a[i] = b[d + i]
    OBVIOUS
  <2>1. PICK j \in 1 .. n : j = d + i
    BY <1>4
  <2>2. p \in 1 .. m
    BY <1>1
  <2>3. CASE i < p
    <3>1. j < q
      BY <1>6, <2>1, <2>2, <2>3
    <3>2. a[i] = s[i] /\ b[j] = t[j]
      BY <1>10, <1>11, <2>3, <3>1
    <3> QED BY <1>4, <2>1, <3>2
  <2>4. CASE i >= p /\ i < m
    <3>1. j >= q /\ j < n /\ i + 1 \in 1 .. m /\ d + (i + 1) = j + 1
      BY <1>3, <1>6, <2>1, <2>2, <2>4
    <3>2. a[i] = s[i + 1] /\ b[j] = t[j + 1]
      BY <1>10, <1>11, <2>4, <3>1
    <3>3. s[i + 1] = t[d + (i + 1)]
      BY <1>4, <3>1
    <3> QED BY <2>1, <3>1, <3>2, <3>3
  <2>5. CASE i >= p /\ i = m
    <3>1. j = n /\ j >= q
      BY <1>3, <1>6, <2>1, <2>2, <2>5
    <3>2. a[i] = s[p] /\ b[j] = t[q]
      BY <1>10, <1>11, <2>5, <3>1
    <3> QED BY <1>7, <2>1, <3>2
  <2> QED BY <2>2, <2>3, <2>4, <2>5
<1>13. Newest(a, b)
  <2>1. \A i \in 1 .. m : a[i] = b[n - m + i]
    BY <1>3, <1>12
  <2> QED BY <1>1, <1>10, <1>11, <2>1 DEF Newest
<1>14. KeysOf(a) = KeysOf(s)
  <2>1. p \in 1 .. m
    BY <1>1
  <2>2. \A i \in 1 .. m : \E j \in 1 .. m : a[i] = s[j]
    <3> SUFFICES ASSUME NEW i \in 1 .. m PROVE \E j \in 1 .. m : a[i] = s[j]
      OBVIOUS
    <3>1. CASE i >= p /\ i < m
      <4>1. i + 1 \in 1 .. m
        BY <3>1
      <4> QED BY <1>10, <3>1, <4>1
    <3>2. CASE i < p \/ i = m
      BY <1>10, <2>1, <3>2
    <3> QED BY <2>1, <3>1, <3>2
  <2>3. \A j \in 1 .. m : \E i \in 1 .. m : a[i] = s[j]
    <3> SUFFICES ASSUME NEW j \in 1 .. m PROVE \E i \in 1 .. m : a[i] = s[j]
      OBVIOUS
    <3>1. CASE j < p
      BY <1>10, <3>1
    <3>2. CASE j = p
      <4>1. m \in 1 .. m /\ m >= p
        BY <2>1
      <4> QED BY <1>10, <3>2, <4>1
    <3>3. CASE j > p
      <4>1. PICK i \in 1 .. m : i = j - 1
        BY <2>1, <3>3
      <4>2. i >= p /\ i < m /\ i + 1 = j
        BY <2>1, <3>3, <4>1
      <4> QED BY <1>10, <4>2
    <3> QED BY <2>1, <3>1, <3>2, <3>3
  <2>4. Len(a) = m /\ Len(s) = m
    BY <1>1, <1>10
  <2>5. {a[i] : i \in 1 .. m} = {s[i] : i \in 1 .. m}
    <3>1. \A x \in {a[i] : i \in 1 .. m} : x \in {s[i] : i \in 1 .. m}
      BY <2>2
    <3>2. \A x \in {s[i] : i \in 1 .. m} : x \in {a[i] : i \in 1 .. m}
      BY <2>3
    <3> QED BY <3>1, <3>2
  <2> QED BY <2>4, <2>5 DEF KeysOf
<1> QED BY <1>7, <1>8, <1>9, <1>10, <1>13, <1>14

\* A sequence of distinct keys has as many keys as places.
LEMMA DistinctCount ==
    ASSUME NEW K, NEW s \in Seq(K), Distinct(s)
    PROVE  Cardinality(KeysOf(s)) = Len(s)
<1> DEFINE n == Len(s)
           T == {s[i] : i \in 1 .. n}
<1>1. n \in Nat /\ DOMAIN s = 1 .. n
  OBVIOUS
<1>2. s \in Injection(1 .. n, T) /\ s \in Surjection(1 .. n, T)
  <2>1. s \in [1 .. n -> T]
    BY <1>1
  <2>2. \A i, j \in 1 .. n : s[i] = s[j] => i = j
    BY DEF Distinct
  <2>3. \A x \in T : \E i \in 1 .. n : s[i] = x
    OBVIOUS
  <2> HIDE DEF T, n
  <2> QED BY <2>1, <2>2, <2>3 DEF Injection, Surjection, IsInjective
<1>3. IsFiniteSet(1 .. n) /\ Cardinality(1 .. n) = n
  <2>1. Cardinality(1 .. n) = IF 1 > n THEN 0 ELSE n - 1 + 1
    BY <1>1, FS_Interval
  <2>2. IsFiniteSet(1 .. n)
    BY <1>1, FS_Interval
  <2> HIDE DEF n
  <2> QED BY <1>1, <2>1, <2>2
<1> HIDE DEF T, n
<1>4. Cardinality(T) = Cardinality(1 .. n)
  BY <1>2, <1>3, FS_Surjection
<1> QED BY <1>3, <1>4 DEF T, n, KeysOf

\* The keys in the cache are distinct, at most as many as fit, and all that
\* were used when there are fewer.
LEMMA CacheSize ==
    ASSUME OrderInv
    PROVE  /\ Distinct(keys)
           /\ Cardinality(DOMAIN cache) = Len(keys)
           /\ Len(keys) <= Capacity /\ Len(keys) <= Len(recent)
           /\ Len(keys) # Capacity => Len(keys) = Len(recent)
<1>1. PICK n \in Nat, m \in Nat : n = Len(recent) /\ m = Len(keys)
  BY DEF OrderInv
<1>2. Capacity \in Nat
  BY ConstantsAssumption DEF ConstantsAssumption
<1>3. m <= n /\ m <= Capacity /\ (m # Capacity => m = n)
  BY <1>1, <1>2 DEF OrderInv, Newest
<1>4. PICK d \in Nat : d = n - m
  BY <1>3
<1>5. \A i \in 1 .. m : d + i \in 1 .. n /\ keys[i] = recent[d + i]
  <2>1. \A i \in 1 .. m : keys[i] = recent[n - m + i]
    BY <1>1 DEF OrderInv, Newest
  <2>2. \A i \in 1 .. m : d + i \in 1 .. n /\ n - m + i = d + i
    BY <1>3, <1>4
  <2> QED BY <2>1, <2>2
<1>6. Distinct(keys)
  <2> SUFFICES ASSUME NEW i \in 1 .. m, NEW j \in 1 .. m, keys[i] = keys[j] PROVE i = j
    BY <1>1 DEF Distinct
  <2>1. d + i = d + j
    BY <1>1, <1>5 DEF OrderInv, Distinct
  <2> QED BY <2>1
<1>7. Cardinality(DOMAIN cache) = Len(keys)
  BY <1>6, DistinctCount DEF OrderInv
<1> QED BY <1>1, <1>3, <1>6, <1>7

\* A hit, or the store of a key that is in the cache.
LEMMA KnownOrder ==
    ASSUME OrderInv, NEW k \in DOMAIN cache,
           keys' = MovedLast(keys, k), recent' = MovedLast(recent, k),
           DOMAIN cache' = DOMAIN cache
    PROVE  OrderInv'
<1>1. PICK p \in 1 .. Len(keys) : keys[p] = k
  BY DEF OrderInv, KeysOf
<1>2. k \in Key
  BY <1>1 DEF OrderInv
<1>3. recent' \in Seq(Key) /\ Distinct(recent')
  BY <1>2, MovedDistinct DEF OrderInv
<1>4. /\ Newest(keys', recent') /\ keys' \in Seq(Key)
      /\ KeysOf(keys') = KeysOf(keys)
  <2>1. /\ keys \in Seq(Key) /\ recent \in Seq(Key)
        /\ Distinct(recent) /\ Newest(keys, recent)
    BY DEF OrderInv
  <2>2. /\ Newest(MovedLast(keys, keys[p]), MovedLast(recent, keys[p]))
        /\ MovedLast(keys, keys[p]) \in Seq(Key)
        /\ KeysOf(MovedLast(keys, keys[p])) = KeysOf(keys)
    BY <2>1, TouchedNewest
  <2>3. keys' = MovedLast(keys, keys[p]) /\ recent' = MovedLast(recent, keys[p])
    BY <1>1
  <2> QED BY <2>2, <2>3
<1>5. DOMAIN cache' = KeysOf(keys')
  BY <1>4 DEF OrderInv
<1> QED BY <1>3, <1>4, <1>5 DEF OrderInv

\* Append and Tail, place by place.
LEMMA AppendPlaces ==
    ASSUME NEW K, NEW s \in Seq(K), NEW k \in K
    PROVE  /\ Append(s, k) \in Seq(K) /\ Len(Append(s, k)) = Len(s) + 1
           /\ \A i \in 1 .. Len(s) : Append(s, k)[i] = s[i]
           /\ Append(s, k)[Len(s) + 1] = k
OBVIOUS

LEMMA TailPlaces ==
    ASSUME NEW K, NEW s \in Seq(K), NEW m \in Nat \ {0}, m = Len(s)
    PROVE  /\ Tail(s) \in Seq(K) /\ Len(Tail(s)) = m - 1
           /\ \A i \in 1 .. m - 1 : i + 1 \in 1 .. m /\ Tail(s)[i] = s[i + 1]
<1>1. s # << >>
  OBVIOUS
<1> QED BY <1>1

\* A new key in a cache that has room.
LEMMA RoomOrder ==
    ASSUME OrderInv, NEW k \in Key, k \notin DOMAIN cache,
           Cardinality(DOMAIN cache) # Capacity,
           keys' = MovedLast(keys, k), recent' = MovedLast(recent, k),
           DOMAIN cache' = DOMAIN cache \cup {k}
    PROVE  OrderInv'
<1>1. PICK n \in Nat : n = Len(keys) /\ n = Len(recent) /\ n < Capacity
  <2>1. Len(keys) \in Nat /\ Capacity \in Nat
    BY ConstantsAssumption DEF OrderInv, ConstantsAssumption
  <2> QED BY <2>1, CacheSize
<1>2. \A i \in 1 .. n : keys[i] # k /\ recent[i] = keys[i]
  <2>1. \A i \in 1 .. n : keys[i] # k
    BY <1>1 DEF OrderInv, KeysOf
  <2>2. \A i \in 1 .. n : keys[i] = recent[n - n + i]
    BY <1>1 DEF OrderInv, Newest
  <2> QED BY <2>1, <2>2
<1>3. keys' = Append(keys, k) /\ recent' = Append(recent, k)
  BY <1>1, <1>2, MovedNew DEF OrderInv
<1>4. /\ keys' \in Seq(Key) /\ recent' \in Seq(Key)
      /\ Len(keys') = n + 1 /\ Len(recent') = n + 1
      /\ \A i \in 1 .. n : keys'[i] = keys[i] /\ recent'[i] = keys[i]
      /\ keys'[n + 1] = k /\ recent'[n + 1] = k
  <2>1. /\ keys' \in Seq(Key) /\ Len(keys') = n + 1 /\ keys'[n + 1] = k
        /\ \A i \in 1 .. n : keys'[i] = keys[i]
    <3>1. keys \in Seq(Key) /\ Len(keys) = n
      BY <1>1 DEF OrderInv
    <3>2. PICK a : a = Append(keys, k)
      OBVIOUS
    <3>3. /\ a \in Seq(Key) /\ Len(a) = n + 1 /\ a[n + 1] = k
          /\ \A i \in 1 .. n : a[i] = keys[i]
      BY <3>1, <3>2, AppendPlaces
    <3> QED BY <1>3, <3>2, <3>3
  <2>2. /\ recent' \in Seq(Key) /\ Len(recent') = n + 1 /\ recent'[n + 1] = k
        /\ \A i \in 1 .. n : recent'[i] = recent[i]
    BY <1>1, <1>3, AppendPlaces DEF OrderInv
  <2> QED BY <1>2, <2>1, <2>2
<1>5. Newest(keys', recent')
  <2>1. n + 1 = IF n + 1 < Capacity THEN n + 1 ELSE Capacity
    BY <1>1, ConstantsAssumption DEF ConstantsAssumption
  <2>2. \A i \in 1 .. n + 1 : i \in 1 .. n \/ i = n + 1
    OBVIOUS
  <2>3. \A i \in 1 .. n + 1 : keys'[i] = recent'[i]
    BY <1>4, <2>2
  <2>4. \A i \in 1 .. n + 1 : (n + 1) - (n + 1) + i = i
    OBVIOUS
  <2>5. Len(keys') = n + 1 /\ Len(recent') = n + 1
    BY <1>4
  <2> QED BY <2>1, <2>3, <2>4, <2>5 DEF Newest
<1>6. Distinct(recent')
  BY <1>1, <1>2, <1>4 DEF OrderInv, Distinct
<1>7. DOMAIN cache' = KeysOf(keys')
  <2>1. KeysOf(keys') = KeysOf(keys) \cup {k}
    BY <1>1, <1>4 DEF KeysOf
  <2> QED BY <2>1 DEF OrderInv
<1> QED BY <1>4, <1>5, <1>6, <1>7 DEF OrderInv

\* A new key in a full cache: the least recently used one goes.
LEMMA EvictOrder ==
    ASSUME OrderInv, NEW k \in Key, k \notin DOMAIN cache,
           Cardinality(DOMAIN cache) = Capacity,
           keys' = MovedLast(Tail(keys), k), recent' = MovedLast(recent, k),
           DOMAIN cache' = (DOMAIN cache \ {Head(keys)}) \cup {k}
    PROVE  OrderInv'
<1>1. PICK m \in Nat \ {0} : m = Len(keys) /\ m = Capacity
  BY CacheSize, ConstantsAssumption DEF ConstantsAssumption
<1>2. PICK n \in Nat : n = Len(recent) /\ m <= n
  BY <1>1, CacheSize DEF OrderInv
<1>3. PICK d \in Nat : n = d + m
  <2>1. n - m \in Nat /\ n = (n - m) + m
    BY <1>2
  <2> QED BY <2>1
<1>4. \A i \in 1 .. m : d + i \in 1 .. n /\ keys[i] = recent[d + i] /\ keys[i] # k
  <2>1. \A i \in 1 .. m : keys[i] # k
    BY <1>1 DEF OrderInv, KeysOf
  <2>2. \A i \in 1 .. m : keys[i] = recent[n - m + i]
    BY <1>1, <1>2 DEF OrderInv, Newest
  <2>3. \A i \in 1 .. m : d + i \in 1 .. n /\ n - m + i = d + i
    BY <1>3
  <2> QED BY <2>1, <2>2, <2>3
<1>5. PICK h : /\ h = Tail(keys) /\ h \in Seq(Key) /\ Len(h) = m - 1
               /\ \A i \in 1 .. m - 1 : i + 1 \in 1 .. m /\ h[i] = keys[i + 1]
  <2>1. keys \in Seq(Key) /\ m = Len(keys)
    BY <1>1 DEF OrderInv
  <2>2. PICK h : h = Tail(keys)
    OBVIOUS
  <2>3. /\ h \in Seq(Key) /\ Len(h) = m - 1
        /\ \A i \in 1 .. m - 1 : i + 1 \in 1 .. m /\ h[i] = keys[i + 1]
    BY <2>1, <2>2, TailPlaces
  <2> QED BY <2>2, <2>3
<1>6. keys' = Append(h, k)
  <2>1. \A i \in 1 .. Len(h) : h[i] # k
    BY <1>4, <1>5
  <2>2. h \in Seq(Key) /\ keys' = MovedLast(h, k)
    BY <1>5
  <2> QED BY <2>1, <2>2, MovedNew
<1>7. /\ keys' \in Seq(Key) /\ Len(keys') = m /\ keys'[m] = k
      /\ \A i \in 1 .. m - 1 : keys'[i] = keys[i + 1]
  <2>1. /\ keys' \in Seq(Key) /\ Len(keys') = Len(h) + 1 /\ keys'[Len(h) + 1] = k
        /\ \A i \in 1 .. Len(h) : keys'[i] = h[i]
    <3>1. h \in Seq(Key)
      BY <1>5
    <3>2. PICK a : a = Append(h, k)
      OBVIOUS
    <3>3. /\ a \in Seq(Key) /\ Len(a) = Len(h) + 1 /\ a[Len(h) + 1] = k
          /\ \A i \in 1 .. Len(h) : a[i] = h[i]
      BY <3>1, <3>2, AppendPlaces
    <3> QED BY <1>6, <3>2, <3>3
  <2>2. Len(h) = m - 1 /\ (m - 1) + 1 = m
    BY <1>5
  <2> QED BY <1>5, <2>1, <2>2
<1>8. recent' \in Seq(Key) /\ Distinct(recent')
  BY MovedDistinct DEF OrderInv
<1>9. PICK e \in Nat :
         /\ Len(recent') = e + m
         /\ recent'[e + m] = k
         /\ \A i \in 1 .. m - 1 : recent'[e + i] = recent[d + (i + 1)]
  <2>1. CASE \A i \in 1 .. n : recent[i] # k
    <3>1. recent' = Append(recent, k)
      BY <1>2, <2>1, MovedNew DEF OrderInv
    <3>2. /\ Len(recent') = n + 1 /\ recent'[n + 1] = k
          /\ \A i \in 1 .. n : recent'[i] = recent[i]
      BY <1>2, <3>1 DEF OrderInv
    <3>3. (d + 1) + m = n + 1 /\ \A i \in 1 .. m - 1 : (d + 1) + i \in 1 .. n /\ (d + 1) + i = d + (i + 1)
      BY <1>3
    <3>4. \A i \in 1 .. m - 1 : recent'[(d + 1) + i] = recent[d + (i + 1)]
      BY <3>2, <3>3
    <3> QED BY <3>2, <3>3, <3>4
  <2>2. CASE \E i \in 1 .. n : recent[i] = k
    <3>1. PICK p \in 1 .. n : recent[p] = k
      BY <2>2
    <3>2. p <= d
      <4>1. p > d => \E i \in 1 .. m : p = d + i
        <5>1. ASSUME p > d PROVE p - d \in 1 .. m /\ p = d + (p - d)
          BY <1>3, <5>1
        <5> QED BY <5>1
      <4> QED BY <1>4, <3>1, <4>1
    <3>3. PICK r : r = MovedLast(recent, recent[p])
      OBVIOUS
    <3>4. /\ Len(r) = n
          /\ \A i \in 1 .. n : r[i] = IF i < p THEN recent[i]
                                      ELSE IF i < n THEN recent[i + 1] ELSE recent[p]
      BY <1>2, <3>3, MovedOld DEF OrderInv
    <3>5. \A i \in 1 .. m - 1 : /\ d + i \in 1 .. n /\ ~(d + i < p) /\ d + i < n
                                /\ (d + i) + 1 = d + (i + 1)
      BY <1>3, <3>2
    <3>6. \A i \in 1 .. m - 1 : r[d + i] = recent[d + (i + 1)]
      BY <3>4, <3>5
    <3>7. r[n] = k
      <4>1. n \in 1 .. n /\ ~(n < p) /\ ~(n < n)
        OBVIOUS
      <4> QED BY <3>1, <3>4, <4>1
    <3> QED BY <1>3, <3>1, <3>3, <3>4, <3>6, <3>7
  <2> QED BY <2>1, <2>2
<1>10. Newest(keys', recent')
  <2>1. \A i \in 1 .. m : keys'[i] = recent'[e + i]
    <3> SUFFICES ASSUME NEW i \in 1 .. m PROVE keys'[i] = recent'[e + i]
      OBVIOUS
    <3>1. CASE i = m
      BY <1>7, <1>9, <3>1
    <3>2. CASE i # m
      <4>1. i \in 1 .. m - 1 /\ i + 1 \in 1 .. m
        BY <3>2
      <4> QED BY <1>4, <1>7, <1>9, <4>1
    <3> QED BY <3>1, <3>2
  <2>2. \A i \in 1 .. m : (e + m) - m + i = e + i
    OBVIOUS
  <2>3. m = IF e + m < m THEN e + m ELSE m
    OBVIOUS
  <2>4. Len(keys') = m /\ Len(recent') = e + m
    BY <1>7, <1>9
  <2> QED BY <1>1, <2>1, <2>2, <2>3, <2>4 DEF Newest
<1>11. DOMAIN cache' = KeysOf(keys')
  <2>1. Head(keys) = keys[1] /\ 1 \in 1 .. m /\ m \in 1 .. m
    BY <1>1 DEF OrderInv
  <2>2. \A i, j \in 1 .. m : keys[i] = keys[j] => i = j
    BY <1>1, CacheSize DEF Distinct
  <2>3. DOMAIN cache = {keys[i] : i \in 1 .. m}
    BY <1>1 DEF OrderInv, KeysOf
  <2>4. \A x \in DOMAIN cache' : \E i \in 1 .. m : x = keys'[i]
    <3> SUFFICES ASSUME NEW x \in DOMAIN cache' PROVE \E i \in 1 .. m : x = keys'[i]
      OBVIOUS
    <3>1. CASE x = k
      BY <1>7, <2>1, <3>1
    <3>2. CASE x # k
      <4>1. PICK j \in 1 .. m : x = keys[j] /\ j # 1
        BY <2>1, <2>3, <3>2
      <4>2. PICK i \in 1 .. m - 1 : j = i + 1
        <5>1. j - 1 \in 1 .. m - 1 /\ j = (j - 1) + 1
          BY <4>1
        <5> QED BY <5>1
      <4>3. i \in 1 .. m
        OBVIOUS
      <4> QED BY <1>7, <4>1, <4>2, <4>3
    <3> QED BY <3>1, <3>2
  <2>5. \A i \in 1 .. m : keys'[i] \in DOMAIN cache'
    <3> SUFFICES ASSUME NEW i \in 1 .. m PROVE keys'[i] \in DOMAIN cache'
      OBVIOUS
    <3>1. CASE i = m
      BY <1>7, <3>1
    <3>2. CASE i # m
      <4>1. i \in 1 .. m - 1 /\ i + 1 \in 1 .. m /\ i + 1 # 1
        BY <3>2
      <4>2. keys[i + 1] \in DOMAIN cache /\ keys[i + 1] # Head(keys)
        BY <2>1, <2>2, <2>3, <4>1
      <4> QED BY <1>7, <4>1, <4>2
    <3> QED BY <3>1, <3>2
  <2>6. DOMAIN cache' = {keys'[i] : i \in 1 .. m}
    BY <2>4, <2>5
  <2> QED BY <1>7, <2>6 DEF KeysOf
<1> QED BY <1>7, <1>8, <1>10, <1>11 DEF OrderInv

\* The newest m places, as a subsequence.
LEMMA NewestIsSuffix ==
    ASSUME NEW K, NEW s \in Seq(K), NEW t \in Seq(K), NEW n \in Nat, NEW m \in Nat,
           n = Len(t), m = Len(s), m <= n,
           \A i \in 1 .. m : s[i] = t[n - m + i]
    PROVE  s = SubSeq(t, n - m + 1, n)
<1>1. PICK d \in Nat : n = d + m
  <2>1. n - m \in Nat /\ n = (n - m) + m
    OBVIOUS
  <2> QED BY <2>1
<1>2. n - m + 1 = d + 1
  BY <1>1
<1>3. PICK u : u = SubSeq(t, d + 1, n)
  OBVIOUS
<1>4. /\ u \in Seq(K) /\ Len(u) = m
      /\ \A i \in 1 .. m : u[i] = t[d + i]
  <2>1. u = [i \in 1 .. ((1 + n) - (d + 1)) |-> t[(i + (d + 1)) - 1]]
    BY <1>3
  <2>2. (1 + n) - (d + 1) = m
    BY <1>1
  <2>3. u = [i \in 1 .. m |-> t[(i + (d + 1)) - 1]]
    BY <2>1, <2>2
  <2>4. \A i \in 1 .. m : (i + (d + 1)) - 1 = d + i /\ d + i \in 1 .. n
    BY <1>1
  <2>5. \A i \in 1 .. m : u[i] = t[d + i] /\ t[d + i] \in K
    BY <2>3, <2>4
  <2> QED BY <2>3, <2>5
<1>5. \A i \in 1 .. m : s[i] = u[i]
  <2>1. \A i \in 1 .. m : n - m + i = d + i
    BY <1>1
  <2> QED BY <1>4, <2>1
<1>6. s = u
  BY <1>4, <1>5
<1> QED BY <1>2, <1>3, <1>6

\* The empty cache.
LEMMA EmptyOrder ==
    ASSUME NEW s, NEW t, s = << >>, t = << >>
    PROVE  /\ s \in Seq(Key) /\ t \in Seq(Key)
           /\ Distinct(t) /\ Newest(s, t) /\ KeysOf(s) = {}
<1>1. /\ s \in Seq(Key) /\ t \in Seq(Key)
      /\ Len(s) = 0 /\ Len(t) = 0 /\ 1 .. 0 = {}
  OBVIOUS
<1>2. Capacity \in Nat \ {0}
  BY ConstantsAssumption DEF ConstantsAssumption
<1>3. Distinct(t) /\ KeysOf(s) = {}
  BY <1>1 DEF Distinct, KeysOf
<1>4. Newest(s, t)
  BY <1>1, <1>2 DEF Newest
<1> QED BY <1>1, <1>3, <1>4

\* Every step keeps the order of the keys.
LEMMA OrderStep ==
    ASSUME AnswersInv, OrderInv, [Next]_vars
    PROVE  OrderInv'
<1>1. ASSUME NEW k \in DOMAIN cache, Touch(k) PROVE OrderInv'
  BY <1>1, KnownOrder DEF Touch
<1>2. ASSUME NEW b \in Batch, NEW v, Store(BatchKey(b), v) PROVE OrderInv'
  <2> DEFINE k == BatchKey(b)
  <2>1. k \in Key
    BY DEF Key
  <2> HIDE DEF k
  <2>2. CASE k \in DOMAIN cache
    <3>1. /\ keys' = MovedLast(keys, k) /\ recent' = MovedLast(recent, k)
          /\ DOMAIN cache' = DOMAIN cache
      BY <1>2, <2>2 DEF Store, k
    <3> QED BY <2>2, <3>1, KnownOrder
  <2>3. CASE k \notin DOMAIN cache /\ Cardinality(DOMAIN cache) # Capacity
    <3>1. /\ keys' = MovedLast(keys, k) /\ recent' = MovedLast(recent, k)
          /\ DOMAIN cache' = DOMAIN cache \cup {k}
      BY <1>2, <2>3 DEF Store, k
    <3> QED BY <2>1, <2>3, <3>1, RoomOrder
  <2>4. CASE k \notin DOMAIN cache /\ Cardinality(DOMAIN cache) = Capacity
    <3>1. /\ keys' = MovedLast(Tail(keys), k) /\ recent' = MovedLast(recent, k)
          /\ DOMAIN cache' = (DOMAIN cache \ {Head(keys)}) \cup {k}
      BY <1>2, <2>4 DEF Store, k
    <3> QED BY <2>1, <2>4, <3>1, EvictOrder
  <2> QED BY <2>2, <2>3, <2>4
<1>3. ASSUME InvalidateAll PROVE OrderInv'
  <2>1. keys' = << >> /\ recent' = << >> /\ DOMAIN cache' = {}
    BY <1>3 DEF InvalidateAll
  <2> QED BY <2>1, EmptyOrder DEF OrderInv
<1>4. ASSUME UNCHANGED lru PROVE OrderInv'
  BY <1>4 DEF OrderInv, lru
<1>5. ASSUME NEW s, NEW b, Hit(s, b) PROVE OrderInv'
  BY <1>1, <1>5 DEF Hit
<1>6. ASSUME NEW s \in Searcher, StoreResults(s) PROVE OrderInv'
  <2>1. asked[s] \in Batch
    BY <1>6 DEF StoreResults, AnswersInv, GotAnswers
  <2> QED BY <1>2, <1>6, <2>1 DEF StoreResults
<1>7. ASSUME NEW w, Invalidate(w) PROVE OrderInv'
  BY <1>3, <1>7 DEF Invalidate
<1>8. ASSUME NEW s, NEW b, Miss(s, b) PROVE OrderInv'
  BY <1>4, <1>8 DEF Miss
<1>9. ASSUME NEW s, EnqueueTask(s) PROVE OrderInv'
  BY <1>4, <1>9 DEF EnqueueTask
<1>10. ASSUME NEW w, WorkerStep(w) PROVE OrderInv'
  BY <1>4, <1>10 DEF WorkerStep, Sleep, Take, RunTask
<1>11. ASSUME NEW w, ApplyWrite(w) \/ SetModifiedFlag(w) \/ ReadModifiedFlag(w)
       PROVE OrderInv'
  BY <1>4, <1>11 DEF ApplyWrite, SetModifiedFlag, ReadModifiedFlag
<1>12. CASE SyncClearsFlag \/ ApplyWALEntry
  BY <1>4, <1>12 DEF SyncClearsFlag, ApplyWALEntry
<1>13. CASE UNCHANGED vars
  BY <1>4, <1>13 DEF vars
<1> QED BY <1>5, <1>6, <1>7, <1>8, <1>9, <1>10, <1>11, <1>12, <1>13
        DEF Next, SearcherStep, WriterStep

\* At the start the cache is empty.
LEMMA CacheInit == Init => AnswersInv /\ OrderInv
<1>1. Init => AnswersInv
  BY DEF Init, AnswersInv, GotAnswers, CacheAnswers, NoBatch
<1>2. Init => OrderInv
  <2>1. Init => keys = << >> /\ recent = << >> /\ DOMAIN cache = {}
    BY DEF Init
  <2> QED BY <2>1, EmptyOrder DEF OrderInv
<1> QED BY <1>1, <1>2

\* The cache holds the most recently used keys since it was last emptied, as
\* many as fit, and keys_ lists them in that order, for every capacity.
THEOREM CacheOrdered == Spec => []LeastRecentlyUsed
<1>1. Init => AnswersInv /\ OrderInv
  BY CacheInit
<1>2. AnswersInv /\ OrderInv /\ [Next]_vars => AnswersInv' /\ OrderInv'
  BY AnswersStep, OrderStep
<1>3. OrderInv => LeastRecentlyUsed
  <2> SUFFICES ASSUME OrderInv PROVE LeastRecentlyUsed
    OBVIOUS
  <2>1. PICK n \in Nat, m \in Nat : n = Len(recent) /\ m = Len(keys)
    BY DEF OrderInv
  <2>2. m = IF n < Capacity THEN n ELSE Capacity
    BY <2>1 DEF OrderInv, Newest
  <2>3. Capacity \in Nat
    BY ConstantsAssumption DEF ConstantsAssumption
  <2>4. m <= n
    BY <2>2, <2>3
  <2>5. \A i \in 1 .. m : keys[i] = recent[n - m + i]
    BY <2>1 DEF OrderInv, Newest
  <2>6. keys = SubSeq(recent, n - m + 1, n)
    BY <2>1, <2>4, <2>5, NewestIsSuffix DEF OrderInv
  <2>7. DOMAIN keys = 1 .. m
    BY <2>1 DEF OrderInv
  <2>8. DOMAIN cache = {keys[i] : i \in DOMAIN keys}
    BY <2>1, <2>7 DEF OrderInv, KeysOf
  <2> QED BY <2>1, <2>2, <2>6, <2>8 DEF LeastRecentlyUsed
<1> QED
  BY <1>1, <1>2, <1>3, PTL DEF Spec

-----------------------------------------------------------------------------
(* Tasks.                                                                  *)

\* The types of the calls.
CallsTyped ==
    /\ asked \in [Searcher -> Batch \cup {NoBatch}]
    /\ sent \in [Searcher -> Nat]
    /\ DOMAIN got = Searcher
    /\ \A s \in Searcher : /\ sent[s] <= Len(asked[s])
                           /\ got[s] \in [DOMAIN asked[s] -> Result \cup {Nothing}]
                           /\ \A i \in DOMAIN got[s] : got[s][i] # Nothing => i <= sent[s]

\* Requests that were sent and are not answered, and where their tasks are.
Unanswered == {t \in Searcher \X Nat : t[2] \in 1 .. sent[t[1]] /\ got[t[1]][t[2]] = Nothing}
Queued == {tasks[j] : j \in 1 .. Len(tasks)}
Running == {doing[w] : w \in Worker} \ {Nothing}

TasksPlaced ==
    /\ tasks \in Seq(Searcher \X Nat)
    /\ doing \in [Worker -> (Searcher \X Nat) \cup {Nothing}]
    /\ Unanswered = Queued \cup Running
    /\ Queued \cap Running = {}
    /\ Distinct(tasks)
    /\ \A w, v \in Worker : doing[w] = doing[v] /\ doing[w] # Nothing => w = v

TasksInv == /\ version \in 0 .. MaxVersion
            /\ CallsTyped
            /\ TasksPlaced

\* A batch is a sequence, and the absence of one is the empty sequence.
LEMMA BatchPlaces ==
    ASSUME NEW b \in Batch \cup {NoBatch}
    PROVE  /\ Len(b) \in Nat /\ DOMAIN b = 1 .. Len(b)
           /\ \A i \in DOMAIN b : b \in Batch /\ b[i] \in Request
<1>1. CASE b \in Batch
  <2>1. Len(b) \in Nat \ {0} /\ b = [i \in 1 .. Len(b) |-> b[i]]
    BY <1>1, ConstantsAssumption DEF ConstantsAssumption
  <2>2. \A i \in DOMAIN b : b[i] \in Request
    BY <1>1 DEF Request
  <2> QED BY <1>1, <2>1, <2>2
<1>2. CASE b = NoBatch
  BY <1>2 DEF NoBatch
<1> QED BY <1>1, <1>2

\* Neither a task nor a result is Nothing.
LEMMA NothingApart ==
    /\ \A t \in Searcher \X Nat : t # Nothing
    /\ \A r \in Result : r # Nothing
<1>1. MaxVersion \in Nat /\ Nothing \notin (Searcher \X Nat) \cup [request : Request, version : Nat]
  BY ConstantsAssumption DEF ConstantsAssumption
<1>2. \A r \in Result : r \in [request : Request, version : Nat]
  BY <1>1 DEF Result
<1> QED BY <1>1, <1>2

\* Steps that leave calls and pool alone.
LEMMA TasksUnchanged ==
    ASSUME TasksInv, UNCHANGED <<asked, sent, got, tasks, doing>>, version' \in 0 .. MaxVersion
    PROVE  TasksInv'
<1>1. CallsTyped'
  BY DEF TasksInv, CallsTyped, NoBatch
<1>2. Unanswered' = Unanswered /\ Queued' = Queued /\ Running' = Running
  BY DEF Unanswered, Queued, Running
<1>3. TasksPlaced'
  BY <1>2 DEF TasksInv, TasksPlaced, Distinct
<1> QED BY <1>1, <1>3 DEF TasksInv

\* A call begins with nothing sent.
LEMMA MissTasks ==
    ASSUME TasksInv, NEW s \in Searcher, NEW b \in Batch, Miss(s, b)
    PROVE  TasksInv'
<1>1. /\ asked[s] = NoBatch
      /\ asked' = [asked EXCEPT ![s] = b]
      /\ got' = [got EXCEPT ![s] = [i \in DOMAIN b |-> Nothing]]
      /\ UNCHANGED <<sent, tasks, doing, version>>
  BY DEF Miss, pool, writes
<1>2. sent[s] = 0
  <2>1. sent[s] \in Nat /\ sent[s] <= Len(NoBatch)
    BY <1>1 DEF TasksInv, CallsTyped
  <2> QED BY <2>1 DEF NoBatch
<1>3. CallsTyped'
  <2>1. \A x \in Searcher : sent'[x] <= Len(asked'[x])
    BY <1>1, <1>2, BatchPlaces DEF TasksInv, CallsTyped
  <2>2. \A x \in Searcher : got'[x] \in [DOMAIN asked'[x] -> Result \cup {Nothing}]
    BY <1>1 DEF TasksInv, CallsTyped
  <2>3. asked' \in [Searcher -> Batch \cup {NoBatch}] /\ DOMAIN got' = Searcher
    BY <1>1 DEF TasksInv, CallsTyped
  <2>4. \A x \in Searcher : \A i \in DOMAIN got'[x] : got'[x][i] # Nothing => i <= sent'[x]
    BY <1>1 DEF TasksInv, CallsTyped
  <2> QED BY <1>1, <2>1, <2>2, <2>3, <2>4 DEF TasksInv, CallsTyped
<1>4. Unanswered' = Unanswered
  <2>1. \A t \in Searcher \X Nat : t[1] = s => t[2] \notin 1 .. sent[t[1]]
    BY <1>2
  <2>2. \A t \in Searcher \X Nat : t[1] # s => got'[t[1]] = got[t[1]]
    BY <1>1 DEF TasksInv, CallsTyped
  <2> QED BY <1>1, <2>1, <2>2 DEF Unanswered
<1> QED BY <1>1, <1>3, <1>4 DEF TasksInv, TasksPlaced, Queued, Running

\* The task of the next request is queued.
LEMMA EnqueueTasks ==
    ASSUME TasksInv, NEW s \in Searcher, EnqueueTask(s)
    PROVE  TasksInv'
<1>1. /\ sent[s] < Len(asked[s])
      /\ sent' = [sent EXCEPT ![s] = sent[s] + 1]
      /\ UNCHANGED <<asked, got, doing, version>>
  BY DEF EnqueueTask, writes
<1>2. PICK t \in Searcher \X Nat : t = <<s, sent[s] + 1>> /\ tasks' = Append(tasks, t)
  <2>1. sent[s] + 1 \in Nat
    BY DEF TasksInv, CallsTyped
  <2>2. <<s, sent[s] + 1>> \in Searcher \X Nat
    BY <2>1
  <2> QED BY <2>2 DEF EnqueueTask
<1>3. /\ sent[s] \in Nat /\ Len(asked[s]) \in Nat
      /\ DOMAIN asked[s] = 1 .. Len(asked[s])
  BY BatchPlaces DEF TasksInv, CallsTyped
<1>4. CallsTyped'
  BY <1>1, <1>3 DEF TasksInv, CallsTyped
<1>5. t \notin Unanswered
  BY <1>2, <1>3 DEF Unanswered
<1>6. Unanswered' = Unanswered \cup {t}
  <2>1. got[s][sent[s] + 1] = Nothing
    <3>1. sent[s] + 1 \in DOMAIN got[s] /\ ~(sent[s] + 1 <= sent[s])
      BY <1>1, <1>3 DEF TasksInv, CallsTyped
    <3> QED BY <3>1 DEF TasksInv, CallsTyped
  <2>2. \A x \in Searcher : \A i \in Nat : i \in 1 .. sent'[x] <=>
           i \in 1 .. sent[x] \/ (x = s /\ i = sent[s] + 1)
    BY <1>1, <1>3 DEF TasksInv, CallsTyped
  <2> QED BY <1>1, <1>2, <2>1, <2>2 DEF Unanswered
<1>7. /\ tasks' \in Seq(Searcher \X Nat) /\ Len(tasks') = Len(tasks) + 1
      /\ \A j \in 1 .. Len(tasks) : tasks'[j] = tasks[j]
      /\ tasks'[Len(tasks) + 1] = t
  BY <1>2, AppendPlaces DEF TasksInv, TasksPlaced
<1>8. Queued' = Queued \cup {t} /\ Distinct(tasks')
  <2>1. t \notin Queued
    BY <1>5 DEF TasksInv, TasksPlaced
  <2>2. Len(tasks) \in Nat
    BY DEF TasksInv, TasksPlaced
  <2>3. Queued' = Queued \cup {t}
    <3>1. \A j \in 1 .. Len(tasks) + 1 : j \in 1 .. Len(tasks) \/ j = Len(tasks) + 1
      BY <2>2
    <3>2. \A j \in 1 .. Len(tasks) : j \in 1 .. Len(tasks) + 1
      BY <2>2
    <3>3. Len(tasks) + 1 \in 1 .. Len(tasks) + 1
      BY <2>2
    <3>4. Queued' = {tasks'[j] : j \in 1 .. Len(tasks) + 1}
      BY <1>7 DEF Queued
    <3>5. \A j \in 1 .. Len(tasks) + 1 : tasks'[j] \in Queued \cup {t}
      BY <1>7, <3>1 DEF Queued
    <3>6. \A x \in Queued : \E j \in 1 .. Len(tasks) + 1 : x = tasks'[j]
      BY <1>7, <3>2 DEF Queued
    <3>7. \E j \in 1 .. Len(tasks) + 1 : t = tasks'[j]
      BY <1>7, <3>3
    <3> QED BY <3>4, <3>5, <3>6, <3>7
  <2>4. Distinct(tasks')
    <3> SUFFICES ASSUME NEW i \in 1 .. Len(tasks) + 1, NEW j \in 1 .. Len(tasks) + 1,
                        tasks'[i] = tasks'[j]
                 PROVE  i = j
      BY <1>7 DEF Distinct
    <3>1. \A k \in 1 .. Len(tasks) : tasks'[k] # t
      BY <1>7, <2>1 DEF Queued
    <3>2. CASE i = Len(tasks) + 1 \/ j = Len(tasks) + 1
      BY <1>7, <2>2, <3>1, <3>2
    <3>3. CASE i # Len(tasks) + 1 /\ j # Len(tasks) + 1
      <4>1. i \in 1 .. Len(tasks) /\ j \in 1 .. Len(tasks)
        BY <2>2, <3>3
      <4>2. tasks[i] = tasks[j]
        BY <1>7, <4>1
      <4> QED BY <4>1, <4>2 DEF TasksInv, TasksPlaced, Distinct
    <3> QED BY <3>2, <3>3
  <2> QED BY <2>3, <2>4
<1>9. Running' = Running
  BY <1>1 DEF Running
<1>10. TasksPlaced'
  <2>1. Queued' \cap Running' = {}
    BY <1>5, <1>8, <1>9 DEF TasksInv, TasksPlaced
  <2>2. Unanswered' = Queued' \cup Running'
    BY <1>6, <1>8, <1>9 DEF TasksInv, TasksPlaced
  <2> QED BY <1>1, <1>7, <1>8, <2>1, <2>2 DEF TasksInv, TasksPlaced
<1> QED BY <1>1, <1>4, <1>10 DEF TasksInv

\* A worker takes the task at the front of the queue.
LEMMA TakeTasks ==
    ASSUME TasksInv, NEW w \in Worker, Take(w)
    PROVE  TasksInv'
<1>1. /\ doing[w] = Nothing /\ tasks # << >>
      /\ doing' = [doing EXCEPT ![w] = Head(tasks)]
      /\ tasks' = Tail(tasks)
      /\ UNCHANGED <<asked, sent, got, version>>
  BY DEF Take, calls, writes
<1>2. PICK m \in Nat \ {0} : m = Len(tasks)
  BY <1>1 DEF TasksInv, TasksPlaced
<1>3. /\ tasks' \in Seq(Searcher \X Nat) /\ Len(tasks') = m - 1
      /\ \A j \in 1 .. m - 1 : j + 1 \in 1 .. m /\ tasks'[j] = tasks[j + 1]
  <2>1. PICK h : h = Tail(tasks)
    OBVIOUS
  <2>2. tasks \in Seq(Searcher \X Nat)
    BY DEF TasksInv, TasksPlaced
  <2>3. /\ h \in Seq(Searcher \X Nat) /\ Len(h) = m - 1
        /\ \A j \in 1 .. m - 1 : j + 1 \in 1 .. m /\ h[j] = tasks[j + 1]
    BY <1>2, <2>1, <2>2, TailPlaces
  <2> QED BY <1>1, <2>1, <2>3
<1>4. PICK t \in Searcher \X Nat : t = tasks[1] /\ t = Head(tasks) /\ 1 \in 1 .. m
  BY <1>1, <1>2 DEF TasksInv, TasksPlaced
<1>5. t # Nothing /\ t \in Queued
  BY <1>2, <1>4, NothingApart DEF Queued
<1>6. Queued' = Queued \ {t} /\ Distinct(tasks')
  <2>1. \A i, j \in 1 .. m : tasks[i] = tasks[j] => i = j
    BY <1>2 DEF TasksInv, TasksPlaced, Distinct
  <2>2. Distinct(tasks')
    <3> SUFFICES ASSUME NEW i \in 1 .. m - 1, NEW j \in 1 .. m - 1, tasks'[i] = tasks'[j]
                 PROVE  i = j
      BY <1>3 DEF Distinct
    <3>1. i + 1 = j + 1
      BY <1>3, <2>1
    <3> QED BY <3>1
  <2>3. \A j \in 1 .. m - 1 : tasks'[j] \in Queued /\ tasks'[j] # t
    <3> SUFFICES ASSUME NEW j \in 1 .. m - 1 PROVE tasks'[j] \in Queued /\ tasks'[j] # t
      OBVIOUS
    <3>1. j + 1 \in 1 .. m /\ j + 1 # 1 /\ tasks'[j] = tasks[j + 1]
      BY <1>3
    <3> QED BY <1>2, <1>4, <2>1, <3>1 DEF Queued
  <2>4. \A x \in Queued \ {t} : \E j \in 1 .. m - 1 : x = tasks'[j]
    <3> SUFFICES ASSUME NEW x \in Queued \ {t} PROVE \E j \in 1 .. m - 1 : x = tasks'[j]
      OBVIOUS
    <3>1. PICK i \in 1 .. m : x = tasks[i] /\ i # 1
      BY <1>2, <1>4 DEF Queued
    <3>2. i - 1 \in 1 .. m - 1 /\ (i - 1) + 1 = i
      BY <3>1
    <3> QED BY <1>3, <3>1, <3>2
  <2>5. Queued' = {tasks'[j] : j \in 1 .. m - 1}
    BY <1>3 DEF Queued
  <2> QED BY <2>2, <2>3, <2>4, <2>5
<1>7. /\ doing' \in [Worker -> (Searcher \X Nat) \cup {Nothing}]
      /\ doing'[w] = t /\ \A v \in Worker \ {w} : doing'[v] = doing[v]
  BY <1>1, <1>4 DEF TasksInv, TasksPlaced
<1>8. Running' = Running \cup {t}
  BY <1>1, <1>5, <1>7 DEF Running
<1>9. \A v \in Worker : doing[v] # t
  BY <1>5 DEF TasksInv, TasksPlaced, Running
<1>10. TasksPlaced'
  <2>1. Unanswered' = Unanswered
    BY <1>1 DEF Unanswered
  <2>2. Queued' \cap Running' = {} /\ Queued' \cup Running' = Queued \cup Running
    BY <1>5, <1>6, <1>8 DEF TasksInv, TasksPlaced
  <2>3. \A u, v \in Worker : doing'[u] = doing'[v] /\ doing'[u] # Nothing => u = v
    BY <1>7, <1>9 DEF TasksInv, TasksPlaced
  <2> QED BY <1>3, <1>6, <1>7, <2>1, <2>2, <2>3 DEF TasksInv, TasksPlaced
<1> QED BY <1>1, <1>10 DEF TasksInv, CallsTyped

\* A task that is run is answered.
LEMMA RunTasks ==
    ASSUME TasksInv, NEW w \in Worker, RunTask(w)
    PROVE  TasksInv'
<1>1. PICK t \in Searcher \X Nat : t = doing[w] /\ t \in Running
  BY DEF RunTask, TasksInv, TasksPlaced, Running
<1>2. PICK s \in Searcher, i \in Nat : t = <<s, i>> /\ t[1] = s /\ t[2] = i
  OBVIOUS
<1>3. t \in Unanswered
  BY <1>1 DEF TasksInv, TasksPlaced
<1>4. /\ i \in 1 .. sent[s] /\ sent[s] \in Nat
      /\ i \in DOMAIN asked[s] /\ DOMAIN got[s] = DOMAIN asked[s] /\ asked[s][i] \in Request
  <2>1. /\ sent[s] \in Nat /\ sent[s] <= Len(asked[s]) /\ i \in 1 .. sent[s]
        /\ DOMAIN got[s] = DOMAIN asked[s]
    BY <1>2, <1>3 DEF Unanswered, TasksInv, CallsTyped
  <2>2. asked[s] \in Batch \cup {NoBatch}
    BY DEF TasksInv, CallsTyped
  <2>3. Len(asked[s]) \in Nat /\ DOMAIN asked[s] = 1 .. Len(asked[s])
    BY <2>2, BatchPlaces
  <2> QED BY <2>1, <2>2, <2>3, BatchPlaces
<1>5. PICK r \in Result : r = [request |-> asked[s][i], version |-> version]
  BY <1>4 DEF Result, TasksInv
<1>6. /\ got' = [got EXCEPT ![s][i] = r]
      /\ doing' = [doing EXCEPT ![w] = Nothing]
      /\ UNCHANGED <<asked, sent, tasks, version>>
  BY <1>1, <1>2, <1>5 DEF RunTask, writes
<1>7. /\ \A x \in Searcher : DOMAIN got'[x] = DOMAIN got[x]
      /\ got'[s][i] = r
      /\ \A x \in Searcher : \A j \in DOMAIN got[x] :
            x # s \/ j # i => got'[x][j] = got[x][j]
  BY <1>4, <1>6 DEF TasksInv, CallsTyped
<1>8. CallsTyped'
  <2>1. \A x \in Searcher : got'[x] \in [DOMAIN asked[x] -> Result \cup {Nothing}]
    BY <1>6 DEF TasksInv, CallsTyped
  <2>2. \A x \in Searcher : \A j \in DOMAIN got'[x] : got'[x][j] # Nothing => j <= sent[x]
    BY <1>4, <1>7 DEF TasksInv, CallsTyped
  <2> QED BY <1>6, <2>1, <2>2 DEF TasksInv, CallsTyped
<1>9. Unanswered' = Unanswered \ {t}
  <2>1. \A x \in Searcher : \A j \in 1 .. sent[x] : j \in DOMAIN got[x]
    <3> SUFFICES ASSUME NEW x \in Searcher, NEW j \in 1 .. sent[x] PROVE j \in DOMAIN got[x]
      OBVIOUS
    <3>1. Len(asked[x]) \in Nat /\ DOMAIN asked[x] = 1 .. Len(asked[x])
      BY BatchPlaces DEF TasksInv, CallsTyped
    <3> QED BY <3>1 DEF TasksInv, CallsTyped
  <2>2. r # Nothing
    BY NothingApart
  <2>3. \A x \in Searcher, j \in Nat : j \in 1 .. sent[x] =>
           (got'[x][j] = Nothing <=> got[x][j] = Nothing /\ <<x, j>> # t)
    BY <1>2, <1>7, <2>1, <2>2
  <2> QED BY <1>6, <2>3 DEF Unanswered
<1>10. /\ doing' \in [Worker -> (Searcher \X Nat) \cup {Nothing}]
       /\ doing'[w] = Nothing /\ \A v \in Worker \ {w} : doing'[v] = doing[v]
  BY <1>6 DEF TasksInv, TasksPlaced
<1>11. Running' = Running \ {t} /\ Queued' = Queued
  <2>1. \A v \in Worker \ {w} : doing[v] # t
    BY <1>1 DEF TasksInv, TasksPlaced, Running
  <2> QED BY <1>1, <1>6, <1>10, <2>1 DEF Running, Queued
<1>12. TasksPlaced'
  <2>1. Unanswered' = Queued' \cup Running' /\ Queued' \cap Running' = {}
    BY <1>1, <1>9, <1>11 DEF TasksInv, TasksPlaced
  <2>2. \A u, v \in Worker : doing'[u] = doing'[v] /\ doing'[u] # Nothing => u = v
    BY <1>10 DEF TasksInv, TasksPlaced
  <2>3. tasks' \in Seq(Searcher \X Nat) /\ Distinct(tasks')
    BY <1>6 DEF TasksInv, TasksPlaced
  <2> QED BY <1>10, <2>1, <2>2, <2>3 DEF TasksPlaced
<1> QED BY <1>6, <1>8, <1>12 DEF TasksInv

\* A call that returns has no task left.
LEMMA StoreTasks ==
    ASSUME TasksInv, NEW s \in Searcher, StoreResults(s)
    PROVE  TasksInv'
<1>1. /\ \A i \in DOMAIN got[s] : got[s][i] # Nothing
      /\ asked' = [asked EXCEPT ![s] = NoBatch]
      /\ sent' = [sent EXCEPT ![s] = 0]
      /\ got' = [got EXCEPT ![s] = << >>]
      /\ UNCHANGED <<tasks, doing, version>>
  BY DEF StoreResults, pool, writes
<1>2. CallsTyped'
  <2>1. got' = [got EXCEPT ![s] = NoBatch] /\ DOMAIN NoBatch = {} /\ Len(NoBatch) = 0
    BY <1>1 DEF NoBatch
  <2>2. NoBatch \in [DOMAIN NoBatch -> Result \cup {Nothing}]
    BY DEF NoBatch
  <2> HIDE DEF NoBatch
  <2>3. \A x \in Searcher : got'[x] \in [DOMAIN asked'[x] -> Result \cup {Nothing}]
    BY <1>1, <2>1, <2>2 DEF TasksInv, CallsTyped
  <2>4. \A x \in Searcher : /\ sent'[x] <= Len(asked'[x])
                            /\ \A i \in DOMAIN got'[x] : got'[x][i] # Nothing => i <= sent'[x]
    BY <1>1, <2>1 DEF TasksInv, CallsTyped
  <2> QED BY <1>1, <2>1, <2>3, <2>4 DEF TasksInv, CallsTyped
<1>3. Unanswered' = Unanswered
  <2>1. \A j \in 1 .. sent[s] : got[s][j] # Nothing
    <3>1. /\ Len(asked[s]) \in Nat /\ DOMAIN asked[s] = 1 .. Len(asked[s])
          /\ sent[s] \in Nat /\ sent[s] <= Len(asked[s]) /\ DOMAIN got[s] = DOMAIN asked[s]
      BY BatchPlaces DEF TasksInv, CallsTyped
    <3> QED BY <1>1, <3>1
  <2>2. sent'[s] = 0 /\ 1 .. 0 = {}
    BY <1>1 DEF TasksInv, CallsTyped
  <2>3. \A x \in Searcher \ {s} : sent'[x] = sent[x] /\ got'[x] = got[x]
    BY <1>1 DEF TasksInv, CallsTyped
  <2> QED BY <2>1, <2>2, <2>3 DEF Unanswered
<1> QED BY <1>1, <1>2, <1>3 DEF TasksInv, TasksPlaced, Queued, Running

\* Every step keeps every task in its place.
LEMMA TasksStep ==
    ASSUME TasksInv, [Next]_vars
    PROVE  TasksInv'
<1>1. version \in 0 .. MaxVersion /\ MaxVersion \in Nat
  BY ConstantsAssumption DEF TasksInv, ConstantsAssumption
<1>2. ASSUME NEW s \in Searcher, NEW b \in Batch, Hit(s, b) PROVE TasksInv'
  BY <1>1, <1>2, TasksUnchanged DEF Hit, calls, pool, writes
<1>3. ASSUME NEW s \in Searcher, NEW b \in Batch, Miss(s, b) PROVE TasksInv'
  BY <1>3, MissTasks
<1>4. ASSUME NEW s \in Searcher, SearcherStep(s) PROVE TasksInv'
  BY <1>4, EnqueueTasks, StoreTasks DEF SearcherStep
<1>5. ASSUME NEW w \in Worker, WorkerStep(w) PROVE TasksInv'
  <2>1. ASSUME Sleep(w) PROVE TasksInv'
    BY <1>1, <2>1, TasksUnchanged DEF Sleep, calls, writes
  <2> QED BY <1>5, <2>1, TakeTasks, RunTasks DEF WorkerStep
<1>6. ASSUME NEW w \in Writer, ApplyWrite(w) \/ WriterStep(w) PROVE TasksInv'
  <2>1. UNCHANGED <<asked, sent, got, tasks, doing>> /\ version' \in 0 .. MaxVersion
    BY <1>1, <1>6 DEF ApplyWrite, WriterStep, SetModifiedFlag, ReadModifiedFlag, Invalidate, calls, pool
  <2> QED BY <2>1, TasksUnchanged
<1>7. CASE SyncClearsFlag \/ ApplyWALEntry \/ UNCHANGED vars
  <2>1. UNCHANGED <<asked, sent, got, tasks, doing>> /\ version' \in 0 .. MaxVersion
    BY <1>1, <1>7 DEF SyncClearsFlag, ApplyWALEntry, vars, calls, pool, writes
  <2> QED BY <2>1, TasksUnchanged
<1>8. \A ask \in Asks : ask[1] \in Searcher /\ ask[2] \in Batch
  BY ConstantsAssumption DEF ConstantsAssumption
<1> QED BY <1>2, <1>3, <1>4, <1>5, <1>6, <1>7, <1>8 DEF Next

\* A set of places of which at most one is filled.
LEMMA AtMostOne ==
    ASSUME NEW S, NEW P, P \subseteq S, \A x, y \in P : x = y
    PROVE  Cardinality(P) = IF P = {} THEN 0 ELSE 1
<1>1. CASE P = {}
  BY <1>1, FS_EmptySet
<1>2. CASE P # {}
  <2>1. PICK x \in P : P = {x}
    BY <1>2
  <2> QED BY <1>2, <2>1, FS_Singleton
<1> QED BY <1>1, <1>2

\* At the start there is no task.
LEMMA TasksInit == Init => TasksInv
<1> SUFFICES ASSUME Init PROVE TasksInv
  OBVIOUS
<1>1. Len(NoBatch) = 0 /\ DOMAIN NoBatch = {} /\ NoBatch \in [DOMAIN NoBatch -> Result \cup {Nothing}]
  BY DEF NoBatch
<1>2. asked = [s \in Searcher |-> NoBatch] /\ got = [s \in Searcher |-> NoBatch]
  BY DEF Init, NoBatch
<1> HIDE DEF NoBatch
<1>3. CallsTyped
  BY <1>1, <1>2 DEF Init, CallsTyped
<1>4. Unanswered = {} /\ Queued = {} /\ Running = {}
  BY DEF Init, Unanswered, Queued, Running
<1>5. tasks \in Seq(Searcher \X Nat) /\ Distinct(tasks)
  BY DEF Init, Distinct
<1>6. version \in 0 .. MaxVersion
  BY ConstantsAssumption DEF Init, ConstantsAssumption
<1> QED BY <1>3, <1>4, <1>5, <1>6 DEF Init, TasksInv, TasksPlaced

\* Every request of a running call is unsent, queued, running or answered,
\* whoever searches, however many workers there are.
THEOREM TasksKept == Spec => []TasksAccounted
<1>1. Init => TasksInv
  BY TasksInit
<1>2. TasksInv /\ [Next]_vars => TasksInv'
  BY TasksStep
<1>3. TasksInv => TasksAccounted
  <2> SUFFICES ASSUME TasksInv PROVE TasksAccounted
    OBVIOUS
  <2>1. DOMAIN tasks = 1 .. Len(tasks)
    BY DEF TasksInv, TasksPlaced
  <2>2. ASSUME NEW t \in Unanswered PROVE t[2] \in DOMAIN asked[t[1]]
    <3>1. t[1] \in Searcher /\ t[2] \in 1 .. sent[t[1]]
      BY DEF Unanswered
    <3>2. /\ sent[t[1]] \in Nat /\ sent[t[1]] <= Len(asked[t[1]])
          /\ asked[t[1]] \in Batch \cup {NoBatch}
      BY <3>1 DEF TasksInv, CallsTyped
    <3>3. Len(asked[t[1]]) \in Nat /\ DOMAIN asked[t[1]] = 1 .. Len(asked[t[1]])
      BY <3>2, BatchPlaces
    <3> QED BY <3>1, <3>2, <3>3
  <2>3. \A j \in DOMAIN tasks : tasks[j] \in Unanswered
    BY <2>1 DEF TasksInv, TasksPlaced, Queued
  <2>4. \A w \in Worker : doing[w] # Nothing => doing[w] \in Unanswered
    BY DEF TasksInv, TasksPlaced, Running
  <2>5. ASSUME NEW s \in Searcher, NEW i \in DOMAIN asked[s]
        PROVE  TaskPlaces(s, i) = IF i <= sent[s] /\ got[s][i] = Nothing THEN 1 ELSE 0
    <3> DEFINE t == <<s, i>>
               Q == {j \in DOMAIN tasks : tasks[j] = <<s, i>>}
               R == {w \in Worker : doing[w] = <<s, i>>}
    <3>1. i \in Nat \ {0}
      BY BatchPlaces DEF TasksInv, CallsTyped
    <3>2. t \in Searcher \X Nat /\ t # Nothing /\ t[1] = s /\ t[2] = i
      BY <3>1, NothingApart
    <3>3. t \in Unanswered <=> i <= sent[s] /\ got[s][i] = Nothing
      BY <3>1, <3>2 DEF Unanswered, TasksInv, CallsTyped
    <3>4. t \in Queued <=> Q # {}
      BY <2>1 DEF Queued
    <3>5. t \in Running <=> R # {}
      BY <3>2 DEF Running
    <3>6. Cardinality(Q) = IF Q = {} THEN 0 ELSE 1
      <4>1. \A x, y \in Q : x = y
        BY <2>1 DEF TasksInv, TasksPlaced, Distinct
      <4> QED BY <4>1, AtMostOne
    <3>7. Cardinality(R) = IF R = {} THEN 0 ELSE 1
      <4>1. \A x, y \in R : x = y
        BY <3>2 DEF TasksInv, TasksPlaced
      <4> QED BY <4>1, AtMostOne
    <3>8. (t \in Unanswered <=> t \in Queued \/ t \in Running) /\ ~(t \in Queued /\ t \in Running)
      BY DEF TasksInv, TasksPlaced
    <3>9. TaskPlaces(s, i) = Cardinality(Q) + Cardinality(R)
      BY DEF TaskPlaces
    <3> HIDE DEF t, Q, R
    <3> QED BY <3>3, <3>4, <3>5, <3>6, <3>7, <3>8, <3>9
  <2> QED BY <2>2, <2>3, <2>4, <2>5 DEF TasksAccounted
<1> QED
  BY <1>1, <1>2, <1>3, PTL DEF Spec

-----------------------------------------------------------------------------
(* Types.                                                                  *)

CacheTyped == \A k \in DOMAIN cache : \A i \in DOMAIN cache[k] : cache[k][i] \in Result

WritesTyped ==
    /\ role \in Roles /\ asleep \subseteq Worker
    /\ settled \in 0 .. MaxVersion
    /\ modified \in BOOLEAN
    /\ wpc \in [Writer -> {"idle", "applied", "flagged", "invalidates"}]
    /\ made \in [Writer -> 0 .. MaxVersion]

\* What is cached was in the futures of a call.
LEMMA CacheTypedStep ==
    ASSUME TasksInv, CacheTyped, [Next]_vars
    PROVE  CacheTyped'
<1>1. ASSUME NEW s \in Searcher, StoreResults(s) PROVE CacheTyped'
  <2>1. \A i \in DOMAIN got[s] : got[s][i] \in Result
    BY <1>1 DEF StoreResults, TasksInv, CallsTyped
  <2>2. PICK x : x = BatchKey(asked[s])
    OBVIOUS
  <2>3. \A k \in DOMAIN cache' : cache'[k] = got[s] \/ (k \in DOMAIN cache /\ cache'[k] = cache[k])
    BY <1>1, <2>2 DEF StoreResults, Store
  <2>4. \A k \in DOMAIN cache' : \A i \in DOMAIN cache'[k] : cache'[k][i] \in Result
    BY <2>1, <2>3 DEF CacheTyped
  <2> QED BY <2>4 DEF CacheTyped, Result, Request
<1>2. ASSUME DOMAIN cache' = {} PROVE CacheTyped'
  BY <1>2 DEF CacheTyped
<1>3. ASSUME UNCHANGED cache PROVE CacheTyped'
  BY <1>3 DEF CacheTyped, Result, Request
<1>4. ASSUME NEW s, NEW b, Hit(s, b) \/ Miss(s, b) PROVE CacheTyped'
  BY <1>3, <1>4 DEF Hit, Touch, Miss, lru
<1>5. ASSUME NEW s, EnqueueTask(s) PROVE CacheTyped'
  BY <1>3, <1>5 DEF EnqueueTask, lru
<1>6. ASSUME NEW w, WorkerStep(w) PROVE CacheTyped'
  BY <1>3, <1>6 DEF WorkerStep, Sleep, Take, RunTask, lru
<1>7. ASSUME NEW w, ApplyWrite(w) \/ WriterStep(w) PROVE CacheTyped'
  BY <1>2, <1>3, <1>7 DEF ApplyWrite, WriterStep, SetModifiedFlag, ReadModifiedFlag, Invalidate, InvalidateAll, lru
<1>8. CASE SyncClearsFlag \/ ApplyWALEntry \/ UNCHANGED vars
  BY <1>3, <1>8 DEF SyncClearsFlag, ApplyWALEntry, vars, lru
<1> QED BY <1>1, <1>4, <1>5, <1>6, <1>7, <1>8 DEF Next, SearcherStep

\* Writers, workers and the engine keep their types.
LEMMA WritesTypedStep ==
    ASSUME TasksInv, WritesTyped, [Next]_vars
    PROVE  WritesTyped'
<1>1. MaxVersion \in Nat /\ version \in 0 .. MaxVersion
  BY ConstantsAssumption DEF TasksInv, ConstantsAssumption
<1>2. ASSUME NEW s, NEW b, Hit(s, b) \/ Miss(s, b) PROVE WritesTyped'
  BY <1>2 DEF WritesTyped, Hit, Miss, pool, writes
<1>3. ASSUME NEW s, SearcherStep(s) PROVE WritesTyped'
  BY <1>3 DEF WritesTyped, SearcherStep, EnqueueTask, StoreResults, pool, writes
<1>4. ASSUME NEW w \in Worker, WorkerStep(w) PROVE WritesTyped'
  BY <1>4 DEF WritesTyped, WorkerStep, Sleep, Take, RunTask, pool, writes
<1>5. ASSUME NEW w \in Writer, ApplyWrite(w) \/ SetModifiedFlag(w) PROVE WritesTyped'
  <2>1. UNCHANGED <<role, asleep, settled>>
    BY <1>5 DEF ApplyWrite, SetModifiedFlag, pool
  <2>2. wpc' = [wpc EXCEPT ![w] = "applied"] \/ wpc' = [wpc EXCEPT ![w] = "flagged"]
    BY <1>5 DEF ApplyWrite, SetModifiedFlag
  <2>3. made' = made \/ (version + 1 \in 0 .. MaxVersion /\ made' = [made EXCEPT ![w] = version + 1])
    BY <1>1, <1>5 DEF ApplyWrite, SetModifiedFlag
  <2>4. modified' = modified \/ modified' = TRUE
    BY <1>5 DEF ApplyWrite, SetModifiedFlag
  <2> QED BY <2>1, <2>2, <2>3, <2>4 DEF WritesTyped
<1>6. ASSUME NEW w \in Writer, ReadModifiedFlag(w) \/ Invalidate(w) PROVE WritesTyped'
  <2>1. UNCHANGED <<role, asleep, modified>>
    BY <1>6 DEF ReadModifiedFlag, Invalidate, pool
  <2>2. wpc' = [wpc EXCEPT ![w] = "idle"] \/ wpc' = [wpc EXCEPT ![w] = "invalidates"]
    BY <1>6 DEF ReadModifiedFlag, Invalidate, Answered
  <2>3. made' = made \/ made' = [made EXCEPT ![w] = 0]
    BY <1>6 DEF ReadModifiedFlag, Invalidate, Answered
  <2>4. settled' = settled \/ settled' = made[w]
    BY <1>6 DEF ReadModifiedFlag, Invalidate, Answered
  <2>5. 0 \in 0 .. MaxVersion
    BY <1>1
  <2> QED BY <2>1, <2>2, <2>3, <2>4, <2>5 DEF WritesTyped
<1>7. CASE SyncClearsFlag \/ ApplyWALEntry \/ UNCHANGED vars
  <2>1. UNCHANGED <<role, asleep, wpc, made>>
    BY <1>7 DEF SyncClearsFlag, ApplyWALEntry, vars, pool, writes
  <2>2. modified' = modified \/ modified' = FALSE
    BY <1>7 DEF SyncClearsFlag, ApplyWALEntry, vars, writes
  <2>3. settled' = settled \/ (version + 1 \in 0 .. MaxVersion /\ settled' = version + 1)
    BY <1>1, <1>7 DEF SyncClearsFlag, ApplyWALEntry, vars, writes
  <2> QED BY <2>1, <2>2, <2>3 DEF WritesTyped
<1> QED BY <1>2, <1>3, <1>4, <1>5, <1>6, <1>7 DEF Next, WriterStep

\* Every variable stays in its set, for any values of the constants.
THEOREM TypeCorrect == Spec => []TypeOK
<1> DEFINE Inv == TasksInv /\ AnswersInv /\ OrderInv /\ CacheTyped /\ WritesTyped
<1>1. Init => Inv
  <2>1. Init => CacheTyped
    BY DEF Init, CacheTyped
  <2>2. Init => WritesTyped
    <3>1. 0 \in 0 .. MaxVersion
      BY ConstantsAssumption DEF ConstantsAssumption
    <3> QED BY <3>1 DEF Init, WritesTyped
  <2> QED BY <2>1, <2>2, TasksInit, CacheInit
<1>2. Inv /\ [Next]_vars => Inv'
  BY TasksStep, AnswersStep, OrderStep, CacheTypedStep, WritesTypedStep
<1>3. Inv => TypeOK
  <2> SUFFICES ASSUME Inv PROVE TypeOK
    OBVIOUS
  <2>1. \A s \in Searcher : /\ sent[s] \in 0 .. Len(asked[s])
                            /\ got[s] \in [DOMAIN asked[s] -> Result \cup {Nothing}]
    BY BatchPlaces DEF TasksInv, CallsTyped
  <2>2. /\ \A i \in DOMAIN tasks : tasks[i] \in Searcher \X Nat
        /\ \A w \in Worker : doing[w] = Nothing \/ doing[w] \in Searcher \X Nat
    BY DEF TasksInv, TasksPlaced
  <2>3. /\ DOMAIN cache \subseteq Key
        /\ \A i \in DOMAIN keys : keys[i] \in Key
    BY DEF OrderInv, KeysOf
  <2> QED BY <2>1, <2>2, <2>3 DEF TypeOK, TasksInv, CallsTyped, CacheTyped, WritesTyped
<1> QED
  BY <1>1, <1>2, <1>3, PTL DEF Spec
=============================================================================
