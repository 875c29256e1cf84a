-------------------------- MODULE Recursion_proofs --------------------------
(***************************************************************************)
(* Recursion and induction for the models that compute: a search, a fold   *)
(* over a list, a descent through levels.  Everything is stated with sets  *)
(* and functions and no operator parameter, so that a step can cite it by  *)
(* name.                                                                   *)
(***************************************************************************)
EXTENDS Integers, FiniteSetTheorems, TLAPS, WellFoundedInduction

-----------------------------------------------------------------------------
(* Induction.                                                              *)

\* Every set of numbers has a least one.
LEMMA LeastNumber ==
    ASSUME NEW T \in SUBSET Nat, T # {}
    PROVE  \E x \in T : \A y \in T : x <= y
<1>1. \E x \in T : \A y \in T : ~ (<<y, x>> \in OpToRel(<, Nat))
  BY NatLessThanWellFounded, WFMin, Zenon
<1>2. PICK x \in T : \A y \in T : ~ (<<y, x>> \in OpToRel(<, Nat))
  BY <1>1
<1>3. ASSUME NEW y \in T PROVE x <= y
  <2>1. ~ (<<y, x>> \in OpToRel(<, Nat))
    BY <1>2
  <2>2. ~ (y < x)
    BY <2>1, Zenon DEF OpToRel
  <2> QED BY <2>2
<1> QED BY <1>3

\* Induction, with a set in the place of a predicate.
LEMMA Numbers ==
    ASSUME NEW T \in SUBSET Nat, 0 \in T, \A n \in T : n + 1 \in T
    PROVE  T = Nat
<1> SUFFICES ASSUME Nat \ T # {} PROVE FALSE
  OBVIOUS
<1>1. PICK x \in Nat \ T : \A y \in Nat \ T : x <= y
  BY LeastNumber
<1>2. x # 0 /\ x - 1 \in Nat /\ x - 1 \in T
  BY <1>1
<1> QED BY <1>2

\* A set that has an element has one of least measure.
LEMMA LeastMeasure ==
    ASSUME NEW D, NEW mu \in [D -> Nat], NEW B \in SUBSET D, B # {}
    PROVE  \E f \in B : \A b \in B : mu[f] <= mu[b]
<1> DEFINE T == {mu[f] : f \in B}
<1>1. T \in SUBSET Nat /\ T # {}
  OBVIOUS
<1>2. PICK x \in T : \A y \in T : x <= y
  BY <1>1, LeastNumber
<1> QED BY <1>2

-----------------------------------------------------------------------------
(* Linear recursion: r[f] is a result when f is a place to stop, and is    *)
(* otherwise made from r[next[f]], where the measure is smaller.           *)

\* The measure gets smaller at every place where the recursion goes on.
Descending(D, mu, stop, next) ==
    /\ mu \in [D -> Nat]
    /\ stop \in SUBSET D
    /\ next \in [D \ stop -> D]
    /\ \A f \in D \ stop : mu[next[f]] < mu[f]

\* Results are in A.
Yielding(D, A, stop, out, comb) == out \in [stop -> A] /\ comb \in [D \X A -> A]

Linear(f, g, stop, next, out, comb) ==
    IF f \in stop THEN out[f] ELSE comb[f, g[next[f]]]

\* Such a function exists: what CHOOSE returns in a recursive definition is
\* what the definition says.
LEMMA LinearRecursion ==
    ASSUME NEW D, NEW A, NEW mu, NEW stop, NEW next, NEW out, NEW comb,
           Descending(D, mu, stop, next), Yielding(D, A, stop, out, comb)
    PROVE  \E r \in [D -> A] : \A f \in D : r[f] = Linear(f, r, stop, next, out, comb)
<1> DEFINE Below(n) == {f \in D : mu[f] < n}
           Good(n) == {g \in [Below(n) -> A] :
                          \A f \in Below(n) : g[f] = Linear(f, g, stop, next, out, comb)}
<1> USE DEF Descending, Yielding
<1>1. ASSUME NEW n \in Nat, NEW f \in Below(n + 1), f \notin stop
      PROVE  next[f] \in Below(n)
  BY <1>1
<1>2. \A n \in Nat : Good(n) # {}
  <2> DEFINE T == {n \in Nat : Good(n) # {}}
  <2>1. 0 \in T
    <3>1. Below(0) = {}
      OBVIOUS
    <3>2. [f \in {} |-> out[f]] \in Good(0)
      BY <3>1
    <3> QED BY <3>2
  <2>2. ASSUME NEW n \in T PROVE n + 1 \in T
    <3>1. PICK g : g \in Good(n)
      OBVIOUS
    <3> DEFINE h == [f \in Below(n + 1) |-> Linear(f, g, stop, next, out, comb)]
    <3>2. \A f \in Below(n + 1) : Linear(f, g, stop, next, out, comb) \in A
      BY <1>1, <3>1 DEF Linear
    <3>3. h \in [Below(n + 1) -> A]
      BY <3>2
    <3>4. \A f \in Below(n) : f \in Below(n + 1) /\ h[f] = g[f]
      BY <3>1
    <3>5. ASSUME NEW f \in Below(n + 1) PROVE h[f] = Linear(f, h, stop, next, out, comb)
      <4>1. h[f] = Linear(f, g, stop, next, out, comb)
        OBVIOUS
      <4>2. f \notin stop => g[next[f]] = h[next[f]]
        BY <1>1, <3>4
      <4> HIDE DEF h, Good, Below
      <4> QED BY <4>1, <4>2 DEF Linear
    <3>6. h \in Good(n + 1)
      <4> HIDE DEF h, Below
      <4> QED BY <3>3, <3>5
    <3>7. Good(n + 1) # {} /\ n + 1 \in Nat
      <4> HIDE DEF h, Good
      <4> QED BY <3>6
    <3> HIDE DEF Good
    <3> QED BY <3>7
  <2>3. T = Nat
    <3>1. T \in SUBSET Nat
      OBVIOUS
    <3> HIDE DEF T
    <3> QED BY <2>1, <2>2, <3>1, Numbers
  <2> QED BY <2>3
<1>3. ASSUME NEW n \in Nat, NEW m \in Nat, NEW g \in Good(n), NEW h \in Good(m),
             NEW f \in Below(n) \cap Below(m)
      PROVE  g[f] = h[f]
  <2> DEFINE B == {b \in Below(n) \cap Below(m) : g[b] # h[b]}
  <2> SUFFICES ASSUME B # {} PROVE FALSE
    OBVIOUS
  <2>0. B \in SUBSET D
    OBVIOUS
  <2>1. PICK b \in B : \A c \in B : mu[b] <= mu[c]
    <3> HIDE DEF B
    <3> QED BY <2>0, LeastMeasure
  <2>2. g[b] = Linear(b, g, stop, next, out, comb) /\ h[b] = Linear(b, h, stop, next, out, comb)
    OBVIOUS
  <2>3. b \notin stop
    BY <2>2 DEF Linear
  <2>4. mu[next[b]] < mu[b] /\ next[b] \in Below(n) \cap Below(m)
    BY <2>3
  <2>5. g[next[b]] = h[next[b]]
    BY <2>1, <2>4
  <2> QED BY <2>2, <2>3, <2>5 DEF Linear
<1> DEFINE Pick(n) == CHOOSE g : g \in Good(n)
           r == [f \in D |-> Pick(mu[f] + 1)[f]]
<1>4. \A n \in Nat : Pick(n) \in Good(n)
  BY <1>2
<1>5. \A f \in D : f \in Below(mu[f] + 1)
  OBVIOUS
<1>6. ASSUME NEW f \in D
      PROVE  /\ Pick(mu[f] + 1) \in [Below(mu[f] + 1) -> A]
             /\ Pick(mu[f] + 1)[f] = Linear(f, Pick(mu[f] + 1), stop, next, out, comb)
  <2>1. mu[f] + 1 \in Nat
    OBVIOUS
  <2>2. Pick(mu[f] + 1) \in Good(mu[f] + 1)
    <3> HIDE DEF Pick, Good
    <3> QED BY <1>4, <2>1
  <2> HIDE DEF Pick, Below
  <2> QED BY <1>5, <2>2
<1>7. \A f \in D : r[f] = Pick(mu[f] + 1)[f]
  <2> HIDE DEF Pick
  <2> QED OBVIOUS
<1>8. r \in [D -> A]
  <2> HIDE DEF Pick, Below
  <2> QED BY <1>5, <1>6
<1>9. ASSUME NEW f \in D PROVE r[f] = Linear(f, r, stop, next, out, comb)
  <2>1. ASSUME f \notin stop PROVE Pick(mu[f] + 1)[next[f]] = r[next[f]]
    <3>1. next[f] \in D /\ next[f] \in Below(mu[f] + 1) /\ next[f] \in Below(mu[next[f]] + 1)
      BY <2>1
    <3>2. r[next[f]] = Pick(mu[next[f]] + 1)[next[f]]
      BY <1>7, <3>1
    <3>3. mu[f] + 1 \in Nat /\ mu[next[f]] + 1 \in Nat
      BY <3>1
    <3>4. next[f] \in Below(mu[f] + 1) \cap Below(mu[next[f]] + 1)
      BY <3>1
    <3>5. Pick(mu[f] + 1) \in Good(mu[f] + 1) /\ Pick(mu[next[f]] + 1) \in Good(mu[next[f]] + 1)
      <4> HIDE DEF Pick, Good
      <4> QED BY <1>4, <3>3
    <3> HIDE DEF Pick, Good, Below, r
    <3> QED BY <1>3, <3>2, <3>3, <3>4, <3>5
  <2> HIDE DEF r, Pick
  <2> QED BY <1>6, <1>7, <2>1 DEF Linear
<1> HIDE DEF r
<1> QED BY <1>8, <1>9

\* A recursion that only goes on returns what it finds where it stops, and
\* what holds of each place on the way holds there.
LEMMA TailInvariant ==
    ASSUME NEW D, NEW mu, NEW stop, NEW next, Descending(D, mu, stop, next),
           NEW r, NEW out, \A f \in D : r[f] = IF f \in stop THEN out[f] ELSE r[next[f]],
           NEW Pre \in SUBSET D, \A f \in Pre \ stop : next[f] \in Pre,
           NEW start \in Pre
    PROVE  \E e \in Pre \cap stop : r[start] = out[e]
<1> USE DEF Descending
<1> DEFINE B == {f \in Pre : ~ \E e \in Pre \cap stop : r[f] = out[e]}
<1> SUFFICES ASSUME B # {} PROVE FALSE
  OBVIOUS
<1>1. PICK b \in B : \A c \in B : mu[b] <= mu[c]
  BY LeastMeasure
<1>2. b \notin stop
  OBVIOUS
<1>3. mu[next[b]] < mu[b] /\ next[b] \in Pre /\ r[b] = r[next[b]]
  BY <1>2
<1>4. next[b] \notin B
  BY <1>1, <1>3
<1> QED BY <1>3, <1>4

-----------------------------------------------------------------------------
(* Folding over 1 .. n from the right: FoldLeft of SequencesExt is a       *)
(* recursion over sets of positions that takes the greatest one off.       *)

Greatest(s) == CHOOSE x \in s : \A y \in s : x >= y

LEMMA GreatestOf ==
    ASSUME NEW n \in Nat, NEW s \in SUBSET (1 .. n), s # {}
    PROVE  Greatest(s) \in s /\ \A i \in s : i <= Greatest(s)
<1> DEFINE down == [i \in s |-> n - i]
<1>1. down \in [s -> Nat]
  OBVIOUS
<1>2. PICK i \in s : \A j \in s : down[i] <= down[j]
  <2> HIDE DEF down
  <2> QED BY <1>1, LeastMeasure
<1>3. \E x \in s : \A y \in s : x >= y
  BY <1>2
<1> QED BY <1>3 DEF Greatest

\* I folds f, starting from base, wherever what it has so far is in A.
Folds(I, n, A, base, f) ==
    /\ I[{}] = base
    /\ \A s \in SUBSET (1 .. n) :
          s # {} /\ I[s \ {Greatest(s)}] \in A
             => I[s] = f[Greatest(s)][I[s \ {Greatest(s)}]]

LEMMA FoldExists ==
    ASSUME NEW n \in Nat, NEW A, NEW base \in A, NEW f \in [1 .. n -> [A -> A]]
    PROVE  \E r \in [SUBSET (1 .. n) -> A] : Folds(r, n, A, base, f)
<1> DEFINE D == SUBSET (1 .. n)
           stop == {{}}
           next == [s \in D \ stop |-> s \ {Greatest(s)}]
           mu == [s \in D |-> Cardinality(s)]
           out == [s \in stop |-> base]
           One(s, a) == IF s = {} THEN a ELSE f[Greatest(s)][a]
           comb == [sa \in D \X A |-> One(sa[1], sa[2])]
<1>1. \A s \in D : IsFiniteSet(s) /\ Cardinality(s) \in Nat
  <2>1. IsFiniteSet(1 .. n)
    BY FS_Interval
  <2> QED BY <2>1, FS_Subset, FS_CardinalityType
<1>2. ASSUME NEW s \in D \ stop
      PROVE  /\ next[s] = s \ {Greatest(s)} /\ next[s] \in D
             /\ Greatest(s) \in 1 .. n /\ mu[next[s]] < mu[s]
  <2>1. Greatest(s) \in s /\ Greatest(s) \in 1 .. n /\ s \ {Greatest(s)} \in D /\ s \in D
    BY GreatestOf
  <2>2. Cardinality(s \ {Greatest(s)}) = Cardinality(s) - 1
    BY <1>1, <2>1, FS_RemoveElement
  <2> QED BY <1>1, <2>1, <2>2
<1>3. Descending(D, mu, stop, next)
  <2>1. mu \in [D -> Nat] /\ stop \in SUBSET D
    BY <1>1
  <2>2. next \in [D \ stop -> D]
    BY <1>2
  <2> HIDE DEF D, mu, stop, next
  <2> QED BY <1>2, <2>1, <2>2 DEF Descending
<1>4. Yielding(D, A, stop, out, comb)
  <2>1. ASSUME NEW s \in D, NEW a \in A PROVE One(s, a) \in A
    <3>1. s # {} => Greatest(s) \in 1 .. n
      BY <1>2
    <3>2. s # {} => f[Greatest(s)] \in [A -> A]
      BY <3>1
    <3> QED BY <3>2
  <2>2. comb \in [D \X A -> A]
    <3> HIDE DEF D, One
    <3> QED BY <2>1
  <2> HIDE DEF comb, D
  <2> QED BY <2>2 DEF Yielding
<1>5. PICK r \in [D -> A] : \A s \in D : r[s] = Linear(s, r, stop, next, out, comb)
  <2> HIDE DEF D, stop, next, mu, out, comb, One
  <2> QED BY <1>3, <1>4, LinearRecursion
<1>6. r[{}] = base
  BY <1>5 DEF Linear
<1>7. ASSUME NEW s \in D, s # {} PROVE r[s] = f[Greatest(s)][r[s \ {Greatest(s)}]]
  <2>1. s \notin stop /\ next[s] = s \ {Greatest(s)} /\ s \ {Greatest(s)} \in D
    BY <1>7
  <2>2. r[s] = comb[s, r[s \ {Greatest(s)}]]
    <3> HIDE DEF next, stop, comb, D
    <3> QED BY <1>5, <2>1 DEF Linear
  <2>3. <<s, r[s \ {Greatest(s)}]>> \in D \X A
    BY <2>1
  <2>4. comb[s, r[s \ {Greatest(s)}]] = One(s, r[s \ {Greatest(s)}])
    <3> HIDE DEF D, One
    <3> QED BY <2>3
  <2> HIDE DEF comb, D
  <2> QED BY <1>7, <2>2, <2>4
<1> QED BY <1>6, <1>7 DEF Folds

\* A fold takes the positions in order.
InOrder(acc, n, base, f) ==
    acc[0] = base /\ \A i \in 1 .. n : acc[i] = f[i][acc[i - 1]]

LEMMA FoldInOrder ==
    ASSUME NEW n \in Nat, NEW A, NEW base \in A, NEW f \in [1 .. n -> [A -> A]],
           NEW I, Folds(I, n, A, base, f)
    PROVE  \E acc \in [0 .. n -> A] : InOrder(acc, n, base, f) /\ I[1 .. n] = acc[n]
<1>1. ASSUME NEW i \in 1 .. n, I[1 .. i - 1] \in A
      PROVE  I[1 .. i] = f[i][I[1 .. i - 1]] /\ I[1 .. i] \in A
  <2>1. 1 .. i \in SUBSET (1 .. n) /\ i \in 1 .. i /\ 1 .. i # {} /\ (1 .. i) \ {i} = 1 .. i - 1
    OBVIOUS
  <2>2. Greatest(1 .. i) \in 1 .. i /\ i <= Greatest(1 .. i)
    BY <2>1, GreatestOf
  <2>3. Greatest(1 .. i) = i
    BY <2>2
  <2>4. f[i] \in [A -> A]
    OBVIOUS
  <2>5. I[1 .. i] = f[i][I[1 .. i - 1]]
    BY <1>1, <2>1, <2>3 DEF Folds
  <2> QED BY <1>1, <2>4, <2>5
<1>2. 1 .. 0 = {} /\ I[1 .. 0] = base
  <2>1. 1 .. 0 = {}
    OBVIOUS
  <2> QED BY <2>1 DEF Folds
<1> DEFINE T == {i \in Nat : i <= n => I[1 .. i] \in A}
<1>3. T = Nat
  <2>1. 0 \in T
    BY <1>2
  <2>2. ASSUME NEW i \in T PROVE i + 1 \in T
    <3>1. ASSUME i + 1 <= n PROVE I[1 .. i + 1] \in A
      <4>1. i + 1 \in 1 .. n /\ (i + 1) - 1 = i /\ I[1 .. i] \in A
        BY <3>1
      <4> HIDE DEF T
      <4> QED BY <1>1, <4>1
    <3> QED BY <3>1
  <2>3. T \in SUBSET Nat
    OBVIOUS
  <2> HIDE DEF T
  <2> QED BY <2>1, <2>2, <2>3, Numbers
<1> DEFINE acc == [i \in 0 .. n |-> I[1 .. i]]
<1>4. acc \in [0 .. n -> A]
  BY <1>3
<1>5. InOrder(acc, n, base, f) /\ I[1 .. n] = acc[n]
  <2>1. \A i \in 1 .. n : acc[i] = I[1 .. i] /\ acc[i - 1] = I[1 .. i - 1] /\ acc[i - 1] \in A
    BY <1>4
  <2>2. \A i \in 1 .. n : acc[i] = f[i][acc[i - 1]]
    <3> HIDE DEF acc
    <3> QED BY <1>1, <2>1
  <2>3. acc[0] = base /\ I[1 .. n] = acc[n]
    BY <1>2
  <2> HIDE DEF acc
  <2> QED BY <2>2, <2>3 DEF InOrder
<1> QED BY <1>4, <1>5
=============================================================================
