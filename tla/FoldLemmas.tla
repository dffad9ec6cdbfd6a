----------------------------- MODULE FoldLemmas ------------------------------
(***************************************************************************)
(* Numbers, finite sets, and functions defined by recursion: along a walk, *)
(* as the scanners are, or over the subsets of a finite set, as the folds  *)
(* of the community modules are.                                           *)
(***************************************************************************)
EXTENDS Integers, Sequences, SequencesExt, FiniteSets, FiniteSetTheorems,
        WellFoundedInduction, TLAPS

-----------------------------------------------------------------------------
(* Numbers.                                                                *)

\* A set of naturals has a least element.
LEMMA LeastNat ==
    ASSUME NEW S \in SUBSET Nat, S # {}
    PROVE  \E x \in S : \A y \in S : x <= y
<1>1. \E x \in S : \A y \in S : ~(<<y, x>> \in OpToRel(<, Nat))
  BY WFMin, NatLessThanWellFounded, Zenon
<1>2. PICK x \in S : \A y \in S : ~(<<y, x>> \in OpToRel(<, Nat))
  BY <1>1
<1>3. \A y \in S : ~(y < x)
  BY <1>2 DEF OpToRel
<1> QED
  BY <1>3

\* A bounded one has a greatest.
LEMMA GreatestOfBounded ==
    ASSUME NEW n \in Nat, NEW S \in SUBSET (0..n), S # {}
    PROVE  \E x \in S : \A y \in S : y <= x
<1> DEFINE T == {n - x : x \in S}
<1>1. T \in SUBSET Nat /\ T # {}
  <2>1. \A x \in S : n - x \in Nat
    OBVIOUS
  <2> QED
    BY <2>1
<1>2. PICK t \in T : \A u \in T : t <= u
  BY <1>1, LeastNat
<1>3. PICK x \in S : t = n - x
  BY <1>2
<1>4. \A y \in S : n - x <= n - y
  BY <1>2, <1>3
<1>5. \A y \in S : y <= x
  BY <1>4, S \subseteq Int
<1> QED
  BY <1>5

\* Induction: a set that holds 0 and is closed under successor holds Nat.
LEMMA SetInduction ==
    ASSUME NEW S, 0 \in S, \A n \in Nat : n \in S => n + 1 \in S
    PROVE  Nat \subseteq S
<1> SUFFICES ASSUME Nat \ S # {} PROVE FALSE
  OBVIOUS
<1>1. PICK m \in Nat \ S : \A y \in Nat \ S : m <= y
  BY LeastNat
<1>2. m - 1 \in Nat /\ m - 1 < m
  BY <1>1
<1>3. m - 1 \in S
  BY <1>1, <1>2
<1> QED
  BY <1>1, <1>2, <1>3

\* What holds past n, and of a number when of all greater ones, holds of Nat.
LEMMA Backwards ==
    ASSUME NEW n \in Nat, NEW S,
           \A i \in Nat : i > n => i \in S,
           \A i \in Nat : i <= n /\ (\A j \in Nat : i < j => j \in S) => i \in S
    PROVE  Nat \subseteq S
<1> SUFFICES ASSUME Nat \ S # {} PROVE FALSE
  OBVIOUS
<1>1. Nat \ S \in SUBSET (0..n)
  OBVIOUS
<1>2. PICK x \in Nat \ S : \A y \in Nat \ S : y <= x
  BY <1>1, GreatestOfBounded
<1>3. x <= n /\ \A j \in Nat : x < j => j \in S
  BY <1>1, <1>2
<1> QED
  BY <1>2, <1>3

\* One function on S for each of k steps.
StepsOver(g, k, S) == g \in [1..k -> [S -> S]]

\* f starts at x and takes each step from the value before it.
IsIteration(f, k, S, x, g) ==
    /\ f \in [0..k -> S]
    /\ f[0] = x
    /\ \A n \in 1..k : f[n] = g[n][f[n - 1]]

\* There is such an iteration.
LEMMA IndexedIterationExists ==
    ASSUME NEW S, NEW x \in S, NEW k \in Nat, NEW g, StepsOver(g, k, S)
    PROVE  \E f : IsIteration(f, k, S, x, g)
<1> USE DEF StepsOver, IsIteration
<1> DEFINE Iterates(f, m) == f[0] = x /\ \A n \in 1..m : f[n] = g[n][f[n - 1]]
           Upto == {m \in Nat : m <= k => \E f \in [0..m -> S] : Iterates(f, m)}
<1>1. 0 \in Upto
  <2>1. [n \in 0..0 |-> x] \in [0..0 -> S] /\ Iterates([n \in 0..0 |-> x], 0)
    OBVIOUS
  <2> QED
    BY <2>1
<1>2. ASSUME NEW m \in Nat, m \in Upto PROVE m + 1 \in Upto
  <2> SUFFICES ASSUME m + 1 <= k PROVE \E f \in [0..(m + 1) -> S] : Iterates(f, m + 1)
    OBVIOUS
  <2>1. PICK f \in [0..m -> S] : Iterates(f, m)
    BY <1>2
  <2>4. f[m] \in S /\ m + 1 \in 1..k
    OBVIOUS
  <2>5. g[m + 1][f[m]] \in S
    BY <2>4
  <2> DEFINE h == [n \in 0..(m + 1) |-> IF n <= m THEN f[n] ELSE g[m + 1][f[m]]]
  <2>2. h \in [0..(m + 1) -> S]
    BY <2>5
  <2>3. Iterates(h, m + 1)
    <3>1. h[0] = x
      BY <2>1
    <3>2. ASSUME NEW n \in 1..(m + 1) PROVE h[n] = g[n][h[n - 1]]
      <4>1. h[n - 1] = f[n - 1]
        OBVIOUS
      <4>2. CASE n <= m
        <5>1. h[n] = f[n] /\ n \in 1..m
          BY <4>2
        <5>2. f[n] = g[n][f[n - 1]]
          BY <2>1, <5>1, Zenon
        <5> QED
          BY <4>1, <5>1, <5>2, Zenon
      <4>3. CASE n = m + 1
        <5>1. h[n] = g[m + 1][f[m]] /\ n - 1 = m
          BY <4>3
        <5> QED
          BY <4>1, <4>3, <5>1, Zenon
      <4> QED
        BY <4>2, <4>3
    <3> QED
      BY <3>1, <3>2
  <2> QED
    <3> HIDE DEF h, Iterates
    <3> QED BY <2>2, <2>3
<1>3. Nat \subseteq Upto
  <2> HIDE DEF Upto
  <2> QED BY <1>1, <1>2, SetInduction
<1> QED
  BY <1>3

\* The same, where g is the same at each.
LEMMA IterationExists ==
    ASSUME NEW S, NEW x \in S, NEW g \in [S -> S], NEW k \in Nat
    PROVE  \E f \in [0..k -> S] : f[0] = x /\ \A n \in 1..k : f[n] = g[f[n - 1]]
<1>1. PICK h : h = [n \in 1..k |-> g]
  OBVIOUS
<1>2. StepsOver(h, k, S)
  BY <1>1 DEF StepsOver
<1>3. \A n \in 1..k : h[n] = g
  BY <1>1
<1>4. PICK f : IsIteration(f, k, S, x, h)
  BY <1>2, IndexedIterationExists
<1> QED
  BY <1>3, <1>4 DEF IsIteration

\* What a sequence of elements of S is.
LEMMA SeqIs ==
    ASSUME NEW S, NEW s \in Seq(S)
    PROVE  Len(s) \in Nat /\ DOMAIN s = 1..Len(s) /\ \A k \in 1..Len(s) : s[k] \in S
OBVIOUS

\* A sequence is of the set that holds its elements.
LEMMA SeqNarrows ==
    ASSUME NEW S, NEW T, NEW s, s \in Seq(S), \A k \in 1..Len(s) : s[k] \in T
    PROVE  s \in Seq(T)
OBVIOUS

\* c is s and then t.
Concatenates(c, s, t) ==
    /\ Len(c) = Len(s) + Len(t)
    /\ \A k \in 1..Len(s) : c[k] = s[k]
    /\ \A k \in 1..Len(t) : c[Len(s) + k] = t[k]

LEMMA ConcatIs ==
    ASSUME NEW S, NEW s \in Seq(S), NEW t \in Seq(S)
    PROVE  s \o t \in Seq(S) /\ Concatenates(s \o t, s, t)
<1>1. s \o t \in Seq(S) /\ Len(s \o t) = Len(s) + Len(t)
  OBVIOUS
<1>2. \A k \in 1..Len(s) : (s \o t)[k] = s[k]
  OBVIOUS
<1>3. \A k \in 1..Len(t) : (s \o t)[Len(s) + k] = t[k]
  OBVIOUS
<1> QED
  BY <1>1, <1>2, <1>3 DEF Concatenates

\* What FlattenSeq computes: each prefix of the sequences, end to end.
LEMMA FlattenIs ==
    ASSUME NEW S, NEW seqs, seqs \in Seq(Seq(S))
    PROVE  \E f \in [0..Len(seqs) -> Seq(S)] :
               /\ f[0] = << >>
               /\ \A n \in 1..Len(seqs) : f[n] = f[n - 1] \o seqs[n]
               /\ FlattenSeq(seqs) = f[Len(seqs)]
<1> DEFINE K == Len(seqs)
           Steps(f) == [i \in 1..K |-> IF i = 1 THEN seqs[i] ELSE f[i - 1] \o seqs[i]]
           flatten == CHOOSE f : f = Steps(f)
<1>0. K \in Nat
  OBVIOUS
<1>1. \A n \in 1..K : seqs[n] \in Seq(S)
  OBVIOUS
<1>2. PICK T : T = Seq(S)
  OBVIOUS
<1>3. PICK g : g = [n \in 1..K |-> [t \in T |-> t \o seqs[n]]]
  OBVIOUS
<1>4. StepsOver(g, K, T)
  BY <1>1, <1>2, <1>3 DEF StepsOver
<1>10. << >> \in Seq(S)
  OBVIOUS
<1>5. PICK e \in T : e = << >>
  BY <1>2, <1>10, Zenon
<1>11. PICK f : IsIteration(f, K, T, e, g)
  <2> HIDE DEF K
  <2> QED BY <1>0, <1>4, IndexedIterationExists
<1>6. f \in [0..K -> T] /\ f[0] = e /\ \A n \in 1..K : f[n] = g[n][f[n - 1]]
  BY <1>11 DEF IsIteration
<1>7. ASSUME NEW n \in 1..K PROVE f[n] = f[n - 1] \o seqs[n] /\ f[n - 1] \in T
  <2>1. n - 1 \in 0..K
    BY <1>0
  <2>2. f[n - 1] \in T
    BY <1>6, <2>1
  <2>3. f[n] = g[n][f[n - 1]]
    <3> HIDE DEF K
    <3> QED BY <1>6
  <2>4. g[n] = [t \in T |-> t \o seqs[n]]
    <3> HIDE DEF K
    <3> QED BY <1>3
  <2> QED
    BY <2>2, <2>3, <2>4
<1>8. ASSUME K # 0 PROVE FlattenSeq(seqs) = f[K]
  <2>1. FlattenSeq(seqs) = flatten[K]
    BY <1>8 DEF FlattenSeq
  <2>2. PICK h : h = [n \in 1..K |-> f[n]]
    OBVIOUS
  <2>3. h = Steps(h)
    <3>1. ASSUME NEW n \in 1..K PROVE f[n] = IF n = 1 THEN seqs[n] ELSE h[n - 1] \o seqs[n]
      <4>1. CASE n = 1
        <5>1. n - 1 = 0
          BY <4>1
        <5>2. f[n] = e \o seqs[n]
          BY <5>1, <1>6, <1>7, Zenon
        <5>3. e \o seqs[n] = seqs[n]
          BY <1>1, <1>5
        <5> QED
          BY <4>1, <5>2, <5>3, Zenon
      <4>2. CASE n # 1
        <5>1. n - 1 \in 1..K
          BY <4>2, <1>0
        <5>2. h[n - 1] = f[n - 1]
          BY <5>1, <2>2
        <5> QED
          BY <4>2, <5>2, <1>7
      <4> QED
        BY <4>1, <4>2
    <3> QED
      <4> HIDE DEF K
      <4> QED BY <2>2, <3>1
  <2>4. flatten = Steps(flatten)
    <3> HIDE DEF Steps
    <3> QED BY <2>3
  <2>5. \A n \in 1..K : flatten[n] = IF n = 1 THEN seqs[n] ELSE flatten[n - 1] \o seqs[n]
    <3> HIDE DEF flatten, K
    <3> QED BY <2>4, Zenon
  <2> DEFINE Same == {n \in Nat : n = 0 \/ n > K \/ flatten[n] = f[n]}
  <2> HIDE DEF flatten
  <2>6. 0 \in Same
    OBVIOUS
  <2>7. ASSUME NEW n \in Nat, n \in Same PROVE n + 1 \in Same
    <3> SUFFICES ASSUME n + 1 <= K PROVE flatten[n + 1] = f[n + 1]
      OBVIOUS
    <3>1. PICK m \in 1..K : m = n + 1 /\ m - 1 = n
      BY <1>0
    <3> HIDE DEF K
    <3>2. seqs[m] \in Seq(S) /\ f[m] = f[n] \o seqs[m]
      BY <1>1, <1>7, <3>1
    <3>3. flatten[m] = IF m = 1 THEN seqs[m] ELSE flatten[n] \o seqs[m]
      BY <2>5, <3>1
    <3>4. CASE n = 0
      <4>1. m = 1
        BY <3>1, <3>4
      <4>2. f[m] = e \o seqs[m] /\ flatten[m] = seqs[m]
        BY <1>6, <4>1, <3>2, <3>3, <3>4, Zenon
      <4>3. e \o seqs[m] = seqs[m]
        BY <1>5, <3>2
      <4> QED
        BY <4>2, <4>3, <3>1, Zenon
    <3>5. CASE n # 0
      <4>1. flatten[n] = f[n]
        BY <2>7, <3>5, <1>0
      <4>2. m # 1
        BY <3>1, <3>5
      <4> QED
        BY <4>1, <4>2, <3>1, <3>2, <3>3, Zenon
    <3> QED
      BY <3>4, <3>5
  <2>8. Nat \subseteq Same
    <3> HIDE DEF Same
    <3> QED BY <2>6, <2>7, SetInduction
  <2>9. K \in Same
    BY <1>0, <2>8
  <2>10. flatten[K] = f[K]
    BY <1>0, <1>8, <2>9
  <2> QED
    BY <2>1, <2>10
<1>9. ASSUME K = 0 PROVE FlattenSeq(seqs) = f[K]
  <2>1. FlattenSeq(seqs) = seqs
    BY <1>9 DEF FlattenSeq
  <2>2. seqs = << >>
    BY <1>9
  <2> QED
    BY <1>5, <1>6, <1>9, <2>1, <2>2
<1> QED
  BY <1>0, <1>2, <1>5, <1>6, <1>7, <1>8, <1>9

-----------------------------------------------------------------------------
(* Walks: functions defined by recursion, from place to place.             *)

\* f walks D: it answers at once where it stops, and elsewhere from the answer
\* at the next place.
IsWalk(f, D, V, Stop, base, next, g) ==
    /\ f \in [D -> V]
    /\ \A x \in D : f[x] = IF x \in Stop THEN base[x] ELSE g[x][f[next[x]]]

\* A walk whose places have ever smaller ranks exists.
LEMMA WalkExists ==
    ASSUME NEW D, NEW V, NEW Stop, NEW base \in [D -> V], NEW next \in [D -> D],
           NEW g \in [D -> [V -> V]], NEW rank \in [D -> Nat],
           \A x \in D : x \notin Stop => rank[next[x]] < rank[x]
    PROVE  \E f : IsWalk(f, D, V, Stop, base, next, g)
<1> DEFINE Eq(f, x) == f[x] = IF x \in Stop THEN base[x] ELSE g[x][f[next[x]]]
           Part(f, n) == f \in [D -> V] /\ \A x \in D : rank[x] < n => Eq(f, x)
           Upto == {n \in Nat : \E f : Part(f, n)}
           SameBelow(n) == \A f, h : \A m \in Nat : n <= m /\ Part(f, n) /\ Part(h, m)
                              => \A x \in D : rank[x] < n => f[x] = h[x]
           Alike == {n \in Nat : SameBelow(n)}
<1>1. 0 \in Upto
  <2>1. Part(base, 0)
    OBVIOUS
  <2> QED
    BY <2>1
<1>2. ASSUME NEW n \in Nat, n \in Upto PROVE n + 1 \in Upto
  <2>1. PICK f : Part(f, n)
    BY <1>2
  <2> DEFINE h == [x \in D |-> IF x \in Stop THEN base[x] ELSE g[x][f[next[x]]]]
  <2>2. h \in [D -> V]
    <3>1. \A x \in D : next[x] \in D
      OBVIOUS
    <3>2. \A x \in D : f[next[x]] \in V
      BY <2>1, <3>1
    <3>3. \A x \in D : g[x] \in [V -> V]
      OBVIOUS
    <3>4. \A x \in D : g[x][f[next[x]]] \in V
      BY <3>2, <3>3
    <3> QED
      BY <3>4
  <2>3. ASSUME NEW x \in D, rank[x] < n PROVE h[x] = f[x]
    BY <2>1, <2>3
  <2>4. ASSUME NEW x \in D, rank[x] < n + 1 PROVE Eq(h, x)
    <3>1. h[x] = IF x \in Stop THEN base[x] ELSE g[x][f[next[x]]]
      OBVIOUS
    <3>2. x \notin Stop => rank[next[x]] < n
      <4>1. next[x] \in D /\ rank[x] \in Nat /\ rank[next[x]] \in Nat
        OBVIOUS
      <4> QED
        BY <2>4, <4>1
    <3>3. x \notin Stop => h[next[x]] = f[next[x]]
      <4> HIDE DEF h
      <4> QED BY <3>2, <2>3
    <3> HIDE DEF h
    <3> QED
      BY <3>1, <3>3
  <2> HIDE DEF h, Eq
  <2> QED
    BY <2>2, <2>4
<1>3. Nat \subseteq Upto
  <2> HIDE DEF Upto
  <2> QED BY <1>1, <1>2, SetInduction
<1>4. 0 \in Alike
  OBVIOUS
<1>5. ASSUME NEW n \in Nat, n \in Alike PROVE n + 1 \in Alike
  <2> SUFFICES SameBelow(n + 1)
    <3> HIDE DEF SameBelow
    <3> QED OBVIOUS
  <2> SUFFICES ASSUME NEW f, NEW h, NEW m \in Nat, n + 1 <= m, Part(f, n + 1), Part(h, m),
                      NEW x \in D, rank[x] < n + 1
               PROVE  f[x] = h[x]
    <3> HIDE DEF Part
    <3> QED BY DEF SameBelow
  <2>1. next[x] \in D /\ rank[x] \in Nat /\ rank[next[x]] \in Nat
    OBVIOUS
  <2>2. Eq(f, x) /\ Eq(h, x)
    BY <2>1
  <2>3. CASE x \in Stop
    BY <2>2, <2>3
  <2>4. CASE x \notin Stop
    <3>1. rank[next[x]] < n
      BY <2>1, <2>4
    <3>2. Part(f, n)
      <4>1. \A y \in D : rank[y] \in Nat
        OBVIOUS
      <4> HIDE DEF Eq
      <4> QED BY <4>1
    <3>3. f[next[x]] = h[next[x]]
      <4> HIDE DEF Part
      <4> QED BY <1>5, <3>1, <3>2, <2>1
    <3> QED
      BY <2>2, <2>4, <3>3
  <2> QED
    BY <2>3, <2>4
<1>6. Nat \subseteq Alike
  <2> HIDE DEF Alike
  <2> QED BY <1>4, <1>5, SetInduction
<1> DEFINE F(n) == CHOOSE f : Part(f, n)
           w == [x \in D |-> F(rank[x] + 1)[x]]
<1>7. \A n \in Nat : Part(F(n), n)
  <2> HIDE DEF Part
  <2> QED BY <1>3
<1>8. \A n \in Nat : \A x \in D : rank[x] < n => w[x] = F(n)[x]
  <2> SUFFICES ASSUME NEW n \in Nat, NEW x \in D, rank[x] < n PROVE w[x] = F(n)[x]
    OBVIOUS
  <2>1. rank[x] + 1 \in Nat /\ rank[x] < rank[x] + 1 /\ rank[x] + 1 <= n
    OBVIOUS
  <2>2. Part(F(rank[x] + 1), rank[x] + 1) /\ Part(F(n), n)
    <3> HIDE DEF F, Part
    <3> QED BY <1>7, <2>1
  <2>3. w[x] = F(rank[x] + 1)[x]
    <3> HIDE DEF F
    <3> QED OBVIOUS
  <2> HIDE DEF F, w, Part
  <2> QED
    BY <1>6, <2>1, <2>2, <2>3
<1>9. w \in [D -> V]
  <2>1. ASSUME NEW x \in D PROVE F(rank[x] + 1)[x] \in V
    <3>1. rank[x] + 1 \in Nat
      OBVIOUS
    <3>2. F(rank[x] + 1) \in [D -> V]
      <4> HIDE DEF F
      <4> QED BY <1>7, <3>1
    <3> HIDE DEF F
    <3> QED BY <3>2
  <2> HIDE DEF F
  <2> QED BY <2>1
<1>10. ASSUME NEW x \in D PROVE Eq(w, x)
  <2>1. rank[x] + 1 \in Nat /\ rank[x] < rank[x] + 1 /\ next[x] \in D
    OBVIOUS
  <2>2. Eq(F(rank[x] + 1), x)
    <3> HIDE DEF F, Eq
    <3> QED BY <1>7, <2>1
  <2>3. x \notin Stop => rank[next[x]] < rank[x] + 1
    <3>1. rank[x] \in Nat /\ rank[next[x]] \in Nat
      BY <2>1
    <3> QED BY <3>1
  <2>4. w[x] = F(rank[x] + 1)[x]
    <3> HIDE DEF F, w
    <3> QED BY <1>8, <2>1
  <2>5. x \notin Stop => w[next[x]] = F(rank[x] + 1)[next[x]]
    <3> HIDE DEF F, w
    <3> QED BY <1>8, <2>1, <2>3
  <2> HIDE DEF F, w
  <2> QED
    BY <2>2, <2>4, <2>5
<1> QED
  <2> HIDE DEF w
  <2> QED BY <1>9, <1>10 DEF IsWalk

-----------------------------------------------------------------------------
(* Subsets, taken apart one element at a time: `pick` says which.          *)

LEMMA OneLess ==
    ASSUME NEW S, IsFiniteSet(S), NEW x, x \in S
    PROVE  Cardinality(S \ {x}) = Cardinality(S) - 1
BY FS_RemoveElement

\* pick[s] is an element of s.
Picks(pick, D) == \A s \in SUBSET D : s # {} => pick[s] \in s

\* What holds of s without pick[s] holds of s.
ClosedUnder(G, pick, D) ==
    \A s \in SUBSET D : s # {} /\ s \ {pick[s]} \in G => s \in G

\* f folds g over the subsets of D, with values in V.
IsFold(f, D, V, pick, base, g) ==
    /\ f \in [SUBSET D -> V]
    /\ f[{}] = base
    /\ \A s \in SUBSET D : s # {} => f[s] = g[<<pick[s], f[s \ {pick[s]}]>>]

\* Induction over the subsets of a finite set.
LEMMA SubsetInduction ==
    ASSUME NEW D, IsFiniteSet(D), NEW pick, Picks(pick, D),
           NEW G, {} \in G, ClosedUnder(G, pick, D)
    PROVE  SUBSET D \subseteq G
<1> USE DEF Picks, ClosedUnder
<1> DEFINE Upto == {n \in Nat : \A s \in SUBSET D : Cardinality(s) = n => s \in G}
<1>1. \A s \in SUBSET D : /\ IsFiniteSet(s)
                          /\ Cardinality(s) \in Nat
                          /\ Cardinality(s) = 0 <=> s = {}
  BY FS_Subset, FS_CardinalityType, FS_EmptySet
<1>2. 0 \in Upto
  BY <1>1
<1>3. ASSUME NEW n \in Nat, n \in Upto PROVE n + 1 \in Upto
  <2>1. ASSUME NEW s \in SUBSET D, Cardinality(s) = n + 1 PROVE s \in G
    <3>1. s # {} /\ IsFiniteSet(s)
      BY <1>1, <2>1
    <3>2. pick[s] \in s /\ s \ {pick[s]} \in SUBSET D
      BY <3>1
    <3>3. Cardinality(s \ {pick[s]}) = Cardinality(s) - 1
      BY <3>1, <3>2, FS_RemoveElement
    <3>4. Cardinality(s \ {pick[s]}) = n
      BY <2>1, <3>3
    <3> QED
      BY <1>3, <3>1, <3>2, <3>4
  <2> QED
    BY <2>1
<1>4. Nat \subseteq Upto
  <2> HIDE DEF Upto
  <2> QED BY <1>2, <1>3, SetInduction
<1> QED
  BY <1>1, <1>4

\* The recursion defines a function: that of the smaller sets extends to
\* the next size.
LEMMA FoldFunctionExists ==
    ASSUME NEW D, IsFiniteSet(D), NEW pick, Picks(pick, D),
           NEW V, NEW base, base \in V, NEW g, g \in [D \X V -> V]
    PROVE  \E f : IsFold(f, D, V, pick, base, g)
<1> USE DEF Picks, IsFold
<1> DEFINE Rec(f, s) == s # {} => f[s] = g[<<pick[s], f[s \ {pick[s]}]>>]
<1> DEFINE Upto == {n \in Nat : \E f \in [SUBSET D -> V] : f[{}] = base /\
                       \A s \in SUBSET D : Cardinality(s) <= n => Rec(f, s)}
<1>1. \A s \in SUBSET D : /\ IsFiniteSet(s)
                          /\ Cardinality(s) \in Nat
                          /\ Cardinality(s) <= Cardinality(D)
                          /\ Cardinality(s) = 0 <=> s = {}
  BY FS_Subset, FS_CardinalityType, FS_EmptySet
<1>2. 0 \in Upto
  <2> DEFINE f == [s \in SUBSET D |-> base]
  <2>1. f \in [SUBSET D -> V] /\ f[{}] = base /\ \A s \in SUBSET D : Cardinality(s) <= 0 => Rec(f, s)
    BY <1>1
  <2> QED
    BY <2>1
<1>3. ASSUME NEW n \in Nat, n \in Upto PROVE n + 1 \in Upto
  <2>1. PICK f \in [SUBSET D -> V] : f[{}] = base /\
             \A s \in SUBSET D : Cardinality(s) <= n => Rec(f, s)
    BY <1>3
  <2> DEFINE h == [s \in SUBSET D |->
                     IF s = {} THEN base ELSE g[<<pick[s], f[s \ {pick[s]}]>>]]
  <2>2. h \in [SUBSET D -> V]
    <3>1. \A s \in SUBSET D : s # {} => g[<<pick[s], f[s \ {pick[s]}]>>] \in V
      <4>1. SUFFICES ASSUME NEW s \in SUBSET D, s # {}
                     PROVE  g[<<pick[s], f[s \ {pick[s]}]>>] \in V
        OBVIOUS
      <4>2. pick[s] \in D /\ s \ {pick[s]} \in SUBSET D
        BY <4>1
      <4>3. f[s \ {pick[s]}] \in V
        BY <4>2
      <4> QED
        BY <4>2, <4>3
    <3> QED
      BY <3>1
  <2>3. \A s \in SUBSET D : Cardinality(s) <= n => h[s] = f[s]
    BY <2>1
  <2>4. ASSUME NEW s \in SUBSET D, Cardinality(s) <= n + 1 PROVE Rec(h, s)
    <3>1. CASE s = {}
      BY <3>1
    <3>2. CASE s # {}
      <4>1. pick[s] \in s /\ s \ {pick[s]} \in SUBSET D
        BY <3>2
      <4>6. IsFiniteSet(s)
        BY <1>1
      <4>2. Cardinality(s \ {pick[s]}) = Cardinality(s) - 1
        BY <4>1, <4>6, OneLess, Zenon
      <4>5. Cardinality(s) \in Nat
        BY <1>1
      <4>3. Cardinality(s \ {pick[s]}) <= n
        BY <4>5, <4>2, <2>4
      <4>4. h[s \ {pick[s]}] = f[s \ {pick[s]}]
        <5> HIDE DEF h
        <5> QED BY <4>1, <4>3, <2>3
      <4> QED
        BY <4>4, <3>2
    <3> QED
      BY <3>1, <3>2
  <2>5. h[{}] = base
    OBVIOUS
  <2> QED
    <3> HIDE DEF h, Rec
    <3> QED BY <2>2, <2>4, <2>5
<1>4. Nat \subseteq Upto
  <2> HIDE DEF Upto
  <2> QED BY <1>2, <1>3, SetInduction
<1>5. Cardinality(D) \in Upto
  BY <1>1, <1>4
<1> QED
  BY <1>1, <1>5

-----------------------------------------------------------------------------
(* Sets of one element, and bijections.                                    *)

\* Of a set with at most one element.
LEMMA AtMostOne ==
    ASSUME NEW S, IsFiniteSet(S), Cardinality(S) <= 1, NEW x \in S, NEW y \in S
    PROVE  x = y
<1> SUFFICES ASSUME x # y PROVE FALSE
  OBVIOUS
<1>1. /\ Cardinality(S) \in Nat /\ IsFiniteSet(S \ {x})
      /\ Cardinality(S \ {x}) = Cardinality(S) - 1
  BY FS_CardinalityType, FS_RemoveElement
<1>2. Cardinality((S \ {x}) \ {y}) = Cardinality(S \ {x}) - 1
  BY <1>1, FS_RemoveElement
<1>3. Cardinality((S \ {x}) \ {y}) \in Nat
  BY <1>1, FS_RemoveElement, FS_CardinalityType
<1> QED
  BY <1>1, <1>2, <1>3

\* i is in its own class, and classes are matched one to one.
MatchedClasses(D, E, A, B) ==
    /\ A \in [D -> SUBSET D] /\ B \in [D -> SUBSET E]
    /\ \A i \in D : i \in A[i] /\ ExistsBijection(A[i], B[i])
    /\ \A i, j \in D : B[i] \cap B[j] # {} => A[i] = A[j] /\ B[i] = B[j]

\* Bijections of the classes make one injection.
LEMMA Matching ==
    ASSUME NEW D, NEW E, NEW A, NEW B, MatchedClasses(D, E, A, B)
    PROVE  \E m \in Injection(D, E) : \A i \in D : m[i] \in B[i]
<1> USE DEF MatchedClasses
<1> DEFINE F(i) == CHOOSE f : f \in Bijection(A[i], B[i])
           m == [i \in D |-> F(i)[i]]
<1>1. ASSUME NEW i \in D
      PROVE  /\ F(i) \in [A[i] -> B[i]]
             /\ \A x, y \in A[i] : F(i)[x] = F(i)[y] => x = y
  <2>1. \E f : f \in Bijection(A[i], B[i])
    BY DEF ExistsBijection
  <2>2. F(i) \in Bijection(A[i], B[i])
    BY <2>1
  <2> HIDE DEF F
  <2> QED
    BY <2>2 DEF Bijection, Injection, IsInjective
<1>2. ASSUME NEW i \in D PROVE m[i] = F(i)[i] /\ m[i] \in B[i]
  <2> HIDE DEF F
  <2> QED BY <1>1
<1>3. ASSUME NEW i \in D, NEW j \in D, m[i] = m[j] PROVE i = j
  <2>1. A[i] = A[j] /\ B[i] = B[j]
    <3> HIDE DEF m
    <3> QED BY <1>2, <1>3
  <2>2. F(i) = F(j)
    BY <2>1
  <2>3. F(i)[i] = F(i)[j]
    <3> HIDE DEF m, F
    <3> QED BY <1>2, <1>3, <2>2
  <2> HIDE DEF F, m
  <2> QED
    BY <1>1, <2>1, <2>3
<1>4. m \in Injection(D, E)
  <2>1. m \in [D -> E]
    <3> HIDE DEF F
    <3> QED BY <1>1
  <2> HIDE DEF F
  <2> QED
    BY <1>3, <2>1 DEF Injection, IsInjective
<1> QED
  <2> HIDE DEF m, F
  <2> QED BY <1>2, <1>4
=============================================================================
