------------------------------ MODULE LeaseProofs ------------------------------
(***************************************************************************)
(* The arbiter and what decides by it: its walk, one comment at a time, on *)
(* any thread of comments; its decision on every thread the public can     *)
(* write, of any length, by any logins and sessions, with bodies that say  *)
(* anything (LeaseThread); and the protocol of claims, beats and releases, *)
(* for any number of workers, sessions per login, comments, ticks and lag  *)
(* (LeaseProtocol).                                                        *)
(***************************************************************************)
EXTENDS LeaseThread, LeaseProtocol, FoldLemmas, TLAPS


-----------------------------------------------------------------------------
(* Threads of lease comments: ids tell comments apart and are bounded.     *)

IsThread(C) ==
    /\ C \subseteq LeaseComments
    /\ IsFiniteSet(C)
    /\ \A c, d \in C : c.id = d.id => c = d
    /\ \E n \in Nat : \A c \in C : c.id <= n

LEMMA SubThread ==
    ASSUME NEW C, IsThread(C), NEW D \in SUBSET C
    PROVE  IsThread(D)
BY FS_Subset DEF IsThread

\* A thread of some comments has a newest one.
LEMMA NewestIsLast ==
    ASSUME NEW C, IsThread(C), C # {}
    PROVE  /\ Newest(C) \in C
           /\ \A d \in C : d.id <= Newest(C).id
           /\ \A d \in C \ {Newest(C)} : d.id < Newest(C).id
<1>1. PICK n \in Nat : \A c \in C : c.id <= n
  BY DEF IsThread
<1> DEFINE S == {c.id : c \in C}
<1>2. C \subseteq LeaseComments /\ \A c \in C : c.id \in Nat
  BY DEF IsThread, LeaseComments
<1>3. S \in SUBSET (0..n) /\ S # {}
  BY <1>1, <1>2
<1>4. PICK m \in S : \A x \in S : x <= m
  BY <1>3, GreatestOfBounded
<1>5. \E c \in C : \A d \in C : d.id <= c.id
  BY <1>4
<1>6. Newest(C) \in C /\ \A d \in C : d.id <= Newest(C).id
  BY <1>5 DEF Newest
<1>7. \A d \in C : d # Newest(C) => d.id # Newest(C).id
  BY <1>6 DEF IsThread
<1> QED
  BY <1>2, <1>6, <1>7

LEMMA ThreadInduction ==
    ASSUME NEW D, IsThread(D), NEW G, {} \in G,
           \A C \in SUBSET D : C # {} /\ C \ {Newest(C)} \in G => C \in G
    PROVE  D \in G
<1> DEFINE pick == [s \in SUBSET D |-> Newest(s)]
<1>1. Picks(pick, D)
  BY NewestIsLast, SubThread DEF Picks
<1>2. ClosedUnder(G, pick, D)
  BY DEF ClosedUnder
<1>3. IsFiniteSet(D)
  BY DEF IsThread
<1>4. SUBSET D \subseteq G
  <2> HIDE DEF pick
  <2> QED BY <1>1, <1>2, <1>3, SubsetInduction
<1> QED
  BY <1>4

-----------------------------------------------------------------------------
(* The walk, one comment at a time.                                        *)

LEMMA WalkStepType ==
    ASSUME NEW walk \in Walks, NEW c \in LeaseComments
    PROVE  WalkStep(walk, c) \in Walks
<1>1. WorkerId(c) \in WorkerIds
  BY DEF WorkerId, WorkerIds, LeaseComments
<1>2. Append(walk.order, WorkerId(c)) \in Seq(WorkerIds)
  BY <1>1 DEF Walks
<1> QED
  BY <1>1, <1>2 DEF WalkStep, Walks

LEMMA EmptyWalkType == EmptyWalk \in Walks
BY DEF EmptyWalk, Walks

\* The fold is the function of its recursion, on the thread and on every part
\* of it.
LEMMA WalkIsFold ==
    ASSUME NEW D, IsThread(D)
    PROVE  \E f \in [SUBSET D -> Walks] :
               /\ f[{}] = EmptyWalk
               /\ \A C \in SUBSET D :
                      C # {} => f[C] = WalkStep(f[C \ {Newest(C)}], Newest(C))
               /\ \A C \in SUBSET D : WalkOf(C) = f[C]
<1> DEFINE pick == [s \in SUBSET D |-> Newest(s)]
<1> DEFINE g == [p \in D \X Walks |-> WalkStep(p[2], p[1])]
<1>1. \A s \in SUBSET D : s # {} => Newest(s) \in s
  BY NewestIsLast, SubThread
<1>2. Picks(pick, D)
  BY <1>1 DEF Picks
<1>3. g \in [D \X Walks -> Walks]
  BY WalkStepType DEF IsThread
<1>4. \A d \in D, w \in Walks : g[<<d, w>>] = WalkStep(w, d)
  OBVIOUS
<1>5. PICK f : IsFold(f, D, Walks, pick, EmptyWalk, g)
  <2>1. IsFiniteSet(D) /\ EmptyWalk \in Walks
    BY EmptyWalkType DEF IsThread
  <2> HIDE DEF pick, g
  <2> QED BY <1>2, <1>3, <2>1, FoldFunctionExists
<1>6. f \in [SUBSET D -> Walks] /\ f[{}] = EmptyWalk
  BY <1>5 DEF IsFold
<1>7. \A s \in SUBSET D : s # {} => f[s] = WalkStep(f[s \ {Newest(s)}], Newest(s))
  <2> SUFFICES ASSUME NEW s \in SUBSET D, s # {}
               PROVE  f[s] = WalkStep(f[s \ {Newest(s)}], Newest(s))
    OBVIOUS
  <2>1. f[s] = g[<<Newest(s), f[s \ {Newest(s)}]>>]
    BY <1>5 DEF IsFold
  <2>2. Newest(s) \in D /\ f[s \ {Newest(s)}] \in Walks
    BY <1>1, <1>6
  <2> QED
    BY <1>4, <2>1, <2>2
<1>8. ASSUME NEW C \in SUBSET D PROVE WalkOf(C) = f[C]
  <2> DEFINE iter[s \in SUBSET C] ==
                 IF s = {} THEN EmptyWalk
                 ELSE WalkStep(iter[s \ {Newest(s)}], Newest(s))
  <2> DEFINE h == [s \in SUBSET C |-> f[s]]
  <2>1. h = [s \in SUBSET C |-> IF s = {} THEN EmptyWalk
                                ELSE WalkStep(h[s \ {Newest(s)}], Newest(s))]
    BY <1>6, <1>7
  <2>2. iter = [s \in SUBSET C |-> IF s = {} THEN EmptyWalk
                                   ELSE WalkStep(iter[s \ {Newest(s)}], Newest(s))]
    BY <2>1
  <2>3. WalkOf(C) = iter[C]
    BY DEF WalkOf, MapThenFoldSet
  <2>4. \A s \in SUBSET C : iter[s] = IF s = {} THEN EmptyWalk
                                      ELSE WalkStep(iter[s \ {Newest(s)}], Newest(s))
    <3> HIDE DEF iter
    <3> QED BY <2>2
  <2> HIDE DEF iter
  <2> DEFINE G == {s \in SUBSET C : iter[s] = f[s]}
  <2>5. {} \in G
    BY <2>4, <1>6
  <2>6. \A s \in SUBSET C : s # {} /\ s \ {Newest(s)} \in G => s \in G
    BY <2>4, <1>7
  <2>7. IsThread(C)
    BY SubThread
  <2>8. C \in G
    <3> HIDE DEF G
    <3> QED BY <2>5, <2>6, <2>7, ThreadInduction
  <2> QED
    BY <2>3, <2>8
<1> QED
  BY <1>6, <1>7, <1>8

LEMMA WalkOfNothing == WalkOf({}) = EmptyWalk
<1>1. IsThread({})
  BY FS_EmptySet DEF IsThread
<1> QED
  BY <1>1, WalkIsFold

LEMMA WalkOfType ==
    ASSUME NEW C, IsThread(C)
    PROVE  WalkOf(C) \in Walks
<1>1. PICK f \in [SUBSET C -> Walks] : \A B \in SUBSET C : WalkOf(B) = f[B]
  BY WalkIsFold
<1> QED
  BY <1>1

LEMMA WalkOfNewest ==
    ASSUME NEW C, IsThread(C), C # {}
    PROVE  WalkOf(C) = WalkStep(WalkOf(C \ {Newest(C)}), Newest(C))
<1>1. PICK f \in [SUBSET C -> Walks] :
          /\ \A B \in SUBSET C : B # {} => f[B] = WalkStep(f[B \ {Newest(B)}], Newest(B))
          /\ \A B \in SUBSET C : WalkOf(B) = f[B]
  BY WalkIsFold
<1>2. C \in SUBSET C /\ C \ {Newest(C)} \in SUBSET C
  OBVIOUS
<1>3. f[C] = WalkStep(f[C \ {Newest(C)}], Newest(C))
  BY <1>1, <1>2
<1> QED
  BY <1>1, <1>2, <1>3
-----------------------------------------------------------------------------
(* A beat moves a stamp, or comes last: neither moves the walk.            *)

Restamp(c, t, stamp) == IF c.id = t THEN [c EXCEPT !.at = stamp] ELSE c

Restamped(C, t, stamp) == {Restamp(c, t, stamp) : c \in C}

LEMMA RestampKeeps ==
    ASSUME NEW c \in LeaseComments, NEW t, NEW stamp \in Stamps
    PROVE  LET d == Restamp(c, t, stamp)
           IN  /\ d \in LeaseComments
               /\ d.id = c.id /\ WorkerId(d) = WorkerId(c)
               /\ \A walk : WalkStep(walk, d) = WalkStep(walk, c)
<1> DEFINE d == Restamp(c, t, stamp)
<1>1. /\ d \in LeaseComments /\ d.id = c.id /\ d.login = c.login
      /\ d.session = c.session /\ d.action = c.action
  BY DEF Restamp, LeaseComments
<1> HIDE DEF d
<1>2. WorkerId(d) = WorkerId(c)
  BY <1>1 DEF WorkerId
<1>3. \A walk : WalkStep(walk, d) = WalkStep(walk, c)
  BY <1>1, <1>2 DEF WalkStep
<1> QED
  BY <1>1, <1>2, <1>3 DEF d

LEMMA RestampedThread ==
    ASSUME NEW C, IsThread(C), NEW t, NEW stamp \in Stamps
    PROVE  IsThread(Restamped(C, t, stamp))
<1> DEFINE f == [c \in C |-> Restamp(c, t, stamp)]
           D == Restamped(C, t, stamp)
<1>1. \A c \in C : Restamp(c, t, stamp) \in LeaseComments /\ Restamp(c, t, stamp).id = c.id
  BY RestampKeeps DEF IsThread
<1>2. f \in Surjection(C, D)
  BY DEF Surjection, Restamped
<1>3. IsFiniteSet(D)
  <2> HIDE DEF f, D
  <2> QED BY <1>2, FS_Surjection DEF IsThread
<1>4. D \subseteq LeaseComments
  BY <1>1 DEF Restamped
<1>5. \A c, d \in D : c.id = d.id => c = d
  BY <1>1 DEF Restamped, IsThread
<1>6. PICK n \in Nat : \A c \in C : c.id <= n
  BY DEF IsThread
<1>7. \A c \in D : c.id <= n
  BY <1>1, <1>6 DEF Restamped
<1> QED
  BY <1>3, <1>4, <1>5, <1>7 DEF IsThread

LEMMA RestampedWalk ==
    ASSUME NEW D, IsThread(D), NEW t, NEW stamp \in Stamps
    PROVE  WalkOf(Restamped(D, t, stamp)) = WalkOf(D)
<1> DEFINE G == {C \in SUBSET D : WalkOf(Restamped(C, t, stamp)) = WalkOf(C)}
<1>1. {} \in G
  BY DEF Restamped
<1>2. ASSUME NEW C \in SUBSET D, C # {}, C \ {Newest(C)} \in G
      PROVE  C \in G
  <2> DEFINE n == Newest(C)
             B == C \ {n}
             E == Restamped(C, t, stamp)
             m == Restamp(n, t, stamp)
  <2>1. IsThread(C) /\ IsThread(E) /\ E # {}
    BY <1>2, SubThread, RestampedThread DEF Restamped
  <2>2. n \in C /\ \A d \in B : d.id < n.id
    BY <1>2, <2>1, NewestIsLast
  <2>3. \A c \in C : /\ c \in LeaseComments /\ c.id \in Nat
                     /\ Restamp(c, t, stamp).id = c.id
    BY <2>1, RestampKeeps DEF IsThread, LeaseComments
  <2>4. Newest(E) = m
    <3>1. Newest(E) \in E /\ \A e \in E : e.id <= Newest(E).id
      BY <2>1, NewestIsLast
    <3>2. PICK c \in C : Newest(E) = Restamp(c, t, stamp)
      BY <3>1 DEF Restamped
    <3>3. m \in E
      BY <2>2 DEF Restamped
    <3>4. n.id <= c.id
      BY <2>2, <2>3, <3>1, <3>2, <3>3
    <3>5. c = n
      BY <2>2, <2>3, <3>4
    <3> QED
      BY <3>2, <3>5
  <2>5. E \ {m} = Restamped(B, t, stamp)
    <3>1. \A c \in B : Restamp(c, t, stamp) # m
      BY <2>2, <2>3
    <3>2. E = Restamped(B, t, stamp) \cup {m}
      BY <2>2 DEF Restamped
    <3> QED
      BY <3>1, <3>2 DEF Restamped
  <2>6. WalkOf(E) = WalkStep(WalkOf(E \ {m}), m)
    BY <2>1, <2>4, WalkOfNewest
  <2>7. WalkOf(E \ {m}) = WalkOf(B)
    BY <1>2, <2>5
  <2>8. WalkOf(C) = WalkStep(WalkOf(B), n)
    BY <1>2, <2>1, WalkOfNewest
  <2>9. WalkStep(WalkOf(B), m) = WalkStep(WalkOf(B), n)
    BY <2>2, <2>3, RestampKeeps
  <2> QED
    BY <2>6, <2>7, <2>8, <2>9
<1>3. D \in G
  <2> HIDE DEF G
  <2> QED BY <1>1, <1>2, ThreadInduction
<1> QED
  BY <1>3

LEMMA BeatLast ==
    ASSUME NEW C, IsThread(C), NEW beat \in LeaseComments,
           beat.action = "heartbeat", \A c \in C : c.id < beat.id
    PROVE  IsThread(C \cup {beat}) /\ WalkOf(C \cup {beat}) = WalkOf(C)
<1> DEFINE E == C \cup {beat}
<1>1. beat.id \in Nat /\ \A c \in C : c \in LeaseComments /\ c.id \in Nat /\ c.id < beat.id
  BY DEF IsThread, LeaseComments
<1>2. IsFiniteSet(E)
  BY FS_AddElement DEF IsThread
<1>3. IsThread(E)
  <2>1. \A c \in E : c \in LeaseComments /\ c.id <= beat.id
    BY <1>1
  <2>2. \A c, d \in E : c.id = d.id => c = d
    BY <1>1 DEF IsThread
  <2> QED
    BY <1>1, <1>2, <2>1, <2>2 DEF IsThread
<1>4. Newest(E) = beat /\ E \ {beat} = C
  <2>1. Newest(E) \in E /\ \A e \in E : e.id <= Newest(E).id
    BY <1>3, NewestIsLast
  <2> QED
    BY <1>1, <2>1
<1>5. WalkOf(E) = WalkStep(WalkOf(C), beat)
  BY <1>3, <1>4, WalkOfNewest
<1> QED
  BY <1>3, <1>5 DEF WalkStep

-----------------------------------------------------------------------------
(* Freshness is carried by the id-highest comment.                         *)

LEMMA LatestIsLast ==
    ASSUME NEW C, IsThread(C), NEW w, \E c \in C : WorkerId(c) = w
    PROVE  LET last == LatestByWorker(C, w)
           IN  /\ last \in C /\ WorkerId(last) = w
               /\ \A d \in C : WorkerId(d) = w => d.id <= last.id
<1> DEFINE D == {c \in C : WorkerId(c) = w}
<1>1. IsThread(D) /\ D # {}
  BY SubThread
<1>2. Newest(D) \in D /\ \A d \in D : d.id <= Newest(D).id
  BY <1>1, NewestIsLast
<1>3. \E c \in C : WorkerId(c) = w /\ \A d \in C : WorkerId(d) = w => d.id <= c.id
  BY <1>2
<1> QED
  BY <1>3 DEF LatestByWorker


-----------------------------------------------------------------------------
(* Whoever stands in line, the holder among them, has claimed.             *)

HasClaimed(C, w) == \E c \in C : c.action = "claim" /\ WorkerId(c) = w

LineClaimed(C) ==
    LET walk == WalkOf(C)
    IN  /\ \A i \in 1..Len(walk.order) : HasClaimed(C, walk.order[i])
        /\ walk.holder # Nobody => HasClaimed(C, walk.holder)

LEMMA LineClaims ==
    ASSUME NEW D, IsThread(D)
    PROVE  LineClaimed(D)
<1> DEFINE G == {C \in SUBSET D : LineClaimed(C)}
<1>1. {} \in G
  BY WalkOfNothing DEF LineClaimed, EmptyWalk
<1>2. ASSUME NEW C \in SUBSET D, C # {}, C \ {Newest(C)} \in G
      PROVE  C \in G
  <2> DEFINE n == Newest(C)
             B == C \ {n}
             old == WalkOf(B)
  <2>1. IsThread(C) /\ IsThread(B)
    BY <1>2, SubThread
  <2>2. n \in C /\ n \in LeaseComments
    BY <1>2, <2>1, NewestIsLast DEF IsThread
  <2>3. WalkOf(C) = WalkStep(old, n)
    BY <1>2, <2>1, WalkOfNewest
  <2>4. old \in Walks
    BY <2>1, WalkOfType
  <2>5. /\ \A i \in 1..Len(old.order) : HasClaimed(C, old.order[i])
        /\ old.holder # Nobody => HasClaimed(C, old.holder)
    BY <1>2 DEF LineClaimed, HasClaimed
  <2>6. n.action = "claim" => HasClaimed(C, WorkerId(n))
    BY <2>2 DEF HasClaimed
  <2> HIDE DEF n, B, old
  <2>7. CASE WalkOf(C) = old
    BY <2>5, <2>7 DEF LineClaimed
  <2>8. CASE WalkOf(C) = [old EXCEPT !.holder = Nobody]
    BY <2>4, <2>5, <2>8 DEF LineClaimed, Walks
  <2>9. CASE /\ n.action = "claim"
             /\ WalkOf(C).order = Append(old.order, WorkerId(n))
             /\ WalkOf(C).holder \in {old.holder, WorkerId(n)}
    <3> DEFINE longer == Append(old.order, WorkerId(n))
    <3>1. old.order \in Seq(WorkerIds) /\ WorkerId(n) \in WorkerIds
      BY <2>2, <2>4 DEF Walks, WorkerId, WorkerIds, LeaseComments
    <3>3. /\ Len(longer) = Len(old.order) + 1
          /\ longer[Len(old.order) + 1] = WorkerId(n)
          /\ \A i \in 1..Len(old.order) : longer[i] = old.order[i]
      BY <3>1
    <3>4. Len(old.order) \in Nat
      BY <3>1
    <3> HIDE DEF longer
    <3>5. WalkOf(C).order = longer
      BY <2>9 DEF longer
    <3>2. ASSUME NEW i \in 1..Len(longer) PROVE HasClaimed(C, longer[i])
      <4>1. CASE i = Len(old.order) + 1
        BY <2>6, <2>9, <3>3, <4>1
      <4>2. CASE i \in 1..Len(old.order)
        BY <2>5, <3>3, <4>2
      <4> QED
        BY <3>3, <3>4, <4>1, <4>2
    <3> QED
      BY <2>5, <2>6, <2>9, <3>2, <3>5 DEF LineClaimed
  <2>10. \/ WalkOf(C) = old
         \/ WalkOf(C) = [old EXCEPT !.holder = Nobody]
         \/ /\ n.action = "claim"
            /\ WalkOf(C).order = Append(old.order, WorkerId(n))
            /\ WalkOf(C).holder \in {old.holder, WorkerId(n)}
    BY <2>3, <2>4 DEF WalkStep, Walks
  <2>11. LineClaimed(C)
    BY <2>7, <2>8, <2>9, <2>10
  <2> QED
    BY <2>11
<1>3. D \in G
  <2> HIDE DEF G
  <2> QED BY <1>1, <1>2, ThreadInduction
<1> QED
  BY <1>3

-----------------------------------------------------------------------------
(* Tenures: the recursion on claims has a solution, and any solution has   *)
(* the walk's holder as its one tenant.                                    *)

Claims(C) == {c \in C : c.action = "claim"}

AreTenures(T, C) ==
    /\ T \subseteq Claims(C)
    /\ \A c \in Claims(C) :
           c \in T <=> \A t \in T : t.id < c.id => EndsBefore(C, t, c.id)

\* A release of t's login after t.
Ended(C, t) ==
    \E r \in C : r.action = "release" /\ r.login = t.login /\ t.id < r.id

\* n is the newest comment of C and B the others.
Splits(C, n, B) == IsThread(C) /\ C # {} /\ n = Newest(C) /\ B = C \ {n}

LEMMA SplitFacts ==
    ASSUME NEW C, NEW n, NEW B, Splits(C, n, B)
    PROVE  /\ n \in C /\ n \notin B /\ C = B \cup {n} /\ IsThread(B)
           /\ n \in LeaseComments /\ B \subseteq LeaseComments
           /\ \A c \in B : c.id \in Nat /\ n.id \in Nat /\ c.id < n.id /\ ~(n.id < c.id)
           /\ ~(n.id < n.id)
<1> USE DEF Splits
<1>1. n \in C /\ n \notin B /\ C = B \cup {n} /\ IsThread(B)
  BY NewestIsLast, SubThread
<1>2. n \in LeaseComments /\ B \subseteq LeaseComments
  BY <1>1 DEF IsThread
<1>3. \A c \in B : c.id < n.id
  BY NewestIsLast
<1>4. n.id \in Nat /\ \A c \in B : c.id \in Nat
  BY <1>2 DEF LeaseComments
<1>5. \A c \in B : ~(n.id < c.id)
  BY <1>3, <1>4
<1>6. ~(n.id < n.id)
  BY <1>4
<1> QED
  BY <1>1, <1>2, <1>3, <1>4, <1>5, <1>6, Zenon

\* What a thread's newest comment changes of what ended when.
LEMMA NewestEnds ==
    ASSUME NEW C, NEW n, NEW B, Splits(C, n, B)
    PROVE  /\ \A t \in B : EndsBefore(C, t, n.id) <=> Ended(B, t)
           /\ \A t \in B : \A c \in B : EndsBefore(C, t, c.id) <=> EndsBefore(B, t, c.id)
           /\ \A t \in B : Ended(C, t) <=>
                  Ended(B, t) \/ (n.action = "release" /\ n.login = t.login)
           /\ ~Ended(C, n)
<1>1. /\ C = B \cup {n}
      /\ \A c \in B : c.id < n.id /\ ~(n.id < c.id)
      /\ ~(n.id < n.id)
  BY SplitFacts
<1>2. \A t \in B : EndsBefore(C, t, n.id) <=> Ended(B, t)
  BY <1>1 DEF EndsBefore, Ended
<1>3. \A t \in B : \A c \in B : EndsBefore(C, t, c.id) <=> EndsBefore(B, t, c.id)
  BY <1>1 DEF EndsBefore
<1>4. \A t \in B : Ended(C, t) <=>
          Ended(B, t) \/ (n.action = "release" /\ n.login = t.login)
  BY <1>1 DEF Ended
<1>5. ~Ended(C, n)
  BY <1>1 DEF Ended
<1> QED
  BY <1>2, <1>3, <1>4, <1>5

\* Tenures of a thread are those of the thread without its newest comment,
\* and the newest comment if it is a claim that found every one ended.
LEMMA TenuresStep ==
    ASSUME NEW C, NEW n, NEW B, Splits(C, n, B), NEW T \in SUBSET Claims(C)
    PROVE  AreTenures(T, C) <=>
               /\ AreTenures(T \ {n}, B)
               /\ n \in T <=> /\ n.action = "claim"
                              /\ \A t \in T \ {n} : Ended(B, t)
<1>1. /\ n \in C /\ C = B \cup {n} /\ n \notin B
      /\ \A c \in B : c.id < n.id /\ ~(n.id < c.id)
      /\ ~(n.id < n.id)
  BY SplitFacts
<1>2. /\ \A t \in B : EndsBefore(C, t, n.id) <=> Ended(B, t)
      /\ \A t \in B : \A c \in B : EndsBefore(C, t, c.id) <=> EndsBefore(B, t, c.id)
  BY NewestEnds
<1>3. \A c \in Claims(B) : c \in Claims(C) /\ c # n /\ c \in B
  BY <1>1 DEF Claims
<1>4. \A c \in Claims(C) : c \in Claims(B) \/ c = n
  BY <1>1 DEF Claims
<1>5. T \ {n} \subseteq Claims(B)
  BY <1>4
<1>6. ASSUME NEW c \in Claims(B)
      PROVE  (\A t \in T : t.id < c.id => EndsBefore(C, t, c.id))
             <=> (\A t \in T \ {n} : t.id < c.id => EndsBefore(B, t, c.id))
  <2>1. ~(n.id < c.id)
    BY <1>1, <1>3
  <2>2. \A t \in T \ {n} : EndsBefore(C, t, c.id) <=> EndsBefore(B, t, c.id)
    BY <1>2, <1>3, <1>5
  <2>3. \A t \in T : t.id < c.id => t \in T \ {n}
    BY <2>1
  <2> QED
    BY <2>2, <2>3, Zenon
<1>7. (\A t \in T : t.id < n.id => EndsBefore(C, t, n.id))
      <=> (\A t \in T \ {n} : Ended(B, t))
  <2>1. \A t \in T \ {n} : t.id < n.id /\ (EndsBefore(C, t, n.id) <=> Ended(B, t))
    BY <1>1, <1>2, <1>3, <1>5
  <2>2. \A t \in T : t.id < n.id => t \in T \ {n}
    BY <1>1
  <2> QED
    BY <2>1, <2>2, Zenon
<1>8. n \in Claims(C) <=> n.action = "claim"
  BY <1>1 DEF Claims
<1>9. (\A c \in Claims(B) :
           c \in T <=> \A t \in T : t.id < c.id => EndsBefore(C, t, c.id))
      <=> AreTenures(T \ {n}, B)
  BY <1>3, <1>5, <1>6 DEF AreTenures
<1>10. (n \in Claims(C) =>
            (n \in T <=> \A t \in T : t.id < n.id => EndsBefore(C, t, n.id)))
       <=> (n \in T <=> /\ n.action = "claim" /\ \A t \in T \ {n} : Ended(B, t))
  BY <1>7, <1>8, T \subseteq Claims(C)
<1> QED
  BY <1>3, <1>4, <1>9, <1>10 DEF AreTenures

LEMMA TenuresExist ==
    ASSUME NEW D, IsThread(D)
    PROVE  \E T \in SUBSET Claims(D) : AreTenures(T, D)
<1> DEFINE G == {C \in SUBSET D : \E T \in SUBSET Claims(C) : AreTenures(T, C)}
<1>1. {} \in G
  BY DEF AreTenures, Claims
<1>2. ASSUME NEW C \in SUBSET D, C # {}, C \ {Newest(C)} \in G
      PROVE  C \in G
  <2> DEFINE n == Newest(C)
             B == C \ {n}
  <2>1. Splits(C, n, B)
    BY <1>2, SubThread DEF Splits
  <2>2. n \in C /\ n \notin B /\ C = B \cup {n}
    BY <2>1, SplitFacts
  <2>3. PICK S \in SUBSET Claims(B) : AreTenures(S, B)
    BY <1>2
  <2> HIDE DEF n, B
  <2> DEFINE late == {c \in {n} : c.action = "claim" /\ \A t \in S : Ended(B, t)}
             T == S \cup late
  <2>4. T \in SUBSET Claims(C)
    BY <2>2, <2>3 DEF Claims
  <2>5. n \notin S /\ T \ {n} = S
    BY <2>2, <2>3 DEF Claims
  <2>6. n \in T <=> n.action = "claim" /\ \A t \in S : Ended(B, t)
    BY <2>5
  <2>7. AreTenures(T, C)
    <3> HIDE DEF T, late
    <3> QED BY <2>1, <2>3, <2>4, <2>5, <2>6, TenuresStep
  <2> QED
    BY <2>4, <2>7
<1>3. D \in G
  <2> HIDE DEF G
  <2> QED BY <1>1, <1>2, ThreadInduction
<1> QED
  BY <1>3

OneTenant(T, C) ==
    LET h == WalkOf(C).holder
    IN  /\ h = Nobody => \A t \in T : Ended(C, t)
        /\ h # Nobody => \E t \in T : /\ WorkerId(t) = h /\ ~Ended(C, t)
                                     /\ \A u \in T : u = t \/ Ended(C, u)

\* How a comment moves the walk's holder.
LEMMA HolderMoves ==
    ASSUME NEW walk \in Walks, NEW c \in LeaseComments
    PROVE  LET h      == WalkStep(walk, c).holder
               takes  == c.action = "claim" /\ walk.holder = Nobody
               leaves == /\ c.action = "release" /\ walk.holder # Nobody
                         /\ c.login = walk.holder[1]
           IN  /\ takes => h = WorkerId(c) /\ h # Nobody
               /\ leaves => h = Nobody
               /\ ~takes /\ ~leaves => h = walk.holder
<1>1. WorkerId(c) \in WorkerIds /\ WorkerId(c) # Nobody
  BY NobodyAssumption DEF WorkerId, WorkerIds, LeaseComments
<1> QED
  BY <1>1 DEF WalkStep, Walks

LEMMA HolderIsOneTenant ==
    ASSUME NEW D, IsThread(D)
    PROVE  \A T : AreTenures(T, D) => OneTenant(T, D)
<1> DEFINE G == {C \in SUBSET D : \A T : AreTenures(T, C) => OneTenant(T, C)}
<1>1. {} \in G
  <2>1. WalkOf({}).holder = Nobody
    BY WalkOfNothing DEF EmptyWalk
  <2>2. \A T : AreTenures(T, {}) => T = {}
    BY DEF AreTenures, Claims
  <2> QED
    BY <2>1, <2>2 DEF OneTenant
<1>2. ASSUME NEW C \in SUBSET D, C # {}, C \ {Newest(C)} \in G
      PROVE  C \in G
  <2> DEFINE n == Newest(C)
             B == C \ {n}
             old == WalkOf(B)
             new == WalkOf(C)
  <2>1. Splits(C, n, B) /\ IsThread(C)
    BY <1>2, SubThread DEF Splits
  <2>2. /\ n \in C /\ n \notin B /\ C = B \cup {n}
        /\ n \in LeaseComments /\ B \subseteq LeaseComments /\ IsThread(B)
    BY <2>1, SplitFacts
  <2>3. new = WalkStep(old, n) /\ old \in Walks
    BY <1>2, <2>1, <2>2, WalkOfNewest, WalkOfType
  <2>4. ASSUME NEW T, AreTenures(T, C) PROVE OneTenant(T, C)
    <3> DEFINE S == T \ {n}
    <3>1. T \in SUBSET Claims(C)
      BY <2>4 DEF AreTenures
    <3>2. /\ AreTenures(S, B)
          /\ n \in T <=> n.action = "claim" /\ \A t \in S : Ended(B, t)
      BY <2>1, <2>4, <3>1, TenuresStep
    <3>3. OneTenant(S, B)
      BY <1>2, <3>2
    <3>4. \A t \in S : t \in B /\ t \in LeaseComments
      BY <2>2, <3>1 DEF Claims
    <3> HIDE DEF n, B, old, new
    <3>5. /\ \A t \in S : Ended(C, t) <=>
                 Ended(B, t) \/ (n.action = "release" /\ n.login = t.login)
          /\ ~Ended(C, n)
      BY <2>1, <3>4, NewestEnds
    <3>6. /\ old.holder = Nobody => \A t \in S : Ended(B, t)
          /\ old.holder # Nobody =>
                 \E t \in S : /\ WorkerId(t) = old.holder /\ ~Ended(B, t)
                             /\ \A u \in S : u = t \/ Ended(B, u)
      BY <3>3 DEF OneTenant, old
    <3>7. SUFFICES
            /\ new.holder = Nobody => \A t \in T : Ended(C, t)
            /\ new.holder # Nobody =>
                   \E t \in T : /\ WorkerId(t) = new.holder /\ ~Ended(C, t)
                               /\ \A u \in T : u = t \/ Ended(C, u)
      BY DEF OneTenant, new
    <3>8. CASE n.action = "claim" /\ old.holder = Nobody
      <4>1. new.holder = WorkerId(n) /\ new.holder # Nobody
        BY <2>2, <2>3, <3>8, HolderMoves
      <4>2. n \in T /\ \A u \in T : u = n \/ Ended(C, u)
        BY <3>2, <3>5, <3>6, <3>8
      <4> QED
        BY <3>5, <4>1, <4>2
    <3>9. CASE old.holder # Nobody
      <4>1. PICK t \in S : /\ WorkerId(t) = old.holder /\ ~Ended(B, t)
                           /\ \A u \in S : u = t \/ Ended(B, u)
        BY <3>6, <3>9
      <4>2. n \notin T /\ T = S
        BY <3>2, <4>1
      <4>3. t.login = old.holder[1]
        BY <3>4, <4>1 DEF WorkerId
      <4>4. CASE n.action = "release" /\ n.login = old.holder[1]
        <5>1. new.holder = Nobody
          BY <2>2, <2>3, <3>9, <4>4, HolderMoves
        <5>2. \A u \in S : Ended(C, u)
          BY <3>5, <4>1, <4>3, <4>4
        <5> QED
          BY <4>2, <5>1, <5>2
      <4>5. CASE ~(n.action = "release" /\ n.login = old.holder[1])
        <5>1. new.holder = old.holder
          BY <2>2, <2>3, <3>9, <4>5, HolderMoves
        <5>2. ~Ended(C, t) /\ \A u \in S : u = t \/ Ended(C, u)
          BY <3>5, <4>1, <4>3, <4>5
        <5> QED
          BY <3>9, <4>1, <4>2, <5>1, <5>2
      <4> QED
        BY <4>4, <4>5
    <3>10. CASE n.action # "claim" /\ old.holder = Nobody
      <4>1. new.holder = Nobody
        BY <2>2, <2>3, <3>10, HolderMoves
      <4>2. T = S
        BY <3>2, <3>10
      <4> QED
        BY <3>5, <3>6, <3>10, <4>1, <4>2
    <3> QED
      BY <3>8, <3>9, <3>10
  <2> QED
    BY <2>4
<1>3. D \in G
  <2> HIDE DEF G
  <2> QED BY <1>1, <1>2, ThreadInduction
<1> QED
  BY <1>3

-----------------------------------------------------------------------------
(* The rows of the thread: ids are given out in order and stay.            *)

Rows == [id : Nat, login : Logins, body : Bodies, at : Stamps]

RowsInv ==
    /\ rows \subseteq Rows
    /\ IsFiniteSet(rows)
    /\ Cardinality(rows) <= MaxRows
    /\ \A r \in rows : 1 <= r.id /\ r.id <= Cardinality(rows)
    /\ \A r, s \in rows : r.id = s.id => r = s
    /\ time \in Nat

LEMMA InitRows == ThreadInit => RowsInv
BY FS_EmptySet, ThreadAssumption DEF ThreadInit, RowsInv

LEMMA PostKeeps ==
    ASSUME RowsInv, NEW l \in Logins, NEW b \in Bodies, Post(l, b)
    PROVE  RowsInv'
<1> DEFINE new == [id |-> NextId, login |-> l, body |-> b, at |-> time]
<1>1. Cardinality(rows) \in Nat
  BY FS_CardinalityType DEF RowsInv
<1>2. new \in Rows /\ new.id = Cardinality(rows) + 1
  BY <1>1 DEF Rows, NextId, Stamps, RowsInv
<1>3. rows' = rows \cup {new} /\ time' = time /\ Cardinality(rows) < MaxRows
  BY DEF Post
<1>4. \A r \in rows : r.id < new.id
  BY <1>1, <1>2 DEF RowsInv, Rows
<1>5. new \notin rows
  BY <1>2, <1>4 DEF Rows
<1> HIDE DEF new
<1>6. IsFiniteSet(rows') /\ Cardinality(rows') = Cardinality(rows) + 1
  BY <1>3, <1>5, FS_AddElement DEF RowsInv
<1>7. \A r, s \in rows' : r.id = s.id => r = s
  <2>1. \A r \in rows : r.id # new.id
    BY <1>1, <1>2, <1>4 DEF RowsInv, Rows
  <2> QED
    BY <1>3, <2>1 DEF RowsInv
<1>8. \A r \in rows' : 1 <= r.id /\ r.id <= Cardinality(rows')
  <2>1. \A r \in rows : r.id \in Nat /\ 1 <= r.id /\ r.id <= Cardinality(rows)
    BY DEF RowsInv, Rows
  <2> QED
    BY <1>1, <1>2, <1>3, <1>6, <2>1
<1>9. Cardinality(rows') <= MaxRows
  BY <1>1, <1>3, <1>6, ThreadAssumption
<1> QED
  BY <1>2, <1>3, <1>6, <1>7, <1>8, <1>9 DEF RowsInv

LEMMA TouchKeeps ==
    ASSUME RowsInv, NEW row \in rows, Touch(row)
    PROVE  RowsInv'
<1>1. PICK stamp \in {time, Garbled} :
          /\ rows' = (rows \ {row}) \cup {[row EXCEPT !.at = stamp]}
          /\ time' = time
  BY DEF Touch
<1> DEFINE new == [row EXCEPT !.at = stamp]
<1>2. row \in Rows
  BY DEF RowsInv
<1>3. new \in Rows /\ new.id = row.id
  BY <1>1, <1>2 DEF Rows, Stamps, RowsInv
<1> HIDE DEF new
<1>4. rows' = (rows \ {row}) \cup {new}
  BY <1>1 DEF new
<1>5. \A r \in rows \ {row} : r.id # new.id
  BY <1>3 DEF RowsInv
<1>6. IsFiniteSet(rows \ {row}) /\ Cardinality(rows \ {row}) = Cardinality(rows) - 1
  BY FS_RemoveElement DEF RowsInv
<1>7. Cardinality(rows) \in Nat
  BY FS_CardinalityType DEF RowsInv
<1>8. IsFiniteSet(rows') /\ Cardinality(rows') = Cardinality(rows)
  <2>1. new \notin rows \ {row}
    BY <1>5
  <2>2. /\ IsFiniteSet(rows')
        /\ Cardinality(rows') = Cardinality(rows \ {row}) + 1
    BY <1>4, <1>6, <2>1, FS_AddElement
  <2> QED
    BY <1>6, <1>7, <2>2
<1>9. \A r, s \in rows' : r.id = s.id => r = s
  BY <1>4, <1>5 DEF RowsInv
<1> QED
  BY <1>1, <1>3, <1>4, <1>8, <1>9 DEF RowsInv

LEMMA NextRows == RowsInv /\ [ThreadNext]_threadVars => RowsInv'
<1> SUFFICES ASSUME RowsInv, [ThreadNext]_threadVars PROVE RowsInv'
  OBVIOUS
<1>1. ASSUME NEW l \in Logins, NEW b \in Bodies, Post(l, b) PROVE RowsInv'
  BY <1>1, PostKeeps
<1>2. ASSUME NEW row \in rows, Touch(row) PROVE RowsInv'
  BY <1>2, TouchKeeps
<1>3. ASSUME TimePasses PROVE RowsInv'
  BY <1>3, ThreadAssumption DEF RowsInv, TimePasses
<1>4. ASSUME UNCHANGED threadVars PROVE RowsInv'
  BY <1>4 DEF RowsInv, threadVars
<1> QED
  BY <1>1, <1>2, <1>3, <1>4 DEF ThreadNext

LEMMA RowsHold == ThreadSpec => []RowsInv
BY InitRows, NextRows, PTL DEF ThreadSpec

\* What rows say that satisfy RowsInv is a thread.
LEMMA CommentsAreThread ==
    ASSUME RowsInv
    PROVE  /\ IsThread(Comments)
           /\ \A c \in Comments : c.id < NextId /\ c.id <= MaxRows
           /\ NextId \in Nat
<1> DEFINE Blocks == {r \in rows : IsLeaseBlock(r.body)}
           f == [r \in Blocks |-> LeaseComment(r)]
<1>1. Cardinality(rows) \in Nat /\ NextId \in Nat /\ NextId = Cardinality(rows) + 1
  BY FS_CardinalityType DEF RowsInv, NextId
<1>2. Comments = {LeaseComment(r) : r \in Blocks}
  BY DEF Comments, LeaseCommentsFromApi
<1>3. IsFiniteSet(Blocks)
  BY FS_Subset DEF RowsInv
<1>4. f \in Surjection(Blocks, Comments)
  BY <1>2 DEF Surjection
<1>5. IsFiniteSet(Comments)
  <2> HIDE DEF f, Blocks
  <2> QED BY <1>3, <1>4, FS_Surjection
<1>6. \A r \in Blocks : LeaseComment(r) \in LeaseComments /\ LeaseComment(r).id = r.id
  BY DEF RowsInv, Rows, LeaseComment, LeaseComments, IsLeaseBlock, SessionIds
<1>7. \A r \in Blocks : r.id \in Nat /\ r.id < NextId /\ r.id <= MaxRows
  BY <1>1, ThreadAssumption DEF RowsInv, Rows
<1>8. Comments \subseteq LeaseComments
  BY <1>2, <1>6
<1>9. \A c, d \in Comments : c.id = d.id => c = d
  <2>1. \A r, s \in Blocks : r.id = s.id => r = s
    BY DEF RowsInv
  <2> QED
    BY <1>2, <1>6, <2>1
<1>10. \A c \in Comments : c.id < NextId /\ c.id <= MaxRows
  BY <1>2, <1>6, <1>7
<1> QED
  BY <1>1, <1>5, <1>8, <1>9, <1>10, ThreadAssumption DEF IsThread

-----------------------------------------------------------------------------
(* The walk's holder is the one tenant of the thread's tenures: a claim    *)
(* takes a free lease, only a release of the holder's login frees it       *)
(* (decide_lease).                                                         *)

LEMMA HolderIsTenantNow == RowsInv => HolderIsTenant
<1> SUFFICES ASSUME RowsInv PROVE HolderIsTenant
  OBVIOUS
<1> DEFINE T == Tenures(Comments)
           h == WalkOf(Comments).holder
<1>1. /\ IsThread(Comments)
      /\ \A c \in Comments : c.id \in Nat /\ c.id < MaxRows + 1
  BY CommentsAreThread, ThreadAssumption DEF IsThread, LeaseComments
<1>2. AreTenures(T, Comments)
  <2> DEFINE Solves(S) == \A c \in Claims(Comments) :
                 c \in S <=> \A t \in S : t.id < c.id => EndsBefore(Comments, t, c.id)
  <2>1. T = CHOOSE S \in SUBSET Claims(Comments) : Solves(S)
    BY DEF Tenures, Claims
  <2>2. \E S \in SUBSET Claims(Comments) : Solves(S)
    BY <1>1, TenuresExist DEF AreTenures
  <2>3. T \in SUBSET Claims(Comments) /\ Solves(T)
    <3> HIDE DEF Solves, T
    <3> QED BY <2>1, <2>2
  <2> QED
    BY <2>3 DEF AreTenures
<1>3. OneTenant(T, Comments)
  BY <1>1, <1>2, HolderIsOneTenant
<1>4. \A t \in T : t \in Comments
  BY <1>2 DEF AreTenures, Claims
<1>5. \A t \in T : EndsBefore(Comments, t, MaxRows + 1) <=> Ended(Comments, t)
  BY <1>1 DEF EndsBefore, Ended
<1> DEFINE Open == {t \in T : ~EndsBefore(Comments, t, MaxRows + 1)}
<1>6. Tenants(Comments) = {WorkerId(t) : t \in Open}
  BY DEF Tenants
<1> HIDE DEF T
<1>7. CASE h = Nobody
  <2>1. Open = {}
    BY <1>3, <1>5, <1>7 DEF OneTenant
  <2> QED
    BY <1>6, <1>7, <2>1 DEF HolderIsTenant
<1>8. CASE h # Nobody
  <2>1. PICK t \in T : /\ WorkerId(t) = h /\ ~Ended(Comments, t)
                       /\ \A u \in T : u = t \/ Ended(Comments, u)
    BY <1>3, <1>8 DEF OneTenant
  <2>2. Open = {t}
    BY <1>5, <2>1
  <2>3. Tenants(Comments) = {h}
    BY <1>6, <2>1, <2>2
  <2> QED
    BY <1>8, <2>3 DEF HolderIsTenant
<1> QED
  BY <1>7, <1>8

\* On every thread that people can write, of any length, the walk's holder is
\* the author of the one tenure still open (decide_lease).
THEOREM HolderIsTenantHolds == ThreadSpec => []HolderIsTenant
BY RowsHold, HolderIsTenantNow, PTL

-----------------------------------------------------------------------------
(* The author is the row's (lease_comments_from_api).                      *)

LEMMA AuthorIsTheRowsNow == RowsInv => AuthorIsTheRows
<1> SUFFICES ASSUME RowsInv PROVE AuthorIsTheRows
  OBVIOUS
<1> DEFINE Truth(r) == [r EXCEPT !.body.login = IF @ = "bad" THEN @ ELSE r.login]
           truthful == {Truth(r) : r \in rows}
<1>1. ASSUME NEW r \in rows
      PROVE  /\ IsLeaseBlock(Truth(r).body) <=> IsLeaseBlock(r.body)
             /\ LeaseComment(Truth(r)) = LeaseComment(r)
  <2>1. r \in Rows /\ r.login # "bad"
    BY LoginsAssumption DEF RowsInv, Rows
  <2>2. r.body \in [block : {"ok", "no"}, login : Logins \cup {"bad"},
                    action : LeaseActions \cup {"bad"}, protocol : {"1", "bad"},
                    session : SessionIds \cup {"bad"}]
    BY <2>1, BodiesAssumption DEF Rows
  <2>3. /\ Truth(r).id = r.id /\ Truth(r).login = r.login /\ Truth(r).at = r.at
        /\ Truth(r).body = [r.body EXCEPT !.login = IF @ = "bad" THEN @ ELSE r.login]
    BY <2>1 DEF Rows
  <2>4. /\ Truth(r).body.block = r.body.block
        /\ Truth(r).body.action = r.body.action
        /\ Truth(r).body.protocol = r.body.protocol
        /\ Truth(r).body.session = r.body.session
        /\ Truth(r).body.login = IF r.body.login = "bad" THEN "bad" ELSE r.login
    BY <2>2, <2>3
  <2> HIDE DEF Truth
  <2>5. IsLeaseBlock(Truth(r).body) <=> IsLeaseBlock(r.body)
    BY <2>1, <2>4 DEF IsLeaseBlock
  <2>6. LeaseComment(Truth(r)) = LeaseComment(r)
    BY <2>3, <2>4 DEF LeaseComment
  <2> QED
    BY <2>5, <2>6
<1>2. LeaseCommentsFromApi(truthful) = Comments
  <2> HIDE DEF Truth
  <2> QED BY <1>1 DEF LeaseCommentsFromApi, Comments
<1> QED
  BY <1>2 DEF AuthorIsTheRows

\* Whatever bodies say of their authors, the decision is that of the thread
\* in which they tell the truth (lease_comments_from_api).
THEOREM AuthorIsTheRowsHolds == ThreadSpec => []AuthorIsTheRows
BY RowsHold, AuthorIsTheRowsNow, PTL

-----------------------------------------------------------------------------
(* Freshness and the decision.                                             *)

\* Whoever is decided has claimed and is fresh.
LEMMA DecidedClaimed ==
    ASSUME NEW C, IsThread(C), NEW now, DecideLease(C, now).holder # Nobody
    PROVE  LET h == DecideLease(C, now).holder
           IN  HasClaimed(C, h) /\ Fresh(C, h, now)
<1> DEFINE walk  == WalkOf(C)
           heirs == FreshCandidates(walk, C, now)
           first == CHOOSE i \in heirs : \A j \in heirs : i <= j
           h == DecideLease(C, now).holder
<1>1. walk \in Walks /\ LineClaimed(C)
  BY WalkOfType, LineClaims
<1>2. heirs \in SUBSET (1..Len(walk.order))
  BY DEF FreshCandidates
<1>3. heirs \in SUBSET Nat
  BY <1>2
<1>4. CASE walk.holder # Nobody /\ Fresh(C, walk.holder, now)
  <2>1. h = walk.holder
    BY <1>4 DEF DecideLease, Decide
  <2> QED
    BY <1>1, <1>4, <2>1 DEF LineClaimed
<1>5. CASE walk.holder # Nobody /\ ~Fresh(C, walk.holder, now) /\ heirs # {}
  <2>1. \E i \in heirs : \A j \in heirs : i <= j
    BY <1>3, <1>5, LeastNat
  <2>2. first \in heirs
    BY <2>1
  <2>3. Fresh(C, walk.order[first], now)
    BY <2>2 DEF FreshCandidates
  <2>4. h = walk.order[first]
    BY <1>5 DEF DecideLease, Decide
  <2> HIDE DEF first, heirs
  <2>5. HasClaimed(C, walk.order[first])
    BY <1>1, <1>2, <2>2 DEF LineClaimed
  <2> QED
    BY <2>3, <2>4, <2>5
<1>6. CASE walk.holder = Nobody \/ (~Fresh(C, walk.holder, now) /\ heirs = {})
  <2>1. h = Nobody
    BY <1>6 DEF DecideLease, Decide
  <2> QED
    BY <2>1
<1> QED
  BY <1>4, <1>5, <1>6

LEMMA HolderAskedNow == RowsInv => HolderAskedAndIsThere
<1> SUFFICES ASSUME RowsInv, DecideLease(Comments, time).holder # Nobody
             PROVE  HolderAskedAndIsThere
  BY DEF HolderAskedAndIsThere
<1> DEFINE h == DecideLease(Comments, time).holder
           last == LatestByWorker(Comments, h)
<1>1. IsThread(Comments) /\ time \in Nat
  BY CommentsAreThread DEF RowsInv
<1>2. HasClaimed(Comments, h) /\ Fresh(Comments, h, time)
  BY <1>1, DecidedClaimed
<1> HIDE DEF h
<1>3. last \in Comments /\ WorkerId(last) = h
  BY <1>1, <1>2, LatestIsLast DEF HasClaimed
<1>4. IsFresh(last.at, time)
  BY <1>2 DEF Fresh
<1> HIDE DEF last
<1>5. last.at \in Stamps
  BY <1>1, <1>3 DEF IsThread, LeaseComments
<1>6. last.at = Garbled \/ last.at + StaleAfter >= time
  BY <1>1, <1>4, <1>5, StaleAfterAssumption, GarbledAssumption DEF IsFresh, Stamps
<1> QED
  BY <1>2, <1>3, <1>6 DEF HolderAskedAndIsThere, HasClaimed, h

\* Whoever is decided the holder, by holding or by inheriting, claimed and has
\* written within the window (decide_lease).
THEOREM HolderAskedAndIsThereHolds == ThreadSpec => []HolderAskedAndIsThere
BY RowsHold, HolderAskedNow, PTL

\* A fresh holder of the walk is decided.
LEMMA FreshHolderDecided ==
    ASSUME NEW C, NEW now, NEW h, h # Nobody, WalkOf(C).holder = h, Fresh(C, h, now)
    PROVE  DecideLease(C, now).holder = h
BY DEF DecideLease, Decide

LEMMA BeatIsVisibleNow == RowsInv => BeatIsVisible
<1> DEFINE h == DecideLease(Comments, time).holder
           last == LatestByWorker(Comments, h)
           after == time + StaleAfter
<1> SUFFICES ASSUME RowsInv, h # Nobody, h = WalkOf(Comments).holder
             PROVE  DecideLease(Beaten(h), after).holder = h
  BY DEF BeatIsVisible
<1>1. /\ IsThread(Comments) /\ time \in Nat /\ time \in Stamps /\ NextId \in Nat
      /\ \A c \in Comments : c \in LeaseComments /\ c.id < NextId
  BY CommentsAreThread DEF RowsInv, IsThread, Stamps
<1>2. HasClaimed(Comments, h)
  BY <1>1, DecidedClaimed
<1>3. h \in WorkerIds
  BY <1>1, WalkOfType DEF Walks
<1>4. IsFresh(time, after)
  BY <1>1, StaleAfterAssumption, GarbledAssumption DEF IsFresh
<1> HIDE DEF h, after
<1>5. /\ last \in Comments /\ WorkerId(last) = h
      /\ \A c \in Comments : WorkerId(c) = h => c.id <= last.id
  BY <1>1, <1>2, LatestIsLast DEF HasClaimed
<1>6. CASE HeartbeatTarget(Comments, h) = 0
  <2> DEFINE beat == [id |-> NextId, login |-> h[1], session |-> h[2],
                      action |-> "heartbeat", at |-> time]
             C == Comments \cup {beat}
  <2>1. beat \in LeaseComments /\ WorkerId(beat) = h
    BY <1>1, <1>3 DEF LeaseComments, LeaseActions, WorkerId, WorkerIds
  <2>2. beat.id = NextId /\ beat.action = "heartbeat" /\ beat.at = time
    OBVIOUS
  <2>3. Beaten(h) = C
    BY <1>6 DEF Beaten
  <2> HIDE DEF beat
  <2>4. IsThread(C) /\ WalkOf(C) = WalkOf(Comments)
    BY <1>1, <2>1, <2>2, BeatLast
  <2>5. LatestByWorker(C, h) = beat
    <3>1. /\ LatestByWorker(C, h) \in C
          /\ beat.id <= LatestByWorker(C, h).id
      BY <2>1, <2>4, LatestIsLast
    <3>2. \A c \in Comments : c.id \in Nat /\ c.id < beat.id /\ beat.id \in Nat
      BY <1>1, <2>2 DEF LeaseComments
    <3> QED
      BY <3>1, <3>2
  <2>6. Fresh(C, h, after)
    BY <1>4, <2>2, <2>5 DEF Fresh
  <2> QED
    BY <2>3, <2>4, <2>6, FreshHolderDecided
<1>7. CASE HeartbeatTarget(Comments, h) # 0
  <2> DEFINE C == Restamped(Comments, last.id, time)
             beaten == Restamp(last, last.id, time)
  <2>1. HeartbeatTarget(Comments, h) = last.id
    BY <1>7 DEF HeartbeatTarget
  <2>2. Beaten(h) = C
    BY <1>7, <2>1 DEF Beaten, Restamped, Restamp
  <2>3. IsThread(C) /\ WalkOf(C) = WalkOf(Comments)
    BY <1>1, RestampedThread, RestampedWalk
  <2>4. /\ beaten \in C /\ beaten.at = time
        /\ beaten.id = last.id /\ WorkerId(beaten) = h
    <3>1. last \in LeaseComments
      BY <1>1, <1>5
    <3>2. beaten.at = time
      BY <3>1 DEF Restamp, LeaseComments
    <3> QED
      BY <1>1, <1>5, <3>1, <3>2, RestampKeeps DEF Restamped
  <2>5. \A c \in C : WorkerId(c) = h => c.id <= beaten.id
    <3>1. \A c \in Comments : /\ Restamp(c, last.id, time).id = c.id
                             /\ WorkerId(Restamp(c, last.id, time)) = WorkerId(c)
      BY <1>1, RestampKeeps
    <3> QED
      BY <1>5, <2>4, <3>1 DEF Restamped
  <2> HIDE DEF C, beaten
  <2>6. LatestByWorker(C, h) = beaten
    <3> DEFINE l == LatestByWorker(C, h)
    <3>1. l \in C /\ WorkerId(l) = h /\ beaten.id <= l.id
      BY <2>3, <2>4, LatestIsLast
    <3>2. l.id <= beaten.id /\ l.id \in Nat /\ beaten.id \in Nat
      BY <2>3, <2>4, <2>5, <3>1 DEF IsThread, LeaseComments
    <3> QED
      BY <2>3, <2>4, <3>1, <3>2 DEF IsThread
  <2>7. Fresh(C, h, after)
    BY <1>4, <2>4, <2>6 DEF Fresh
  <2> QED
    BY <2>2, <2>3, <2>7, FreshHolderDecided
<1> QED
  BY <1>6, <1>7

\* The beat that the holder would write, edited or new, is seen: the same
\* worker is decided until the window has passed again (heartbeat_target).
THEOREM BeatIsVisibleHolds == ThreadSpec => []BeatIsVisible
BY RowsHold, BeatIsVisibleNow, PTL


-----------------------------------------------------------------------------
(* The walk.                                                               *)

\* One comment takes a lease from its holder only if it is a release by the
\* holder's login, and leaves nobody in its place (the loop's last branch).
LEMMA WalkStepKeepsHolder ==
    ASSUME NEW walk \in Walks, NEW c \in LeaseComments,
           walk.holder # Nobody,
           WalkStep(walk, c).holder # walk.holder
    PROVE  /\ WalkStep(walk, c).holder = Nobody
           /\ c.action = "release"
           /\ c.login = walk.holder[1]
  BY DEF WalkStep, Walks

LEMMA DecideClaimed ==
    ASSUME NEW walk, NEW comments, NEW now,
           Decide(walk, comments, now).reason = "claimed"
    PROVE  Decide(walk, comments, now).holder = walk.holder
  BY DEF Decide

LEMMA DecideFresh ==
    ASSUME NEW walk, NEW comments, NEW now,
           walk.holder # Nobody, Fresh(comments, walk.holder, now)
    PROVE  Decide(walk, comments, now).holder = walk.holder
  BY DEF Decide

-----------------------------------------------------------------------------
(* What a step does to the thread: nothing but append one comment, or move *)
(* one comment's updated_at.                                               *)

Ids == \A i \in 1..Len(thread) : thread[i].id = i

\* The parts of TypeOK and Ids that only the thread decides.
ThreadOK ==
    /\ thread \in Seq(LeaseComments)
    /\ walks \in Seq(Walks)
    /\ Len(walks) = Len(thread) + 1
    /\ Ids

Says(c) ==
    /\ c.id = Len(thread) + 1
    /\ thread' = Append(thread, c)
    /\ walks' = Append(walks, WalkStep(walks[Len(walks)], c))

Edits ==
    /\ DOMAIN thread' = DOMAIN thread
    /\ Len(thread') = Len(thread)
    /\ \A i \in 1..Len(thread) :
           /\ thread'[i].action = thread[i].action
           /\ thread'[i].login = thread[i].login
    /\ walks' = walks

\* What a beat's edit does to each comment.
Restamps ==
    \E t \in Nat, stamp \in Stamps : \A i \in 1..Len(thread) :
        thread'[i] = Restamp(thread[i], t, stamp)

LEMMA SayStep ==
    ASSUME clock \in Nat, NEW login \in Logins, NEW session \in SessionIds,
           NEW action \in LeaseActions, Say(login, session, action),
           thread \in Seq(LeaseComments)
    PROVE  \E c \in LeaseComments : Says(c)
<1> DEFINE c == [id |-> Len(thread) + 1, login |-> login, session |-> session,
                 action |-> action, at |-> clock]
<1>1. c \in LeaseComments
  BY DEF LeaseComments, Stamps
<1>2. Says(c)
  BY DEF Say, Says
<1> QED
  BY <1>1, <1>2

LEMMA SaysFacts ==
    ASSUME ThreadOK, NEW c \in LeaseComments, Says(c)
    PROVE  /\ ThreadOK'
           /\ Len(thread') = Len(thread) + 1
           /\ \A i \in 1..Len(thread) : thread'[i] = thread[i]
           /\ thread'[Len(thread) + 1] = c
           /\ \A i \in 1..Len(walks) : walks'[i] = walks[i]
           /\ walks'[Len(walks) + 1] = WalkStep(walks[Len(walks)], c)
<1>1. walks[Len(walks)] \in Walks
  BY DEF ThreadOK
<1>2. WalkStep(walks[Len(walks)], c) \in Walks
  BY <1>1, WalkStepType
<1>3. /\ thread' \in Seq(LeaseComments)
      /\ Len(thread') = Len(thread) + 1
      /\ \A i \in 1..Len(thread) : thread'[i] = thread[i]
      /\ thread'[Len(thread) + 1] = c
  BY DEF ThreadOK, Says
<1>4. /\ walks' \in Seq(Walks)
      /\ Len(walks') = Len(walks) + 1
      /\ \A i \in 1..Len(walks) : walks'[i] = walks[i]
      /\ walks'[Len(walks) + 1] = WalkStep(walks[Len(walks)], c)
  BY <1>2 DEF ThreadOK, Says
<1>5. Ids'
  <2> SUFFICES ASSUME NEW i \in 1..Len(thread') PROVE thread'[i].id = i
    BY DEF Ids
  <2>1. CASE i \in 1..Len(thread)
    BY <2>1, <1>3 DEF ThreadOK, Ids
  <2>2. CASE i = Len(thread) + 1
    BY <2>2, <1>3 DEF Says
  <2> QED
    BY <2>1, <2>2, <1>3 DEF ThreadOK
<1> QED
  BY <1>3, <1>4, <1>5 DEF ThreadOK

\* The comment a beat edits exists.
LEMMA TargetInThread ==
    ASSUME ThreadOK, NEW k \in 0..Len(thread), NEW w
    PROVE  HeartbeatTarget(View(k), w) \in 0..Len(thread)
<1>1. CASE ~ \E c \in View(k) : WorkerId(c) = w
  <2>1. Len(thread) \in Nat
    BY DEF ThreadOK
  <2> QED
    BY <1>1, <2>1 DEF HeartbeatTarget
<1>2. CASE \E c \in View(k) : WorkerId(c) = w
  <2> DEFINE S == {i \in 1..k : WorkerId(thread[i]) = w}
  <2>0. k \in Nat /\ Len(thread) \in Nat
    BY DEF ThreadOK
  <2>1. S \in SUBSET (1..k) /\ S # {}
    BY <1>2 DEF View
  <2>2. PICK m \in S : \A i \in S : i <= m
    <3>1. S \in SUBSET (0..k)
      BY <2>0, <2>1
    <3> HIDE DEF S
    <3> QED BY <2>0, <2>1, <3>1, GreatestOfBounded
  <2>3. \A i \in 1..k : thread[i].id = i
    BY <2>0 DEF ThreadOK, Ids
  <2>4. /\ thread[m] \in View(k)
        /\ WorkerId(thread[m]) = w
        /\ \A d \in View(k) : WorkerId(d) = w => d.id <= thread[m].id
    BY <2>2, <2>3 DEF View
  <2>5. LatestByWorker(View(k), w) \in View(k)
    BY <2>4 DEF LatestByWorker
  <2>6. LatestByWorker(View(k), w).id \in 1..k
    BY <2>5, <2>3 DEF View
  <2> QED
    BY <1>2, <2>0, <2>6 DEF HeartbeatTarget
<1> QED
  BY <1>1, <1>2

-----------------------------------------------------------------------------
(* Type correctness.                                                       *)

LEMMA WorkerFacts ==
    ASSUME NEW w \in Workers
    PROVE  /\ LoginOf[w] \in Logins
           /\ SessionOf[w] \in SessionIds
           /\ NoSession \in SessionIds
           /\ Id(w) \in WorkerIds
           /\ Id(w) # Nobody
           /\ Id(w)[1] = LoginOf[w]
  BY WorkersAssumption, NobodyAssumption DEF SessionIds, Id, WorkerIds

\* TypeOK and Ids, by the part of the state they are about.
ClaimsOK ==
    /\ pc \in [Workers -> Mid \cup Outcomes]
    /\ startedAt \in [Workers -> 0..MaxClock]
    /\ won \in [Workers -> Nat]
    /\ \A w \in Workers : won[w] <= Len(thread)

BeatsOK ==
    /\ beats \subseteq Beats
    /\ \A b \in beats : b.target <= Len(thread)

ClockOK == clock \in 0..MaxClock

ReleasingOK == releasing \subseteq Workers

Typed == TypeOK /\ Ids

LEMMA TypedParts ==
    Typed <=> ThreadOK /\ ClaimsOK /\ BeatsOK /\ ClockOK /\ ReleasingOK
  BY DEF Typed, TypeOK, ThreadOK, ClaimsOK, BeatsOK, ClockOK, ReleasingOK

LEMMA TypedNext ==
    ASSUME ThreadOK', ClaimsOK', BeatsOK', ClockOK', ReleasingOK'
    PROVE  Typed'
  BY DEF Typed, TypeOK, ThreadOK, ClaimsOK, BeatsOK, ClockOK, ReleasingOK

\* The thread is never shortened, so what points into it keeps doing so.
Grows ==
    /\ Len(thread) \in Nat
    /\ Len(thread') \in Nat
    /\ Len(thread) <= Len(thread')

LEMMA EndTypes ==
    ASSUME ClaimsOK, Grows, NEW w \in Workers, NEW o \in Outcomes, End(w, o)
    PROVE  ClaimsOK'
<1>1. 0 \in 0..MaxClock
  BY BoundsAssumption
<1>2. /\ pc' \in [Workers -> Mid \cup Outcomes]
      /\ startedAt' \in [Workers -> 0..MaxClock]
      /\ won' \in [Workers -> Nat]
  BY <1>1 DEF End, ClaimsOK
<1>3. ASSUME NEW v \in Workers PROVE won'[v] <= Len(thread')
  <2>1. won'[v] = 0 \/ won'[v] = won[v]
    BY DEF End, ClaimsOK
  <2>2. won[v] \in Nat /\ won[v] <= Len(thread)
    BY DEF ClaimsOK
  <2> QED
    BY <2>1, <2>2 DEF Grows
<1> QED
  BY <1>2, <1>3 DEF ClaimsOK

LEMMA ClaimsKept ==
    ASSUME ClaimsOK, Grows, UNCHANGED <<startedAt, won>>,
           pc' \in [Workers -> Mid \cup Outcomes]
    PROVE  ClaimsOK'
<1>1. ASSUME NEW v \in Workers PROVE won[v] <= Len(thread')
  <2>1. won[v] \in Nat /\ won[v] <= Len(thread)
    BY DEF ClaimsOK
  <2> QED
    BY <2>1 DEF Grows
<1> QED
  BY <1>1 DEF ClaimsOK

LEMMA BeatsKept ==
    ASSUME BeatsOK, Grows, beats' \subseteq beats
    PROVE  BeatsOK'
<1>1. ASSUME NEW b \in beats PROVE b.target <= Len(thread')
  <2>1. b.target \in Nat /\ b.target <= Len(thread)
    BY DEF BeatsOK, Beats
  <2> QED
    BY <2>1 DEF Grows
<1> QED
  BY <1>1 DEF BeatsOK

LEMMA SayTypes ==
    ASSUME ThreadOK, ClockOK, NEW login \in Logins, NEW session \in SessionIds,
           NEW action \in LeaseActions, Say(login, session, action)
    PROVE  ThreadOK' /\ Grows
<1>1. clock \in Nat
  BY BoundsAssumption DEF ClockOK
<1>2. PICK c \in LeaseComments : Says(c)
  BY <1>1, SayStep DEF ThreadOK
<1> QED
  BY <1>2, SaysFacts DEF Grows, ThreadOK

LEMMA InitTyped == Init => Typed
<1> SUFFICES ASSUME Init PROVE Typed
  OBVIOUS
<1>1. EmptyWalk \in Walks
  BY DEF EmptyWalk, Walks
<1>2. /\ thread \in Seq(LeaseComments) /\ Len(thread) = 0
      /\ walks \in Seq(Walks) /\ Len(walks) = 1
  BY <1>1 DEF Init
<1> QED
  BY <1>2, BoundsAssumption DEF Init, Typed, TypeOK, Ids, Outcomes

LEMMA NextTyped == Typed /\ [Next]_vars => Typed'
<1> SUFFICES ASSUME Typed, [Next]_vars PROVE Typed'
  OBVIOUS
<1>0. /\ ThreadOK /\ ClaimsOK /\ BeatsOK /\ ClockOK /\ ReleasingOK
      /\ Len(thread) \in Nat
  BY TypedParts DEF ThreadOK
\* A step that leaves the thread alone.
<1>a. ASSUME UNCHANGED <<thread, walks>> PROVE ThreadOK' /\ Grows
  BY <1>0, <1>a DEF ThreadOK, Ids, Grows
<1>1. ASSUME NEW w \in Workers, Claim(w) PROVE Typed'
  <2>0. ASSUME UNCHANGED <<clock, beats, releasing>>, Grows
        PROVE  ClockOK' /\ BeatsOK' /\ ReleasingOK'
    BY <1>0, <2>0, BeatsKept DEF ClockOK, ReleasingOK
  <2>1. CASE StartClaim(w)
    <3>1. ClaimsOK'
      BY <1>0, <2>1 DEF StartClaim, ClaimsOK, ClockOK, Mid
    <3> QED
      BY <1>a, <2>0, <2>1, <3>1, TypedNext DEF StartClaim
  <2>2. CASE ReadBefore(w)
    <3>0. Grows
      BY <1>a, <2>2 DEF ReadBefore
    <3>3. ClaimsOK'
      <4>1. CASE End(w, "idle")
        BY <1>0, <3>0, <4>1, EndTypes DEF Outcomes
      <4>2. CASE pc' = [pc EXCEPT ![w] = "posting"] /\ UNCHANGED <<startedAt, won>>
        BY <1>0, <3>0, <4>2, ClaimsKept DEF ClaimsOK, Mid
      <4> QED
        BY <2>2, <4>1, <4>2 DEF ReadBefore
    <3> QED
      BY <1>a, <2>0, <2>2, <3>3, TypedNext DEF ReadBefore
  <2>3. CASE PostClaim(w)
    <3>1. ThreadOK' /\ Grows
      BY <1>0, <2>3, WorkerFacts, SayTypes DEF PostClaim, LeaseActions
    <3>2. ClaimsOK'
      BY <1>0, <2>3, <3>1, ClaimsKept DEF PostClaim, ClaimsOK, Mid
    <3> QED
      BY <2>0, <2>3, <3>1, <3>2, TypedNext DEF PostClaim
  <2>4. CASE ReadAfter(w)
    <3>0. ThreadOK' /\ Grows
      BY <1>a, <2>4 DEF ReadAfter
    <3>1. ASSUME End(w, "idle") \/ End(w, "unseen") PROVE ClaimsOK'
      BY <1>0, <3>0, <3>1, EndTypes DEF Outcomes
    <3>2. ASSUME NEW k \in Views, NEW o \in {"won", "took"},
                 pc' = [pc EXCEPT ![w] = o],
                 won' = [won EXCEPT ![w] = k],
                 startedAt' = [startedAt EXCEPT ![w] = 0]
          PROVE  ClaimsOK'
      <4>1. k \in Nat /\ k <= Len(thread) /\ 0 \in 0..MaxClock
        BY <1>0, BoundsAssumption DEF Views
      <4>2. /\ pc' \in [Workers -> Mid \cup Outcomes]
            /\ startedAt' \in [Workers -> 0..MaxClock]
            /\ won' \in [Workers -> Nat]
        BY <1>0, <3>2, <4>1 DEF ClaimsOK, Outcomes
      <4>3. \A v \in Workers : won'[v] <= Len(thread)
        BY <1>0, <3>2, <4>1 DEF ClaimsOK
      <4> QED
        BY <2>4, <4>2, <4>3 DEF ClaimsOK, ReadAfter
    <3>3. ClaimsOK'
      BY <2>4, <3>1, <3>2 DEF ReadAfter
    <3> QED
      BY <2>0, <2>4, <3>0, <3>3, TypedNext DEF ReadAfter
  <2>5. CASE ClaimStops(w)
    <3>1. ClaimsOK'
      BY <1>0, <1>a, <2>5, EndTypes DEF ClaimStops, Outcomes
    <3> QED
      BY <1>a, <2>0, <2>5, <3>1, TypedNext DEF ClaimStops
  <2>6. CASE ClaimReplyLost(w)
    <3>1. ThreadOK' /\ Grows
      BY <1>0, <2>6, WorkerFacts, SayTypes DEF ClaimReplyLost, LeaseActions
    <3>2. ClaimsOK'
      BY <1>0, <2>6, <3>1, EndTypes DEF ClaimReplyLost, Outcomes
    <3> QED
      BY <2>0, <2>6, <3>1, <3>2, TypedNext DEF ClaimReplyLost
  <2> QED
    BY <1>1, <2>1, <2>2, <2>3, <2>4, <2>5, <2>6 DEF Claim
\* A step that leaves claims and releases alone.
<1>b. ASSUME UNCHANGED <<clock, claimVars, releasing>>, Grows
      PROVE  ClockOK' /\ ClaimsOK' /\ ReleasingOK'
  BY <1>0, <1>b, ClaimsKept DEF ClockOK, ReleasingOK, claimVars, ClaimsOK
<1>2. ASSUME NEW w \in Workers, BeatRead(w) PROVE Typed'
  <2>1. PICK session \in {SessionOf[w], NoSession}, k \in Views :
            beats' = beats \cup
                {[worker |-> w, session |-> session,
                  target |-> HeartbeatTarget(View(k), <<LoginOf[w], session>>)]}
    BY <1>2 DEF BeatRead
  <2> DEFINE t == HeartbeatTarget(View(k), <<LoginOf[w], session>>)
             b == [worker |-> w, session |-> session, target |-> t]
  <2>2. t \in Nat /\ t <= Len(thread)
    <3>1. t \in 0..Len(thread)
      BY <1>0, TargetInThread DEF Views
    <3> QED
      BY <1>0, <3>1
  <2>3. b \in Beats /\ b.target <= Len(thread)
    <3> HIDE DEF t
    <3> QED
      BY <2>2, WorkerFacts DEF Beats
  <2>4. BeatsOK'
    <3> HIDE DEF b
    <3> QED
      BY <1>0, <1>2, <2>1, <2>3 DEF BeatsOK, BeatRead, b
  <2> QED
    BY <1>a, <1>b, <1>2, <2>4, TypedNext DEF BeatRead
<1>3. ASSUME NEW b \in beats, BeatWrite(b) PROVE Typed'
  <2>0. b \in Beats /\ b.target <= Len(thread)
    BY <1>0 DEF BeatsOK
  <2>1. CASE b.target = 0
    <3>1. ThreadOK' /\ Grows
      BY <1>0, <1>3, <2>0, <2>1, WorkerFacts, SayTypes
         DEF BeatWrite, Beats, LeaseActions
    <3> QED
      BY <1>0, <1>b, <1>3, <3>1, BeatsKept, TypedNext DEF BeatWrite
  <2>2. CASE b.target # 0
    <3>1. b.target \in 1..Len(thread)
      BY <2>0, <2>2, <1>0 DEF Beats
    <3>2. /\ thread' = [thread EXCEPT ![b.target].at = clock]
          /\ walks' = walks
      BY <1>3, <2>2 DEF BeatWrite
    <3> DEFINE edited == [thread[b.target] EXCEPT !.at = clock]
    <3>3. edited \in LeaseComments /\ edited.id = thread[b.target].id
      <4>1. clock \in Stamps
        BY <1>0, BoundsAssumption DEF ClockOK, Stamps
      <4>2. thread[b.target] \in LeaseComments
        BY <1>0, <3>1 DEF ThreadOK
      <4> QED
        BY <4>1, <4>2 DEF LeaseComments
    <3>4. thread' = [thread EXCEPT ![b.target] = edited]
      BY <3>2
    <3>5. thread' \in Seq(LeaseComments) /\ Len(thread') = Len(thread)
      <4> HIDE DEF edited
      <4> QED
        BY <1>0, <3>1, <3>3, <3>4 DEF ThreadOK
    <3>6. \A i \in 1..Len(thread) : thread'[i].id = thread[i].id
      <4> HIDE DEF edited
      <4> QED
        BY <1>0, <3>1, <3>3, <3>4 DEF ThreadOK
    <3>7. ThreadOK' /\ Grows
      BY <1>0, <3>2, <3>5, <3>6 DEF ThreadOK, Ids, Grows
    <3> QED
      BY <1>0, <1>b, <1>3, <3>7, BeatsKept, TypedNext DEF BeatWrite
  <2> QED
    BY <2>1, <2>2
<1>4. ASSUME NEW b \in beats, BeatStops(b) PROVE Typed'
  BY <1>0, <1>a, <1>b, <1>4, BeatsKept, TypedNext DEF BeatStops
<1>5. ASSUME NEW w \in Workers, Release(w) PROVE Typed'
  <2>0. ASSUME UNCHANGED <<clock, beats>>, Grows,
               releasing' \subseteq releasing \cup {w}
        PROVE  ClockOK' /\ BeatsOK' /\ ReleasingOK'
    BY <1>0, <2>0, BeatsKept DEF ClockOK, ReleasingOK
  <2>1. ASSUME UNCHANGED claimVars, Grows PROVE ClaimsOK'
    BY <1>0, <2>1, ClaimsKept DEF claimVars, ClaimsOK
  <2>2. CASE ReleaseRead(w)
    BY <1>a, <2>0, <2>1, <2>2, TypedNext DEF ReleaseRead
  <2>3. CASE ReleasePost(w)
    <3>1. ThreadOK' /\ Grows
      BY <1>0, <2>3, WorkerFacts, SayTypes DEF ReleasePost, LeaseActions
    <3>2. ClaimsOK'
      BY <1>0, <2>1, <2>3, <3>1, EndTypes DEF ReleasePost, Outcomes
    <3> QED
      BY <2>0, <2>3, <3>1, <3>2, TypedNext DEF ReleasePost
  <2>4. CASE ReleaseReplyLost(w)
    <3>1. ThreadOK' /\ Grows
      BY <1>0, <2>4, WorkerFacts, SayTypes DEF ReleaseReplyLost, LeaseActions
    <3> QED
      BY <2>0, <2>1, <2>4, <3>1, TypedNext DEF ReleaseReplyLost
  <2>5. CASE ReleaseStops(w)
    BY <1>a, <2>0, <2>1, <2>5, TypedNext DEF ReleaseStops
  <2> QED
    BY <1>5, <2>2, <2>3, <2>4, <2>5 DEF Release
<1>6. CASE Tick
  <2>1. ClockOK'
    BY <1>0, <1>6, BoundsAssumption DEF Tick, ClockOK
  <2>2. ThreadOK' /\ Grows
    BY <1>a, <1>6 DEF Tick
  <2>3. ClaimsOK' /\ ReleasingOK'
    BY <1>0, <1>6, <2>2, ClaimsKept DEF Tick, ClaimsOK, claimVars, ReleasingOK
  <2> QED
    BY <1>0, <1>6, <2>1, <2>2, <2>3, BeatsKept, TypedNext DEF Tick
<1>7. CASE UNCHANGED vars
  <2>1. ThreadOK' /\ Grows
    BY <1>a, <1>7 DEF vars
  <2> QED
    BY <1>0, <1>b, <1>7, <2>1, BeatsKept, TypedNext DEF vars, claimVars
<1> QED
  BY <1>1, <1>2, <1>3, <1>4, <1>5, <1>6, <1>7 DEF Next

\* Every variable keeps its type, the thread's walks stay in step with it,
\* and no beat is aimed past the end of the thread.
THEOREM TypeCorrect == Spec => []TypeOK
<1>1. Init => Typed
  BY InitTyped
<1>2. Typed /\ [Next]_vars => Typed'
  BY NextTyped
<1>3. Typed => TypeOK
  BY DEF Typed
<1> QED
  BY <1>1, <1>2, <1>3, PTL DEF Spec

-----------------------------------------------------------------------------
(* Every step appends one comment or edits updated_at.                     *)

LEMMA ThreadStep ==
    Typed /\ [Next]_vars => (Edits /\ Restamps) \/ \E c \in LeaseComments : Says(c)
<1> SUFFICES ASSUME Typed, [Next]_vars
             PROVE  (Edits /\ Restamps) \/ \E c \in LeaseComments : Says(c)
  OBVIOUS
<1>0. ThreadOK /\ ClaimsOK /\ BeatsOK /\ ClockOK
  BY TypedParts
<1>1. ASSUME UNCHANGED <<thread, walks>> PROVE Edits /\ Restamps
  <2>1. \A i \in 1..Len(thread) : thread'[i] = Restamp(thread[i], 0, 0)
    BY <1>0, <1>1 DEF Restamp, ThreadOK, Ids
  <2>2. 0 \in Nat /\ 0 \in Stamps
    BY DEF Stamps
  <2> QED
    BY <1>1, <2>1, <2>2 DEF Edits, Restamps
<1>2. ASSUME NEW login \in Logins, NEW session \in SessionIds,
             NEW action \in LeaseActions, Say(login, session, action)
      PROVE  \E c \in LeaseComments : Says(c)
  <2>1. clock \in Nat
    BY <1>0, BoundsAssumption DEF ClockOK
  <2> QED
    BY <1>0, <1>2, <2>1, SayStep DEF ThreadOK
<1>3. ASSUME NEW w \in Workers, Claim(w)
      PROVE  (Edits /\ Restamps) \/ \E c \in LeaseComments : Says(c)
  <2>1. CASE StartClaim(w) \/ ReadBefore(w) \/ ReadAfter(w) \/ ClaimStops(w)
    BY <1>1, <2>1 DEF StartClaim, ReadBefore, ReadAfter, ClaimStops
  <2>2. CASE PostClaim(w) \/ ClaimReplyLost(w)
    BY <1>2, <2>2, WorkerFacts DEF PostClaim, ClaimReplyLost, LeaseActions
  <2> QED
    BY <1>3, <2>1, <2>2 DEF Claim
<1>4. ASSUME NEW w \in Workers, BeatRead(w) PROVE Edits /\ Restamps
  BY <1>1, <1>4 DEF BeatRead
<1>5. ASSUME NEW b \in beats, BeatWrite(b)
      PROVE  (Edits /\ Restamps) \/ \E c \in LeaseComments : Says(c)
  <2>0. b \in Beats /\ b.target <= Len(thread)
    BY <1>0 DEF BeatsOK
  <2>1. CASE b.target = 0
    BY <1>2, <1>5, <2>0, <2>1, WorkerFacts DEF BeatWrite, Beats, LeaseActions
  <2>2. CASE b.target # 0
    <3>1. b.target \in 1..Len(thread)
      BY <1>0, <2>0, <2>2 DEF Beats, ThreadOK
    <3>2. /\ thread' = [thread EXCEPT ![b.target].at = clock]
          /\ walks' = walks
      BY <1>5, <2>2 DEF BeatWrite
    <3>3. \A i \in 1..Len(thread) :
             /\ thread'[i].action = thread[i].action
             /\ thread'[i].login = thread[i].login
      BY <1>0, <3>1, <3>2 DEF ThreadOK, LeaseComments
    <3>4. DOMAIN thread' = DOMAIN thread /\ Len(thread') = Len(thread)
      BY <1>0, <3>1, <3>2 DEF ThreadOK
    <3>5. ASSUME NEW i \in 1..Len(thread)
          PROVE  thread'[i] = Restamp(thread[i], b.target, clock)
      <4>1. thread[i].id = i
        BY <1>0 DEF ThreadOK, Ids
      <4>2. thread'[i] = IF i = b.target THEN [thread[i] EXCEPT !.at = clock]
                         ELSE thread[i]
        BY <1>0, <3>1, <3>2 DEF ThreadOK
      <4> QED
        BY <4>1, <4>2 DEF Restamp
    <3>6. b.target \in Nat /\ clock \in Stamps
      BY <1>0, <2>0, BoundsAssumption DEF Beats, ClockOK, Stamps
    <3>7. Restamps
      BY <3>5, <3>6 DEF Restamps
    <3> QED
      BY <3>2, <3>3, <3>4, <3>7 DEF Edits
  <2> QED
    BY <2>1, <2>2
<1>6. ASSUME NEW b \in beats, BeatStops(b) PROVE Edits /\ Restamps
  BY <1>1, <1>6 DEF BeatStops
<1>7. ASSUME NEW w \in Workers, Release(w)
      PROVE  (Edits /\ Restamps) \/ \E c \in LeaseComments : Says(c)
  <2>1. CASE ReleaseRead(w) \/ ReleaseStops(w)
    BY <1>1, <2>1 DEF ReleaseRead, ReleaseStops
  <2>2. CASE ReleasePost(w) \/ ReleaseReplyLost(w)
    BY <1>2, <2>2, WorkerFacts DEF ReleasePost, ReleaseReplyLost, LeaseActions
  <2> QED
    BY <1>7, <2>1, <2>2 DEF Release
<1>8. CASE Tick
  BY <1>1, <1>8 DEF Tick
<1>9. CASE UNCHANGED vars
  BY <1>1, <1>9 DEF vars
<1> QED
  BY <1>3, <1>4, <1>5, <1>6, <1>7, <1>8, <1>9 DEF Next

-----------------------------------------------------------------------------
(* The walks kept are the loop over each prefix.                           *)

LEMMA PrefixIsThread ==
    ASSUME NEW t \in Seq(LeaseComments), \A i \in 1..Len(t) : t[i].id = i,
           NEW k \in 0..Len(t)
    PROVE  IsThread({t[i] : i \in 1..k})
<1> DEFINE V == {t[i] : i \in 1..k}
           f == [i \in 1..k |-> t[i]]
<1>0. k \in Nat /\ 1..k \subseteq 1..Len(t)
  OBVIOUS
<1>1. V \subseteq LeaseComments
  BY <1>0
<1>2. f \in Surjection(1..k, V)
  BY DEF Surjection
<1>3. IsFiniteSet(V)
  <2>0. 1 \in Int /\ k \in Int
    BY <1>0
  <2>1. IsFiniteSet(1..k)
    BY <2>0, FS_Interval, Zenon
  <2> HIDE DEF f, V
  <2> QED BY <1>2, <2>1, FS_Surjection
<1>4. \A c, d \in V : c.id = d.id => c = d
  BY <1>0
<1>5. \A c \in V : c.id <= k
  BY <1>0
<1> QED
  BY <1>0, <1>1, <1>3, <1>4, <1>5 DEF IsThread

LEMMA NextFolds == Typed /\ WalksAreFolds /\ [Next]_vars => WalksAreFolds'
<1> SUFFICES ASSUME Typed, WalksAreFolds, [Next]_vars PROVE WalksAreFolds'
  OBVIOUS
<1>0. ThreadOK /\ ThreadOK' /\ Len(thread) \in Nat
  BY TypedParts, NextTyped DEF ThreadOK, Typed, TypeOK
<1>1. CASE Edits /\ Restamps
  <2>1. PICK t \in Nat, stamp \in Stamps : \A i \in 1..Len(thread) :
            thread'[i] = Restamp(thread[i], t, stamp)
    BY <1>1 DEF Restamps
  <2>2. Len(thread') = Len(thread) /\ walks' = walks
    BY <1>1 DEF Edits
  <2>3. ASSUME NEW k \in 0..Len(thread) PROVE walks'[k + 1] = WalkOf(View(k)')
    <3>1. View(k)' = Restamped(View(k), t, stamp)
      BY <1>0, <2>1 DEF View, Restamped
    <3>2. IsThread(View(k))
      BY <1>0, PrefixIsThread DEF ThreadOK, Ids, View
    <3>3. WalkOf(Restamped(View(k), t, stamp)) = WalkOf(View(k))
      BY <3>2, RestampedWalk
    <3> QED
      BY <2>2, <3>1, <3>3 DEF WalksAreFolds
  <2> QED
    BY <2>2, <2>3 DEF WalksAreFolds
<1>2. ASSUME NEW c \in LeaseComments, Says(c) PROVE WalksAreFolds'
  <2> DEFINE n == Len(thread)
  <2>1. /\ Len(thread') = n + 1
        /\ Len(walks) = n + 1
        /\ \A i \in 1..n : thread'[i] = thread[i]
        /\ thread'[n + 1] = c
        /\ \A i \in 1..(n + 1) : walks'[i] = walks[i]
        /\ walks'[n + 2] = WalkStep(walks[n + 1], c)
    <3>1. Len(walks) = n + 1 /\ Len(walks) + 1 = n + 2
      BY <1>0 DEF ThreadOK
    <3> QED
      BY <1>0, <1>2, <3>1, SaysFacts
  <2>2. ASSUME NEW k \in 0..n PROVE walks'[k + 1] = WalkOf(View(k)')
    <3>1. View(k)' = View(k)
      BY <1>0, <2>1 DEF View
    <3>2. walks'[k + 1] = walks[k + 1]
      BY <1>0, <2>1
    <3> QED
      BY <3>1, <3>2 DEF WalksAreFolds
  <2> DEFINE V == {thread'[i] : i \in 1..(n + 1)}
  <2>3. V = View(n) \cup {c}
    <3>1. 1..(n + 1) = 1..n \cup {n + 1}
      BY <1>0
    <3>3. V = {thread'[i] : i \in 1..n} \cup {thread'[n + 1]}
      BY <3>1
    <3>4. {thread'[i] : i \in 1..n} = {thread[i] : i \in 1..n}
      BY <2>1
    <3> QED
      BY <2>1, <3>3, <3>4 DEF View
  <2>4. IsThread(V)
    <3>1. n + 1 \in 0..Len(thread')
      BY <1>0, <2>1
    <3>2. thread' \in Seq(LeaseComments) /\ \A i \in 1..Len(thread') : thread'[i].id = i
      BY <1>0 DEF ThreadOK, Ids
    <3> HIDE DEF n
    <3> QED
      BY <3>1, <3>2, PrefixIsThread
  <2>5. c \in V /\ \A d \in View(n) : d.id < c.id
    <3>1. c.id = n + 1
      BY <1>2 DEF Says
    <3>2. \A i \in 1..n : thread[i].id = i
      BY <1>0 DEF ThreadOK, Ids
    <3> QED
      BY <1>0, <2>3, <3>1, <3>2 DEF View
  <2>6. Newest(V) = c /\ V \ {c} = View(n)
    <3> HIDE DEF V
    <3>1. Newest(V) \in V /\ \A d \in V : d.id <= Newest(V).id
      BY <2>4, <2>5, NewestIsLast
    <3>2. \A d \in V : d.id \in Nat
      BY <2>4 DEF IsThread, LeaseComments
    <3>3. Newest(V) \notin View(n)
      <4>1. ASSUME NEW d \in View(n) PROVE d.id < c.id /\ d.id \in Nat /\ c.id \in Nat
        BY <2>3, <2>5, <3>2
      <4>2. c.id <= Newest(V).id
        BY <2>5, <3>1
      <4> QED
        BY <4>1, <4>2
    <3>4. c \notin View(n)
      BY <2>3, <2>5, <3>2
    <3> QED
      BY <2>3, <3>1, <3>3, <3>4
  <2>7. WalkOf(V) = WalkStep(WalkOf(View(n)), c)
    <3> HIDE DEF V
    <3> QED BY <2>4, <2>5, <2>6, WalkOfNewest
  <2>8. walks'[n + 2] = WalkOf(V)
    BY <1>0, <2>1, <2>7 DEF WalksAreFolds
  <2>9. ASSUME NEW k \in 0..Len(thread') PROVE walks'[k + 1] = WalkOf(View(k)')
    <3>1. k \in 0..n \/ k = n + 1
      BY <1>0, <2>1
    <3>2. CASE k = n + 1
      <4>1. k + 1 = n + 2
        BY <1>0, <3>2
      <4>2. View(k)' = V
        BY <3>2 DEF View
      <4> QED
        BY <2>8, <4>1, <4>2
    <3> QED
      BY <2>2, <3>1, <3>2
  <2> QED
    BY <2>9 DEF WalksAreFolds
<1> QED
  BY <1>1, <1>2, ThreadStep

\* On every prefix, the walk that a reader decides from is the loop of
\* decide_lease over the comments of that prefix, with whatever stamps beats
\* have given them since.
LEMMA WalksAreFoldsHolds == Spec => []WalksAreFolds
<1>1. Init => Typed /\ WalksAreFolds
  <2> SUFFICES ASSUME Init PROVE WalksAreFolds
    BY InitTyped
  <2>1. Len(thread) = 0 /\ walks[1] = EmptyWalk /\ View(0) = {}
    BY DEF Init, View
  <2> QED
    BY <2>1, WalkOfNothing DEF WalksAreFolds
<1>2. Typed /\ WalksAreFolds /\ [Next]_vars => (Typed /\ WalksAreFolds)'
  BY NextTyped, NextFolds
<1> QED
  BY <1>1, <1>2, PTL DEF Spec

-----------------------------------------------------------------------------
(* The strengthening.  Any two readers agree on a holder, the later one's  *)
(* view extending the earlier one's, unless a release by the holder's      *)
(* login lies between their views.                                         *)

Persists ==
    \A j, k \in 0..Len(thread) :
        (j <= k /\ walks[j + 1].holder # Nobody) =>
            \/ walks[k + 1].holder = walks[j + 1].holder
            \/ ReleasedBetween(walks[j + 1].holder[1], j, k)

LEMMA NextPersists == Typed /\ Persists /\ [Next]_vars => Persists'
<1> SUFFICES ASSUME Typed, Persists, [Next]_vars PROVE Persists'
  OBVIOUS
<1>0. ThreadOK /\ Len(thread) \in Nat
  BY TypedParts DEF ThreadOK
<1>1. CASE Edits
  <2>1. \A l : \A j, k \in 0..Len(thread) :
            ReleasedBetween(l, j, k) => ReleasedBetween(l, j, k)'
    BY <1>0, <1>1 DEF Edits, ReleasedBetween
  <2> QED
    BY <1>1, <2>1 DEF Edits, Persists
<1>2. ASSUME NEW c \in LeaseComments, Says(c) PROVE Persists'
  <2>1. /\ Len(thread') = Len(thread) + 1
        /\ Len(walks) = Len(thread) + 1
        /\ \A i \in 1..Len(thread) : thread'[i] = thread[i]
        /\ thread'[Len(thread) + 1] = c
        /\ \A i \in 1..Len(walks) : walks'[i] = walks[i]
        /\ walks'[Len(walks) + 1] = WalkStep(walks[Len(walks)], c)
    BY <1>0, <1>2, SaysFacts DEF ThreadOK
  \* A release by l among the comments after j, up to k, in the new thread.
  <2> DEFINE FreedBy(l, j, k) ==
                 \E i \in (j + 1)..k : /\ thread'[i].action = "release"
                                      /\ thread'[i].login = l
  <2> SUFFICES ASSUME NEW j \in 0..Len(thread'), NEW k \in 0..Len(thread'),
                      j <= k, walks'[j + 1].holder # Nobody
               PROVE  \/ walks'[k + 1].holder = walks'[j + 1].holder
                      \/ FreedBy(walks'[j + 1].holder[1], j, k)
    BY DEF Persists, ReleasedBetween
  <2> DEFINE h == walks'[j + 1].holder
  <2>2. CASE k <= Len(thread)
    <3>1. j \in 0..Len(thread) /\ k \in 0..Len(thread)
      BY <1>0, <2>1, <2>2
    <3>2. h = walks[j + 1].holder /\ walks'[k + 1] = walks[k + 1]
      BY <1>0, <2>1, <3>1
    <3>3. walks[k + 1].holder = h \/ ReleasedBetween(h[1], j, k)
      BY <3>1, <3>2 DEF Persists
    <3>4. ReleasedBetween(h[1], j, k) => FreedBy(h[1], j, k)
      BY <1>0, <2>1, <3>1 DEF ReleasedBetween
    <3> QED
      BY <3>2, <3>3, <3>4
  <2>3. CASE k = Len(thread) + 1 /\ j = k
    BY <2>3
  <2>4. CASE k = Len(thread) + 1 /\ j # k
    <3> DEFINE n == Len(thread)
    <3>1. j \in 0..n /\ j <= n /\ n \in 0..n
      BY <1>0, <2>1, <2>4
    <3>2. h = walks[j + 1].holder
      BY <1>0, <2>1, <3>1
    <3>3. walks[n + 1].holder = h \/ ReleasedBetween(h[1], j, n)
      BY <3>1, <3>2 DEF Persists
    <3>4. ReleasedBetween(h[1], j, n) => FreedBy(h[1], j, k)
      BY <1>0, <2>1, <2>4, <3>1 DEF ReleasedBetween
    <3>5. ASSUME walks[n + 1].holder = h, WalkStep(walks[n + 1], c).holder # h
          PROVE  FreedBy(h[1], j, k)
      <4>1. walks[n + 1] \in Walks
        BY <1>0 DEF ThreadOK
      <4>2. c.action = "release" /\ c.login = h[1]
        BY <3>5, <4>1, WalkStepKeepsHolder
      <4>3. thread'[k] = c /\ k \in (j + 1)..k
        BY <1>0, <2>1, <2>4, <3>1
      <4> QED
        BY <4>2, <4>3
    <3>6. walks'[k + 1] = WalkStep(walks[n + 1], c)
      BY <1>0, <2>1, <2>4
    <3> QED
      BY <3>3, <3>4, <3>5, <3>6
  <2> QED
    BY <1>0, <2>1, <2>2, <2>3, <2>4
<1> QED
  BY <1>1, <1>2, ThreadStep

\* Who was told WON of a free lease was its holder in the view it read.
WonThen ==
    \A w \in Workers : pc[w] = "won" => walks[won[w] + 1].holder = Id(w)

LEMMA NextWonThen == Typed /\ WonThen /\ [Next]_vars => WonThen'
<1> SUFFICES ASSUME Typed, WonThen, [Next]_vars,
                    NEW w \in Workers, pc'[w] = "won"
             PROVE  walks'[won'[w] + 1].holder = Id(w)
  BY DEF WonThen, Id
<1>0. ThreadOK /\ ClaimsOK /\ Len(thread) \in Nat
  BY TypedParts DEF ThreadOK
<1>1. \A k \in 0..Len(thread) : walks'[k + 1] = walks[k + 1]
  <2>1. CASE Edits
    BY <2>1 DEF Edits
  <2>2. ASSUME NEW c \in LeaseComments, Says(c)
        PROVE  \A k \in 0..Len(thread) : walks'[k + 1] = walks[k + 1]
    <3>1. \A i \in 1..Len(walks) : walks'[i] = walks[i]
      BY <1>0, <2>2, SaysFacts
    <3> QED
      BY <1>0, <3>1 DEF ThreadOK
  <2> QED
    BY <2>1, <2>2, ThreadStep
<1>2. won[w] \in 0..Len(thread)
  BY <1>0 DEF ClaimsOK
<1>3. CASE pc[w] = "won" /\ won'[w] = won[w]
  BY <1>1, <1>2, <1>3 DEF WonThen
<1>4. ASSUME NEW k \in Views,
             DecideView(k, startedAt[w]).holder = Id(w),
             DecideView(k, startedAt[w]).reason = "claimed",
             won'[w] = k
      PROVE  walks'[won'[w] + 1].holder = Id(w)
  <2>1. walks[k + 1].holder = Id(w)
    BY <1>4, DecideClaimed DEF DecideView
  <2>2. k \in 0..Len(thread)
    BY DEF Views
  <2> QED
    BY <1>1, <1>4, <2>1, <2>2
<1> DEFINE Claimed == \E k \in Views :
                         /\ DecideView(k, startedAt[w]).holder = Id(w)
                         /\ DecideView(k, startedAt[w]).reason = "claimed"
                         /\ won'[w] = k
<1>5. (pc[w] = "won" /\ won'[w] = won[w]) \/ Claimed
  <2>1. ASSUME UNCHANGED claimVars PROVE pc[w] = "won" /\ won'[w] = won[w]
    BY <2>1 DEF claimVars
  <2>2. ASSUME NEW v \in Workers, NEW o \in Outcomes \ {"won"}, End(v, o)
        PROVE  pc[w] = "won" /\ won'[w] = won[w]
    BY <1>0, <2>2 DEF End, ClaimsOK
  <2>3. ASSUME NEW v \in Workers, NEW m \in Mid,
               pc' = [pc EXCEPT ![v] = m],
               won' = won \/ won' = [won EXCEPT ![v] = 0]
        PROVE  pc[w] = "won" /\ won'[w] = won[w]
    BY <1>0, <2>3 DEF ClaimsOK, Mid
  <2>4. ASSUME NEW v \in Workers, StartClaim(v) \/ ReadBefore(v) \/ PostClaim(v)
                 \/ ClaimStops(v) \/ ClaimReplyLost(v)
        PROVE  pc[w] = "won" /\ won'[w] = won[w]
    <3>1. CASE StartClaim(v)
      BY <2>3, <3>1 DEF StartClaim, Mid
    <3>2. CASE ReadBefore(v)
      BY <2>2, <2>3, <3>2 DEF ReadBefore, Mid, Outcomes
    <3>3. CASE PostClaim(v)
      BY <2>3, <3>3 DEF PostClaim, Mid
    <3>4. CASE ClaimStops(v) \/ ClaimReplyLost(v)
      BY <2>2, <3>4 DEF ClaimStops, ClaimReplyLost, Outcomes
    <3> QED
      BY <2>4, <3>1, <3>2, <3>3, <3>4
  <2>5. ASSUME NEW v \in Workers, ReadAfter(v)
        PROVE  (pc[w] = "won" /\ won'[w] = won[w]) \/ Claimed
    <3>1. PICK k \in Views :
              LET decided == DecideView(k, startedAt[v])
              IN  \/ /\ decided.holder = Id(v)
                     /\ pc' = [pc EXCEPT ![v] =
                                   IF decided.reason = "claimed" THEN "won"
                                                                 ELSE "took"]
                     /\ won' = [won EXCEPT ![v] = k]
                     /\ startedAt' = [startedAt EXCEPT ![v] = 0]
                  \/ decided.holder = Nobody /\ End(v, "unseen")
                  \/ /\ decided.holder \notin {Nobody, Id(v)}
                     /\ End(v, "idle")
      BY <2>5 DEF ReadAfter
    <3>2. CASE End(v, "unseen") \/ End(v, "idle")
      BY <2>2, <3>2 DEF Outcomes
    <3>3. CASE /\ DecideView(k, startedAt[v]).holder = Id(v)
               /\ pc' = [pc EXCEPT ![v] =
                             IF DecideView(k, startedAt[v]).reason = "claimed"
                             THEN "won" ELSE "took"]
               /\ won' = [won EXCEPT ![v] = k]
      <4>1. CASE v = w
        BY <1>0, <3>3, <4>1 DEF ClaimsOK
      <4>2. CASE v # w
        BY <1>0, <3>3, <4>2 DEF ClaimsOK
      <4> QED
        BY <4>1, <4>2
    <3> QED
      BY <3>1, <3>2, <3>3
  <2>6. ASSUME NEW v \in Workers, Release(v)
        PROVE  pc[w] = "won" /\ won'[w] = won[w]
    BY <2>1, <2>2, <2>6
       DEF Release, ReleaseRead, ReleasePost, ReleaseReplyLost, ReleaseStops, Outcomes
  <2>7. ASSUME NEW v \in Workers, BeatRead(v) PROVE UNCHANGED claimVars
    BY <2>7 DEF BeatRead
  <2>8. ASSUME NEW b \in beats, BeatWrite(b) \/ BeatStops(b)
        PROVE  UNCHANGED claimVars
    BY <2>8 DEF BeatWrite, BeatStops
  <2>9. Tick \/ UNCHANGED vars => UNCHANGED claimVars
    BY DEF Tick, vars, claimVars
  <2> QED
    BY <2>1, <2>4, <2>5, <2>6, <2>7, <2>8, <2>9 DEF Next, Claim
<1> QED
  BY <1>3, <1>4, <1>5

-----------------------------------------------------------------------------
(* The inductive invariant, and what follows from it.                      *)

IInv == Typed /\ Persists /\ WonThen

LEMMA InitIInv == Init => IInv
<1> SUFFICES ASSUME Init PROVE IInv
  OBVIOUS
<1>1. Typed
  BY InitTyped
<1>2. Len(thread) = 0 /\ walks[1].holder = Nobody
  BY DEF Init, EmptyWalk
<1>3. Persists
  BY <1>2 DEF Persists
<1>4. WonThen
  BY DEF Init, WonThen
<1> QED
  BY <1>1, <1>3, <1>4 DEF IInv

LEMMA NextIInv == IInv /\ [Next]_vars => IInv'
  BY NextTyped, NextPersists, NextWonThen DEF IInv

LEMMA InvariantHolds == Spec => []IInv
  BY InitIInv, NextIInv, PTL DEF Spec

\* A winner is the walk's holder in every view that extends its own, up to a
\* release by its login.
LEMMA WinnerInView ==
    ASSUME IInv, NEW w \in Workers, pc[w] = "won",
           NEW k \in 0..Len(thread), won[w] <= k,
           ~ReleasedBetween(LoginOf[w], won[w], k)
    PROVE  walks[k + 1].holder = Id(w) /\ Id(w) # Nobody
<1>1. won[w] \in 0..Len(thread)
  BY TypedParts DEF IInv, ClaimsOK, ThreadOK
<1>2. walks[won[w] + 1].holder = Id(w)
  BY DEF IInv, WonThen
<1> QED
  BY <1>1, <1>2, WorkerFacts DEF IInv, Persists

\* No two workers are told WON of the same free lease, however many there
\* are, whoever they run as, and however far their reads lag.
THEOREM OneWinnerHolds == Spec => []OneWinner
<1>1. IInv => OneWinner
  <2> SUFFICES ASSUME IInv, NEW v \in Workers, NEW w \in Workers,
                      pc[v] = "won", pc[w] = "won", ~Released(v), ~Released(w)
               PROVE  v = w
    BY DEF OneWinner
  <2>1. /\ Len(thread) \in Nat
        /\ won[v] <= Len(thread) /\ won[w] <= Len(thread)
    BY TypedParts DEF IInv, ClaimsOK, ThreadOK
  <2>2. Id(v) = walks[Len(thread) + 1].holder
    BY <2>1, WinnerInView DEF Released
  <2>3. Id(w) = walks[Len(thread) + 1].holder
    BY <2>1, WinnerInView DEF Released
  <2> QED
    BY <2>2, <2>3, DistinctAssumption DEF Id
<1> QED
  BY <1>1, InvariantHolds, PTL

\* Every reader whose view holds the winning claim decides for the winner
\* while that is fresh to it and has not released.
THEOREM ReadersAgreeHolds == Spec => []ReadersAgreeOnAWinner
<1>1. IInv => ReadersAgreeOnAWinner
  <2> SUFFICES ASSUME IInv, NEW w \in Workers, NEW k \in won[w]..Len(thread),
                      NEW n \in 0..clock, pc[w] = "won",
                      ~ReleasedBetween(LoginOf[w], won[w], k),
                      Fresh(View(k), Id(w), n)
               PROVE  DecideView(k, n).holder = Id(w)
    BY DEF ReadersAgreeOnAWinner
  <2>1. won[w] \in Nat /\ Len(thread) \in Nat
    BY TypedParts DEF IInv, ClaimsOK, ThreadOK
  <2>2. walks[k + 1].holder = Id(w) /\ Id(w) # Nobody
    BY <2>1, WinnerInView
  <2> QED
    BY <2>2, DecideFresh DEF DecideView
<1> QED
  BY <1>1, InvariantHolds, PTL

\* What a step does to the walk's holder.
LEMMA HolderStep ==
    ASSUME Typed, [Next]_vars, Holder' # Holder
    PROVE  /\ Holder' \in WorkerIds \cup {Nobody}
           /\ Holder # Nobody =>
                 /\ Holder' = Nobody
                 /\ thread'[Len(thread')].action = "release"
                 /\ thread'[Len(thread')].login = Holder[1]
<1>0. ThreadOK /\ Len(walks) \in Nat /\ Len(walks) = Len(thread) + 1
  BY TypedParts DEF ThreadOK
<1>1. PICK c \in LeaseComments : Says(c)
  BY ThreadStep DEF Edits, Holder
<1>2. /\ Len(thread') = Len(thread) + 1
      /\ Len(walks') = Len(walks) + 1
      /\ thread'[Len(thread')] = c
      /\ walks'[Len(walks')] = WalkStep(walks[Len(walks)], c)
  <2>1. ThreadOK'
    BY <1>0, <1>1, SaysFacts
  <2>2. Len(walks') = Len(thread') + 1
    BY <2>1 DEF ThreadOK
  <2> QED
    BY <1>0, <1>1, <2>2, SaysFacts
<1>3. walks[Len(walks)] \in Walks
  BY <1>0 DEF ThreadOK
<1>4. WalkStep(walks[Len(walks)], c).holder \in WorkerIds \cup {Nobody}
  BY <1>3, WalkStepType DEF Walks
<1>5. /\ Holder = walks[Len(walks)].holder
      /\ Holder' = WalkStep(walks[Len(walks)], c).holder
  BY <1>2 DEF Holder
<1>6. ASSUME Holder # Nobody
      PROVE  /\ Holder' = Nobody
             /\ thread'[Len(thread')].action = "release"
             /\ thread'[Len(thread')].login = Holder[1]
  BY <1>2, <1>3, <1>5, <1>6, WalkStepKeepsHolder
<1> QED
  BY <1>4, <1>5, <1>6

\* Only its own login's release takes the lease from the walk's holder.
THEOREM HolderLosesOnlyByItsReleaseHolds == Spec => HolderLosesOnlyByItsRelease
<1>1. Typed /\ [Next]_vars =>
        [Holder # Nobody /\ Holder' # Holder =>
            /\ Holder' = Nobody
            /\ thread'[Len(thread')].action = "release"
            /\ thread'[Len(thread')].login = Holder[1]]_vars
  BY HolderStep
<1>2. Spec => []Typed
  BY InitTyped, NextTyped, PTL DEF Spec
<1> QED
  BY <1>1, <1>2, PTL DEF Spec, HolderLosesOnlyByItsRelease
=============================================================================
