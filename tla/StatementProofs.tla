--------------------------- MODULE StatementProofs ---------------------------
(***************************************************************************)
(* What is taken for a declaration's statement, in each prover's syntax,   *)
(* is all of it and nothing of its proof, for texts and declarations of    *)
(* any length: the scan of a Lean signature, the scan of a Rocq sentence,  *)
(* and the lines of an Isabelle header.  And the declarations of a file    *)
(* are found under their true names, with all of their lines and none of   *)
(* another's (DeclSpans), for files of any length.                         *)
(***************************************************************************)
EXTENDS Statements, DeclSpans, TextProofs

-----------------------------------------------------------------------------
(* LeanStatement: the depth of the brackets before each token.             *)

LEMMA TokensDiffer ==
    /\ Bar # Where /\ Bar # Assign /\ Bar # Arrow /\ Bar # NextLine /\ Bar # Opener /\ Bar # Closer
    /\ Where # Assign /\ Where # Arrow /\ Where # Opener /\ Where # Closer /\ Where # NextLine
    /\ Assign # Arrow /\ Assign # Opener /\ Assign # Closer /\ Assign # NextLine
    /\ Arrow # Opener /\ Arrow # Closer /\ Arrow # NextLine /\ Opener # Closer
    /\ NextLine # Opener /\ NextLine # Closer
    /\ Term \notin {Where, Assign, Arrow, NextLine, Bar}
BY DEF Bar, Where, Assign, Arrow, NextLine, Opener, Closer, Term

LEMMA DepthIsNat ==
    ASSUME NEW n \in Nat, NEW s
    PROVE  DepthAfter(n, s) \in Nat
BY DEF DepthAfter, Opener, Closer

LEMMA DepthStays ==
    ASSUME NEW n \in Nat, NEW s, s # Opener, s # Closer
    PROVE  DepthAfter(n, s) = n
BY DEF DepthAfter

IsDepths(f, d) == f = [k \in Nat |-> IF k = 0 THEN 0 ELSE DepthAfter(f[k - 1], d[k])]
Depths(d) == CHOOSE f : IsDepths(f, d)

LEMMA DepthsRun ==
    ASSUME NEW d
    PROVE  /\ Depths(d) \in [Nat -> Nat] /\ Depths(d)[0] = 0
           /\ \A k \in Nat : Depths(d)[k + 1] = DepthAfter(Depths(d)[k], d[k + 1])
           /\ Depth(d) = Depths(d)[Len(d)]
<1> DEFINE base == [k \in Nat |-> 0]
           next == [k \in Nat |-> IF k = 0 THEN 0 ELSE k - 1]
           g == [k \in Nat |-> [b \in Nat |-> DepthAfter(b, d[k])]]
           rank == [k \in Nat |-> k]
<1>1. base \in [Nat -> Nat] /\ next \in [Nat -> Nat] /\ rank \in [Nat -> Nat]
      /\ \A k \in Nat : k \notin {0} => rank[next[k]] < rank[k]
  OBVIOUS
<1>2. g \in [Nat -> [Nat -> Nat]]
  BY DepthIsNat
<1>3. PICK f : IsWalk(f, Nat, Nat, {0}, base, next, g)
  <2> HIDE DEF base, next, g, rank
  <2> QED BY <1>1, <1>2, WalkExists
<1>4. f \in [Nat -> Nat] /\ f[0] = 0
  BY <1>3 DEF IsWalk
<1>5. ASSUME NEW k \in Nat, k # 0 PROVE f[k] = DepthAfter(f[k - 1], d[k])
  <2>1. f[k] = g[k][f[next[k]]]
    <3> HIDE DEF g, next, base
    <3> QED BY <1>3, <1>5 DEF IsWalk
  <2>2. next[k] = k - 1 /\ f[k - 1] \in Nat
    BY <1>4, <1>5
  <2> QED
    BY <2>1, <2>2
<1>6. IsDepths(f, d)
  BY <1>4, <1>5 DEF IsDepths
<1>7. IsDepths(Depths(d), d)
  BY <1>6 DEF Depths
<1>8. PICK D : D = Depths(d)
  OBVIOUS
<1>9. D[0] = 0 /\ \A k \in Nat : D[k + 1] = DepthAfter(D[k], d[k + 1])
  <2>1. \A k \in Nat : k + 1 \in Nat /\ k + 1 # 0 /\ (k + 1) - 1 = k
    OBVIOUS
  <2> QED
    BY <1>7, <1>8, <2>1 DEF IsDepths
<1>10. DOMAIN D = Nat /\ D = [k \in Nat |-> D[k]]
  BY <1>7, <1>8 DEF IsDepths
<1>11. Nat \subseteq {k \in Nat : D[k] \in Nat}
  <2> DEFINE S == {k \in Nat : D[k] \in Nat}
  <2>1. 0 \in S
    BY <1>9
  <2>2. \A k \in Nat : k \in S => k + 1 \in S
    BY <1>9, DepthIsNat
  <2> HIDE DEF S
  <2> QED BY <2>1, <2>2, SetInduction DEF S
<1>12. D \in [Nat -> Nat]
  BY <1>10, <1>11
<1>13. Depth(d) = D[Len(d)]
  BY <1>8 DEF Depth, Depths, IsDepths
<1> QED
  BY <1>8, <1>9, <1>12, <1>13

\* It is of the tokens before it.
LEMMA DepthsAgree ==
    ASSUME NEW c, NEW d, NEW n \in Nat, \A k \in 1..n : c[k] = d[k]
    PROVE  \A k \in 0..n : Depths(c)[k] = Depths(d)[k]
<1> DEFINE S == {k \in Nat : k <= n => Depths(c)[k] = Depths(d)[k]}
<1>1. 0 \in S
  BY DepthsRun
<1>2. ASSUME NEW k \in Nat, k \in S PROVE k + 1 \in S
  <2> SUFFICES ASSUME k + 1 <= n PROVE Depths(c)[k + 1] = Depths(d)[k + 1]
    OBVIOUS
  <2>1. Depths(c)[k] = Depths(d)[k] /\ c[k + 1] = d[k + 1]
    BY <1>2
  <2> QED
    BY <2>1, DepthsRun
<1> HIDE DEF S
<1>3. Nat \subseteq S
  BY <1>1, <1>2, SetInduction
<1> QED
  BY <1>3 DEF S

LEMMA DepthOfBeginning ==
    ASSUME NEW d \in Seq(Tokens), NEW n \in 0..Len(d)
    PROVE  Depth(SubSeq(d, 1, n)) = Depths(d)[n]
<1>1. PICK c : c = SubSeq(d, 1, n)
  OBVIOUS
<1>2. Len(c) = n /\ \A k \in 1..n : c[k] = d[k]
  BY <1>1
<1>3. n \in Nat /\ n \in 0..n
  OBVIOUS
<1>4. \A k \in 0..n : Depths(c)[k] = Depths(d)[k]
  BY <1>2, <1>3, DepthsAgree
<1>5. Depth(c) = Depths(c)[n]
  BY <1>2, DepthsRun
<1> QED
  BY <1>1, <1>3, <1>4, <1>5

-----------------------------------------------------------------------------
(* The scan.                                                               *)

Places == Nat \X Nat \X Nat

IsScan(f, d) ==
    f = [at \in Nat \X Nat \X Nat |->
            LET i == at[1]  depth == at[2]  pending == at[3]
            IN  IF i > Len(d) THEN 0
                ELSE IF depth = 0 /\ pending = 0 /\ IsLineInitialPipe(d, i)
                     THEN f[<<i + 1, depth, i>>]
                ELSE IF depth = 0 /\ pending # 0 /\ d[i] = Arrow THEN pending - 1
                ELSE IF depth = 0 /\ d[i] \in {Where, Assign} THEN i
                ELSE f[<<i + 1, DepthAfter(depth, d[i]), pending>>]]

ScanOn(d) == CHOOSE f : IsScan(f, d)

\* At a place of the text the scan remembers a bar, answers, or goes on.
LEMMA ScanSteps ==
    ASSUME NEW d \in Seq(Tokens), NEW i \in Nat, NEW depth \in Nat, NEW pending \in Nat
    PROVE  ScanOn(d)[<<i, depth, pending>>] =
             IF i > Len(d) THEN 0
             ELSE IF depth = 0 /\ pending = 0 /\ IsLineInitialPipe(d, i)
                  THEN ScanOn(d)[<<i + 1, depth, i>>]
             ELSE IF depth = 0 /\ pending # 0 /\ d[i] = Arrow THEN pending - 1
             ELSE IF depth = 0 /\ d[i] \in {Where, Assign} THEN i
             ELSE ScanOn(d)[<<i + 1, DepthAfter(depth, d[i]), pending>>]
<1> DEFINE Bars(p) == p[2] = 0 /\ p[3] = 0 /\ IsLineInitialPipe(d, p[1])
           Alt(p) == p[2] = 0 /\ p[3] # 0 /\ d[p[1]] = Arrow
           Simple(p) == p[2] = 0 /\ d[p[1]] \in {Where, Assign}
           Stop == {p \in Places : p[1] > Len(d) \/ (~Bars(p) /\ (Alt(p) \/ Simple(p)))}
           base == [p \in Places |-> IF p[1] > Len(d) THEN 0
                                     ELSE IF Alt(p) THEN p[3] - 1 ELSE p[1]]
           next == [p \in Places |-> IF Bars(p) THEN <<p[1] + 1, p[2], p[1]>>
                                     ELSE <<p[1] + 1, DepthAfter(p[2], d[p[1]]), p[3]>>]
           g == [p \in Places |-> [v \in Int |-> v]]
           rank == [p \in Places |-> IF p[1] > Len(d) THEN 0 ELSE Len(d) + 1 - p[1]]
<1>0. \A p \in Places : p = <<p[1], p[2], p[3]>> /\ p[1] \in Nat /\ p[2] \in Nat /\ p[3] \in Nat
  BY DEF Places
<1>1. base \in [Places -> Int] /\ g \in [Places -> [Int -> Int]]
  <2> HIDE DEF Places, Alt
  <2> QED BY <1>0
<1>2. next \in [Places -> Places]
  <2> SUFFICES ASSUME NEW p \in Places PROVE next[p] \in Places
    OBVIOUS
  <2>1. DepthAfter(p[2], d[p[1]]) \in Nat
    BY <1>0, DepthIsNat
  <2>2. <<p[1] + 1, p[2], p[1]>> \in Places /\ <<p[1] + 1, DepthAfter(p[2], d[p[1]]), p[3]>> \in Places
    BY <1>0, <2>1 DEF Places
  <2> HIDE DEF Bars, Places
  <2> QED
    BY <2>2
<1>3. rank \in [Places -> Nat] /\ \A p \in Places : p \notin Stop => rank[next[p]] < rank[p]
  <2>1. Len(d) \in Nat
    OBVIOUS
  <2>2. \A p \in Places : next[p][1] = p[1] + 1
    <3> HIDE DEF Bars, Places
    <3> QED BY <1>0
  <2>3. \A p \in Places : next[p] \in Places
    BY <1>2
  <2>4. \A p \in Places : p \notin Stop => p[1] <= Len(d)
    <3> HIDE DEF Bars, Alt, Simple, Places
    <3> QED BY <1>0, <2>1
  <2> HIDE DEF next, Places, Stop
  <2>5. \A p \in Places : rank[p] = IF p[1] > Len(d) THEN 0 ELSE Len(d) + 1 - p[1]
    OBVIOUS
  <2>6. rank \in [Places -> Nat]
    BY <1>0, <2>1
  <2> HIDE DEF rank
  <2>7. ASSUME NEW p \in Places, p \notin Stop PROVE rank[next[p]] < rank[p]
    <3>1. p[1] <= Len(d) /\ p[1] \in Nat /\ next[p][1] = p[1] + 1 /\ next[p] \in Places
      BY <1>0, <2>2, <2>3, <2>4, <2>7
    <3> QED
      BY <2>1, <2>5, <3>1
  <2> QED
    BY <2>6, <2>7
<1>4. PICK f : IsWalk(f, Places, Int, Stop, base, next, g)
  <2> HIDE DEF Places, Stop, base, next, g, rank
  <2> QED BY <1>1, <1>2, <1>3, WalkExists
<1> DEFINE Body(h, p) ==
             IF p[1] > Len(d) THEN 0
             ELSE IF p[2] = 0 /\ p[3] = 0 /\ IsLineInitialPipe(d, p[1])
                  THEN h[<<p[1] + 1, p[2], p[1]>>]
             ELSE IF p[2] = 0 /\ p[3] # 0 /\ d[p[1]] = Arrow THEN p[3] - 1
             ELSE IF p[2] = 0 /\ d[p[1]] \in {Where, Assign} THEN p[1]
             ELSE h[<<p[1] + 1, DepthAfter(p[2], d[p[1]]), p[3]>>]
<1>5. ASSUME NEW p \in Places PROVE f[p] = Body(f, p)
  <2>1. f[p] = IF p \in Stop THEN base[p] ELSE g[p][f[next[p]]]
    <3> HIDE DEF Places, Stop, base, next, g
    <3> QED BY <1>4 DEF IsWalk
  <2>2. f[next[p]] \in Int /\ next[p] \in Places
    <3> HIDE DEF Places, Stop, base, next, g
    <3> QED BY <1>2, <1>4 DEF IsWalk
  <2>3. g[p][f[next[p]]] = f[next[p]]
    BY <2>2
  <2>4. base[p] = IF p[1] > Len(d) THEN 0 ELSE IF Alt(p) THEN p[3] - 1 ELSE p[1]
    OBVIOUS
  <2>5. next[p] = IF Bars(p) THEN <<p[1] + 1, p[2], p[1]>>
                  ELSE <<p[1] + 1, DepthAfter(p[2], d[p[1]]), p[3]>>
    OBVIOUS
  <2>6. p \in Stop <=> p[1] > Len(d) \/ (~Bars(p) /\ (Alt(p) \/ Simple(p)))
    OBVIOUS
  <2>7. Body(f, p) = IF p[1] > Len(d) THEN 0
                     ELSE IF Bars(p) THEN f[<<p[1] + 1, p[2], p[1]>>]
                     ELSE IF Alt(p) THEN p[3] - 1
                     ELSE IF Simple(p) THEN p[1]
                     ELSE f[<<p[1] + 1, DepthAfter(p[2], d[p[1]]), p[3]>>]
    OBVIOUS
  <2> HIDE DEF Body, Stop, base, next, g, Bars, Alt, Simple, Places
  <2> QED
    BY <2>1, <2>3, <2>4, <2>5, <2>6, <2>7
<1>6. \A h : IsScan(h, d) <=> h = [p \in Places |-> Body(h, p)]
  BY DEF IsScan, Places
<1>7. IsScan(f, d)
  <2>1. f = [p \in Places |-> f[p]]
    BY <1>4 DEF IsWalk
  <2> HIDE DEF Body, Places
  <2> QED
    BY <1>5, <1>6, <2>1
<1>8. PICK h : h = ScanOn(d)
  OBVIOUS
<1>9. h = [p \in Places |-> Body(h, p)]
  <2> HIDE DEF Body, Places
  <2>1. IsScan(h, d)
    BY <1>7, <1>8 DEF ScanOn
  <2> QED
    BY <1>6, <2>1
<1>10. <<i, depth, pending>> \in Places
  BY DEF Places
<1>11. h[<<i, depth, pending>>] = Body(h, <<i, depth, pending>>)
  <2> HIDE DEF Body, Places
  <2> QED BY <1>9, <1>10
<1> QED
  BY <1>8, <1>11

LEMMA ScanFromStart ==
    ASSUME NEW d
    PROVE  ScanToSignatureEnd(d) = ScanOn(d)[<<1, 0, 0>>]
BY DEF ScanToSignatureEnd, ScanOn, IsScan

\* A bar outside brackets that begins a line.
LineBar(d, i) == IsLineInitialPipe(d, i) /\ Depths(d)[i - 1] = 0

\* Nothing up to m ends a signature: `:=` and `where` are in brackets, and so
\* are arrows after such a bar.
Quiet(d, m) ==
    \A i \in 1..m :
        Depths(d)[i - 1] = 0 =>
            /\ d[i] \notin {Assign, Where}
            /\ d[i] = Arrow => \A j \in 1..(i - 1) : ~LineBar(d, j)

\* The scan remembers a bar only if it has passed one.
Remembers(d, i, p) == p # 0 => \E j \in 1..(i - 1) : LineBar(d, j)

LEMMA ScanPasses ==
    ASSUME NEW d \in Seq(Tokens), NEW i \in 1..Len(d), NEW p \in Nat,
           Depths(d)[i - 1] = 0 => d[i] \notin {Assign, Where} /\ (d[i] = Arrow => p = 0)
    PROVE  ScanOn(d)[<<i, Depths(d)[i - 1], p>>] =
           ScanOn(d)[<<i + 1, Depths(d)[i],
                       IF Depths(d)[i - 1] = 0 /\ p = 0 /\ IsLineInitialPipe(d, i)
                       THEN i ELSE p>>]
<1> DEFINE D == Depths(d)
<1>1. i \in Nat /\ i - 1 \in Nat /\ (i - 1) + 1 = i /\ ~(i > Len(d))
  OBVIOUS
<1>2. D[i - 1] \in Nat /\ D[i] = DepthAfter(D[i - 1], d[i])
  BY <1>1, DepthsRun
<1>3. IsLineInitialPipe(d, i) => D[i] = D[i - 1]
  BY <1>2, DepthStays, TokensDiffer DEF IsLineInitialPipe
<1>4. ScanOn(d)[<<i, D[i - 1], p>>] =
             IF i > Len(d) THEN 0
             ELSE IF D[i - 1] = 0 /\ p = 0 /\ IsLineInitialPipe(d, i)
                  THEN ScanOn(d)[<<i + 1, D[i - 1], i>>]
             ELSE IF D[i - 1] = 0 /\ p # 0 /\ d[i] = Arrow THEN p - 1
             ELSE IF D[i - 1] = 0 /\ d[i] \in {Where, Assign} THEN i
             ELSE ScanOn(d)[<<i + 1, DepthAfter(D[i - 1], d[i]), p>>]
  <2> HIDE DEF D
  <2> QED BY <1>1, <1>2, ScanSteps
<1> HIDE DEF D
<1> QED
  BY <1>1, <1>2, <1>3, <1>4 DEF D

LEMMA RemembersOn ==
    ASSUME NEW d, NEW i \in Nat, i >= 1, NEW p \in Nat, Remembers(d, i, p)
    PROVE  Remembers(d, i + 1, IF Depths(d)[i - 1] = 0 /\ p = 0 /\ IsLineInitialPipe(d, i)
                               THEN i ELSE p)
<1>1. i \in 1..((i + 1) - 1) /\ \A j \in 1..(i - 1) : j \in 1..((i + 1) - 1)
  OBVIOUS
<1> QED
  BY <1>1 DEF Remembers, LineBar

\* A signature that nothing ends outside brackets goes on.
LEMMA ScanFindsNothing ==
    ASSUME NEW d \in Seq(Tokens), Quiet(d, Len(d))
    PROVE  ScanToSignatureEnd(d) = 0
<1> DEFINE D == Depths(d)
           S == {i \in Nat : i >= 1 /\ i <= Len(d) + 1 =>
                    \A p \in Nat : Remembers(d, i, p) => ScanOn(d)[<<i, D[i - 1], p>>] = 0}
<1>1. ASSUME NEW i \in Nat, i > Len(d) + 1 PROVE i \in S
  BY <1>1
<1>2. ASSUME NEW i \in Nat, i <= Len(d) + 1, \A j \in Nat : i < j => j \in S PROVE i \in S
  <2> SUFFICES ASSUME i >= 1, NEW p \in Nat, Remembers(d, i, p)
               PROVE  ScanOn(d)[<<i, D[i - 1], p>>] = 0
    OBVIOUS
  <2>0. i - 1 \in Nat /\ D[i - 1] \in Nat
    BY DepthsRun
  <2>1. CASE i > Len(d)
    <3> HIDE DEF D
    <3> QED BY <2>0, <2>1, ScanSteps, ZenonT(60)
  <2>2. CASE i <= Len(d)
    <3>1. i \in 1..Len(d) /\ i + 1 \in Nat /\ i + 1 <= Len(d) + 1 /\ (i + 1) - 1 = i /\ i < i + 1
      BY <2>2
    <3>2. D[i - 1] = 0 => d[i] \notin {Assign, Where} /\ (d[i] = Arrow => p = 0)
      BY <3>1 DEF Quiet, Remembers
    <3>3. PICK q : q = IF D[i - 1] = 0 /\ p = 0 /\ IsLineInitialPipe(d, i) THEN i ELSE p
      OBVIOUS
    <3>4. ScanOn(d)[<<i, D[i - 1], p>>] = ScanOn(d)[<<i + 1, D[i], q>>]
      BY <3>1, <3>2, <3>3, ScanPasses
    <3>5. q \in Nat /\ i + 1 \in S
      BY <1>2, <3>1, <3>3
    <3>R. Remembers(d, i + 1, q)
      BY <3>3, RemembersOn
    <3>6. ScanOn(d)[<<i + 1, D[(i + 1) - 1], q>>] = 0
      BY <3>1, <3>5, <3>R
    <3> QED
      BY <3>1, <3>4, <3>6
  <2> QED
    BY <2>1, <2>2
<1> HIDE DEF S
<1>3. Len(d) + 1 \in Nat
  OBVIOUS
<1>4. Nat \subseteq S
  BY <1>1, <1>2, <1>3, Backwards
<1>5. 1 \in S /\ D[0] = 0 /\ Remembers(d, 1, 0)
  BY <1>4, DepthsRun DEF Remembers
<1>6. ScanOn(d)[<<1, D[1 - 1], 0>>] = 0
  BY <1>5, <1>3 DEF S
<1> QED
  BY <1>5, <1>6, ScanFromStart

\* `:=` or `where` outside brackets ends it.
LEMMA ScanFindsSimple ==
    ASSUME NEW d \in Seq(Tokens), NEW e \in 1..Len(d), Quiet(d, e - 1),
           d[e] \in {Assign, Where}, Depths(d)[e - 1] = 0
    PROVE  ScanToSignatureEnd(d) = e
<1> DEFINE D == Depths(d)
           S == {i \in Nat : i >= 1 /\ i <= e =>
                    \A p \in Nat : Remembers(d, i, p) => ScanOn(d)[<<i, D[i - 1], p>>] = e}
<1>1. ASSUME NEW i \in Nat, i > e PROVE i \in S
  BY <1>1
<1>2. ASSUME NEW i \in Nat, i <= e, \A j \in Nat : i < j => j \in S PROVE i \in S
  <2> SUFFICES ASSUME i >= 1, NEW p \in Nat, Remembers(d, i, p)
               PROVE  ScanOn(d)[<<i, D[i - 1], p>>] = e
    OBVIOUS
  <2>0. i - 1 \in Nat /\ D[i - 1] \in Nat /\ i \in 1..Len(d)
    <3>1. i - 1 \in Nat /\ i \in 1..Len(d)
      <4> HIDE DEF S
      <4> QED BY <1>2
    <3>2. \A k \in Nat : D[k] \in Nat
      BY DepthsRun
    <3> HIDE DEF D
    <3> QED BY <3>1, <3>2
  <2>1. CASE i = e
    <3>1. ~IsLineInitialPipe(d, i) /\ d[i] # Arrow
      BY <2>1, TokensDiffer DEF IsLineInitialPipe
    <3>2. D[i - 1] = 0 /\ ~(i > Len(d)) /\ d[i] \in {Where, Assign}
      BY <2>0, <2>1
    <3> HIDE DEF D
    <3>3. ScanOn(d)[<<i, D[i - 1], p>>] =
             IF i > Len(d) THEN 0
             ELSE IF D[i - 1] = 0 /\ p = 0 /\ IsLineInitialPipe(d, i)
                  THEN ScanOn(d)[<<i + 1, D[i - 1], i>>]
             ELSE IF D[i - 1] = 0 /\ p # 0 /\ d[i] = Arrow THEN p - 1
             ELSE IF D[i - 1] = 0 /\ d[i] \in {Where, Assign} THEN i
             ELSE ScanOn(d)[<<i + 1, DepthAfter(D[i - 1], d[i]), p>>]
      BY <2>0, ScanSteps
    <3> QED BY <2>1, <3>1, <3>2, <3>3
  <2>2. CASE i # e
    <3>1. i \in 1..(e - 1) /\ i + 1 \in Nat /\ i + 1 <= e /\ (i + 1) - 1 = i /\ i < i + 1
      BY <1>2, <2>2
    <3>2. D[i - 1] = 0 => d[i] \notin {Assign, Where} /\ (d[i] = Arrow => p = 0)
      BY <3>1 DEF Quiet, Remembers
    <3>3. PICK q : q = IF D[i - 1] = 0 /\ p = 0 /\ IsLineInitialPipe(d, i) THEN i ELSE p
      OBVIOUS
    <3>4. ScanOn(d)[<<i, D[i - 1], p>>] = ScanOn(d)[<<i + 1, D[i], q>>]
      BY <2>0, <3>2, <3>3, ScanPasses
    <3>5. q \in Nat /\ i + 1 \in S
      BY <1>2, <3>1, <3>3
    <3>R. Remembers(d, i + 1, q)
      BY <3>3, RemembersOn
    <3>6. ScanOn(d)[<<i + 1, D[(i + 1) - 1], q>>] = e
      BY <3>1, <3>5, <3>R
    <3> QED
      BY <3>1, <3>4, <3>6
  <2> QED
    BY <2>1, <2>2
<1> HIDE DEF S
<1>3. e \in Nat
  OBVIOUS
<1>4. Nat \subseteq S
  BY <1>1, <1>2, <1>3, Backwards
<1>5. 1 \in S /\ D[0] = 0 /\ Remembers(d, 1, 0)
  BY <1>4, DepthsRun DEF Remembers
<1>6. ScanOn(d)[<<1, D[1 - 1], 0>>] = e
  BY <1>3, <1>5 DEF S
<1> QED
  BY <1>5, <1>6, ScanFromStart

PatternTokens == {Term, Bar, Opener, Closer}

\* Alternatives: a pattern and an arrow, after a bar that begins a line.
Alternatives(d, e, a) ==
    /\ e \in 1..Len(d) /\ a \in (e + 2)..Len(d)
    /\ d[e] = NextLine /\ d[e + 1] = Bar /\ Depths(d)[e - 1] = 0
    /\ \A i \in (e + 2)..(a - 1) : d[i] \in PatternTokens
    /\ d[a] = Arrow /\ Depths(d)[a - 1] = 0

\* They end it where their line begins, if no other bar was remembered.
LEMMA ScanFindsAlternatives ==
    ASSUME NEW d \in Seq(Tokens), NEW e, NEW a, Alternatives(d, e, a), Quiet(d, e - 1),
           \A i \in 1..e : ~LineBar(d, i)
    PROVE  ScanToSignatureEnd(d) = e
<1> DEFINE D == Depths(d)
           P(i) == IF i <= e + 1 THEN 0 ELSE e + 1
           S == {i \in Nat : i >= 1 /\ i <= a => ScanOn(d)[<<i, D[i - 1], P(i)>>] = e}
<1> USE DEF Alternatives
<1>0. e \in Nat /\ a \in Nat /\ e >= 1 /\ e + 2 <= a /\ a <= Len(d) /\ Len(d) \in Nat
  OBVIOUS
<1>1. ASSUME NEW i \in Nat, i > a PROVE i \in S
  BY <1>0, <1>1
<1>2. ASSUME NEW i \in Nat, i <= a, \A j \in Nat : i < j => j \in S PROVE i \in S
  <2> SUFFICES ASSUME i >= 1 PROVE ScanOn(d)[<<i, D[i - 1], P(i)>>] = e
    OBVIOUS
  <2>0. i - 1 \in Nat /\ D[i - 1] \in Nat /\ i \in 1..Len(d) /\ P(i) \in Nat
    <3>1. i - 1 \in Nat /\ i \in 1..Len(d) /\ P(i) \in Nat
      <4> HIDE DEF S
      <4> QED BY <1>0, <1>2
    <3>2. \A k \in Nat : D[k] \in Nat
      BY DepthsRun
    <3> HIDE DEF D, P
    <3> QED BY <3>1, <3>2
  <2>1. CASE i = a
    <3>1. P(i) = e + 1 /\ P(i) # 0 /\ D[i - 1] = 0 /\ ~(i > Len(d)) /\ d[i] = Arrow
      BY <1>0, <2>1
    <3>2. PICK pending \in Nat : pending = P(i)
      BY <2>0
    <3>3. pending = e + 1 /\ pending # 0 /\ pending - 1 = e
      BY <1>0, <3>1, <3>2
    <3>4. ScanOn(d)[<<i, 0, pending>>] = pending - 1
      <4>1. ScanOn(d)[<<i, 0, pending>>] =
               IF i > Len(d) THEN 0
               ELSE IF 0 = 0 /\ pending = 0 /\ IsLineInitialPipe(d, i)
                    THEN ScanOn(d)[<<i + 1, 0, i>>]
               ELSE IF 0 = 0 /\ pending # 0 /\ d[i] = Arrow THEN pending - 1
               ELSE IF 0 = 0 /\ d[i] \in {Where, Assign} THEN i
               ELSE ScanOn(d)[<<i + 1, DepthAfter(0, d[i]), pending>>]
        <5> HIDE DEF D, P, S, Alternatives
        <5>1. 0 \in Nat
          OBVIOUS
        <5> QED BY <5>1, ScanSteps
      <4> HIDE DEF D, P, S
      <4> QED BY <3>1, <3>3, <4>1, Zenon
    <3>5. <<i, D[i - 1], P(i)>> = <<i, 0, pending>>
      BY <3>1, <3>2, Zenon
    <3> HIDE DEF D, P
    <3> QED BY <3>3, <3>4, <3>5, Zenon
  <2>2. CASE i # a
    <3>1. i + 1 \in Nat /\ i + 1 <= a /\ (i + 1) - 1 = i /\ i < i + 1
      <4> HIDE DEF S, P, D
      <4> QED
        BY <1>0, <1>2, <2>2
    <3>2. D[i - 1] = 0 => d[i] \notin {Assign, Where} /\ (d[i] = Arrow => P(i) = 0)
      <4>1. CASE i < e
        <5>1. i \in 1..(e - 1)
          BY <4>1, <1>0
        <5> QED
          BY <5>1, <4>1, <1>0 DEF Quiet
      <4>2. CASE i \in {e, e + 1}
        BY <4>2, TokensDiffer
      <4>3. CASE i > e + 1
        <5>1. i \in (e + 2)..(a - 1)
          BY <1>0, <1>2, <2>2, <4>3
        <5> QED
          BY <5>1, TokensDiffer DEF PatternTokens
      <4> QED
        BY <1>0, <4>1, <4>2, <4>3
    <3>3. P(i + 1) = IF D[i - 1] = 0 /\ P(i) = 0 /\ IsLineInitialPipe(d, i) THEN i ELSE P(i)
      <4>1. CASE i <= e
        <5>1. P(i) = 0 /\ P(i + 1) = 0
          BY <4>1, <1>0
        <5>2. ~(IsLineInitialPipe(d, i) /\ D[i - 1] = 0)
          BY <2>0, <4>1, <1>0 DEF LineBar
        <5> QED
          BY <5>1, <5>2
      <4>2. CASE i = e + 1
        <5>1. P(i) = 0 /\ P(i + 1) = i
          BY <4>2, <1>0
        <5>2. e \in Nat /\ e - 1 \in Nat /\ (e - 1) + 1 = e /\ i - 1 = e
          BY <4>2, <1>0
        <5>3. D[e] = 0
          <6>1. D[(e - 1) + 1] = DepthAfter(D[e - 1], d[(e - 1) + 1])
            BY <5>2, DepthsRun
          <6> QED
            BY <5>2, <6>1, DepthStays, TokensDiffer
        <5>4. IsLineInitialPipe(d, i)
          BY <4>2, <1>0, <5>2 DEF IsLineInitialPipe
        <5> QED
          BY <5>1, <5>2, <5>3, <5>4
      <4>3. CASE i > e + 1
        BY <1>0, <4>3
      <4> QED
        BY <1>0, <4>1, <4>2, <4>3
    <3>4. ScanOn(d)[<<i, D[i - 1], P(i)>>] = ScanOn(d)[<<i + 1, D[i], P(i + 1)>>]
      <4> HIDE DEF P
      <4> QED BY <2>0, <3>2, <3>3, ScanPasses
    <3>5. i + 1 \in S
      BY <1>2, <3>1
    <3>6. ScanOn(d)[<<i + 1, D[(i + 1) - 1], P(i + 1)>>] = e
      <4> HIDE DEF P
      <4> QED BY <3>1, <3>5
    <3> QED
      BY <3>1, <3>4, <3>6
  <2> QED
    BY <2>1, <2>2
<1> HIDE DEF S
<1>4. Nat \subseteq S
  BY <1>0, <1>1, <1>2, Backwards
<1>5. 1 \in S /\ D[0] = 0
  BY <1>4, DepthsRun
<1>6. ScanOn(d)[<<1, D[1 - 1], 0>>] = e
  <2>1. P(1) = 0 /\ 1 <= a
    BY <1>0
  <2>2. ScanOn(d)[<<1, D[1 - 1], P(1)>>] = e
    <3> HIDE DEF P, D
    <3> QED BY <1>5, <2>1 DEF S
  <2> QED
    BY <2>1, <2>2
<1> QED
  BY <1>5, <1>6, ScanFromStart
-----------------------------------------------------------------------------
(* What is typed, and where its author is.                                 *)

\* A value begins outside brackets.
ValueBegun ==
    /\ begun \in 1..Len(decl)
    /\ Depths(decl)[begun - 1] = 0

\* The author is among the tokens of the first pattern, or past its arrow.
InPattern ==
    /\ begun + 1 <= Len(decl)
    /\ decl[begun] = NextLine /\ decl[begun + 1] = Bar
    /\ \A i \in (begun + 2)..Len(decl) : decl[i] \in PatternTokens

PastPattern == \E a \in Nat : Alternatives(decl, begun, a)

LeanInv ==
    /\ decl \in Seq(Tokens)
    /\ begun \in Nat
    /\ \/ phase = "signature" /\ begun = 0
       \/ phase = "pattern" /\ ValueBegun /\ InPattern
       \/ phase = "value" /\ ValueBegun /\ (decl[begun] \in {Assign, Where} \/ PastPattern)

LEMMA InitLean == LeanInit => LeanInv
<1> SUFFICES ASSUME LeanInit PROVE LeanInv
  OBVIOUS
<1>1. decl \in Seq(Tokens) /\ Len(decl) = 0 /\ begun = 0 /\ phase = "signature"
  BY DEF LeanInit
<1> QED
  BY <1>1 DEF LeanInv

\* Typing more changes nothing of what was typed.
LEMMA DeclGrows ==
    ASSUME NEW d \in Seq(Tokens), NEW c \in Seq(Tokens), Len(d) <= Len(c),
           \A k \in 1..Len(d) : c[k] = d[k]
    PROVE  /\ \A k \in 0..Len(d) : Depths(c)[k] = Depths(d)[k]
           /\ \A e, a : Alternatives(d, e, a) => Alternatives(c, e, a)
<1>1. \A k \in 0..Len(d) : Depths(c)[k] = Depths(d)[k]
  <2>1. Len(d) \in Nat
    OBVIOUS
  <2> QED
    BY <2>1, DepthsAgree
<1>3. ASSUME NEW e, NEW a, Alternatives(d, e, a) PROVE Alternatives(c, e, a)
  <2>1. e \in 1..Len(d) /\ a \in (e + 2)..Len(d) /\ Len(c) \in Nat
    BY <1>3 DEF Alternatives
  <2>2. e \in 1..Len(c) /\ a \in (e + 2)..Len(c)
    BY <2>1
  <2>3. e + 1 \in 1..Len(d) /\ a \in 1..Len(d) /\ e - 1 \in 0..Len(d) /\ a - 1 \in 0..Len(d)
        /\ \A i \in (e + 2)..(a - 1) : i \in 1..Len(d)
    BY <2>1
  <2>4. Depths(c)[e - 1] = Depths(d)[e - 1] /\ Depths(c)[a - 1] = Depths(d)[a - 1]
    BY <1>1, <2>3
  <2> QED
    BY <1>3, <2>1, <2>2, <2>3, <2>4 DEF Alternatives
<1> QED
  BY <1>1, <1>3

LEMMA NextLean == LeanInv /\ [LeanNext]_leanVars => LeanInv'
<1> SUFFICES ASSUME LeanInv, [LeanNext]_leanVars PROVE LeanInv'
  OBVIOUS
<1> DEFINE n == Len(decl)
<1>0. decl \in Seq(Tokens) /\ n \in Nat /\ begun \in Nat
  BY DEF LeanInv
<1>T. ASSUME NEW s \in Tokens, TypeToken(s)
      PROVE  /\ decl' \in Seq(Tokens) /\ Len(decl') = n + 1 /\ decl'[n + 1] = s
             /\ \A k \in 1..n : decl'[k] = decl[k]
  BY <1>0, <1>T DEF TypeToken
<1>D. Depth(decl) = Depths(decl)[n] /\ n \in 0..n
  BY <1>0, DepthsRun
<1>V. ASSUME decl' \in Seq(Tokens), n <= Len(decl'), \A k \in 1..n : decl'[k] = decl[k],
             begun' = begun, ValueBegun
      PROVE  ValueBegun' /\ decl'[begun'] = decl[begun] /\ (PastPattern => PastPattern')
  <2>1. /\ \A k \in 0..n : Depths(decl')[k] = Depths(decl)[k]
        /\ \A e, a : Alternatives(decl, e, a) => Alternatives(decl', e, a)
    BY <1>0, <1>V, DeclGrows
  <2>2. begun \in 1..n /\ begun - 1 \in 0..n /\ begun \in 1..Len(decl')
    BY <1>0, <1>V DEF ValueBegun
  <2>3. ValueBegun'
    BY <1>V, <2>1, <2>2 DEF ValueBegun
  <2>4. PastPattern => PastPattern'
    BY <1>V, <2>1 DEF PastPattern
  <2> QED
    BY <1>V, <2>2, <2>3, <2>4
<1>1. CASE TypeSignature
  <2>1. PICK s \in Tokens : TypeToken(s)
    BY <1>1 DEF TypeSignature
  <2>2. decl' \in Seq(Tokens)
    BY <1>T, <2>1
  <2> QED
    BY <1>1, <2>2 DEF TypeSignature, LeanInv
<1>2. CASE BeginSimple
  <2>1. PICK s \in {Assign, Where} : TypeToken(s)
    BY <1>2 DEF BeginSimple
  <2>2. /\ decl' \in Seq(Tokens) /\ Len(decl') = n + 1 /\ decl'[n + 1] = s
        /\ \A k \in 1..n : decl'[k] = decl[k]
    BY <1>T, <2>1 DEF Tokens
  <2>3. phase' = "value" /\ begun' = n + 1 /\ Depth(decl) = 0
    BY <1>2 DEF BeginSimple, LeanInv
  <2>4. \A k \in 0..n : Depths(decl')[k] = Depths(decl)[k]
    BY <1>0, <1>D, <2>2, DeclGrows
  <2>5. begun' - 1 = n /\ begun' \in 1..Len(decl') /\ begun' \in Nat
    BY <1>0, <2>2, <2>3
  <2>6. ValueBegun'
    BY <1>D, <2>3, <2>4, <2>5 DEF ValueBegun
  <2>7. decl'[begun'] \in {Assign, Where}
    BY <2>1, <2>2, <2>3
  <2> QED
    BY <2>2, <2>3, <2>5, <2>6, <2>7 DEF LeanInv
<1>3. CASE BeginAlternatives
  <2>1. decl' = decl \o <<NextLine, Bar>> /\ phase' = "pattern" /\ begun' = n + 1
        /\ phase = "signature" /\ Depth(decl) = 0
    BY <1>3 DEF BeginAlternatives
  <2>2. /\ decl' \in Seq(Tokens) /\ Len(decl') = n + 2 /\ decl'[n + 1] = NextLine
        /\ decl'[n + 2] = Bar /\ \A k \in 1..n : decl'[k] = decl[k]
    <3>1. NextLine \in Tokens /\ Bar \in Tokens
      BY DEF Tokens
    <3>2. \A a, b \in Tokens : /\ <<a, b>> \in Seq(Tokens) /\ Len(<<a, b>>) = 2
                              /\ <<a, b>>[1] = a /\ <<a, b>>[2] = b
      OBVIOUS
    <3>3. PICK two : two = <<NextLine, Bar>>
      OBVIOUS
    <3>4. two \in Seq(Tokens) /\ Len(two) = 2 /\ two[1] = NextLine /\ two[2] = Bar
      BY <3>1, <3>2, <3>3, Zenon
    <3>5. decl' = decl \o two
      BY <2>1, <3>3
    <3>6. \A d, c \in Seq(Tokens) : /\ d \o c \in Seq(Tokens) /\ Len(d \o c) = Len(d) + Len(c)
                                    /\ \A k \in 1..Len(d) : (d \o c)[k] = d[k]
                                    /\ \A k \in 1..Len(c) : (d \o c)[Len(d) + k] = c[k]
      OBVIOUS
    <3>7. /\ decl' \in Seq(Tokens) /\ Len(decl') = n + 2
          /\ \A k \in 1..n : decl'[k] = decl[k]
          /\ \A k \in 1..2 : decl'[n + k] = two[k]
      <4> HIDE DEF n
      <4>1. /\ decl' \in Seq(Tokens) /\ Len(decl') = Len(decl) + Len(two)
            /\ \A k \in 1..Len(decl) : decl'[k] = decl[k]
            /\ \A k \in 1..Len(two) : decl'[Len(decl) + k] = two[k]
        BY <1>0, <3>4, <3>5, <3>6, Zenon
      <4> QED
        BY <3>4, <4>1 DEF n
    <3>8. 1 \in 1..2 /\ 2 \in 1..2
      OBVIOUS
    <3> HIDE DEF n
    <3> QED
      BY <3>4, <3>7, <3>8
  <2>4. \A k \in 0..n : Depths(decl')[k] = Depths(decl)[k]
    BY <1>0, <1>D, <2>2, DeclGrows
  <2>5. begun' - 1 = n /\ begun' \in 1..Len(decl') /\ begun' \in Nat /\ begun' + 1 = n + 2
        /\ Len(decl') < begun' + 2
    BY <1>0, <2>1, <2>2
  <2>6. ValueBegun'
    BY <1>D, <2>1, <2>4, <2>5 DEF ValueBegun
  <2>7. InPattern'
    BY <2>1, <2>2, <2>5 DEF InPattern
  <2> QED
    BY <2>1, <2>2, <2>5, <2>6, <2>7 DEF LeanInv
<1>4. CASE TypePattern
  <2>1. PICK s \in PatternTokens : TypeToken(s)
    BY <1>4 DEF TypePattern, PatternTokens
  <2>2. /\ decl' \in Seq(Tokens) /\ Len(decl') = n + 1 /\ decl'[n + 1] = s
        /\ \A k \in 1..n : decl'[k] = decl[k]
    BY <1>T, <2>1 DEF Tokens, PatternTokens
  <2>3. phase' = "pattern" /\ begun' = begun /\ ValueBegun /\ InPattern
    BY <1>4 DEF TypePattern, LeanInv
  <2>4. ValueBegun'
    BY <1>0, <1>V, <2>2, <2>3
  <2>5. InPattern'
    <3>1. begun + 1 \in 1..n /\ begun \in 1..n
      BY <1>0, <2>3 DEF InPattern, ValueBegun
    <3>2. \A i \in (begun + 2)..(n + 1) : i = n + 1 \/ (i \in (begun + 2)..n /\ i \in 1..n)
      BY <1>0
    <3> QED
      BY <1>0, <2>1, <2>2, <2>3, <3>1, <3>2 DEF InPattern
  <2> QED
    BY <1>0, <2>2, <2>3, <2>4, <2>5 DEF LeanInv
<1>5. CASE EndPattern
  <2>1. TypeToken(Arrow) /\ phase' = "value" /\ begun' = begun /\ ValueBegun /\ InPattern
        /\ Depth(decl) = 0
    BY <1>5 DEF EndPattern, LeanInv
  <2>2. /\ decl' \in Seq(Tokens) /\ Len(decl') = n + 1 /\ decl'[n + 1] = Arrow
        /\ \A k \in 1..n : decl'[k] = decl[k]
    BY <1>T, <2>1 DEF Tokens
  <2>3. ValueBegun'
    BY <1>0, <1>V, <2>1, <2>2
  <2>4. Depths(decl')[n] = 0 /\ Depths(decl')[begun - 1] = 0
    <3>1. \A k \in 0..n : Depths(decl')[k] = Depths(decl)[k]
      BY <1>0, <2>2, DeclGrows
    <3>2. begun - 1 \in 0..n
      BY <1>0, <2>1 DEF ValueBegun
    <3> QED
      BY <1>D, <2>1, <3>1, <3>2 DEF ValueBegun
  <2>5. Alternatives(decl', begun, n + 1)
    <3>1. begun + 1 \in 1..n /\ begun \in 1..n
      BY <1>0, <2>1 DEF InPattern, ValueBegun
    <3>2. begun \in 1..(n + 1) /\ n + 1 \in (begun + 2)..(n + 1) /\ (n + 1) - 1 = n
      BY <1>0, <3>1
    <3>3. decl'[begun] = NextLine /\ decl'[begun + 1] = Bar
      BY <2>1, <2>2, <3>1 DEF InPattern
    <3>4. ASSUME NEW i \in (begun + 2)..n PROVE decl'[i] \in PatternTokens
      <4>1. i \in 1..n
        BY <1>0
      <4> QED
        BY <2>1, <2>2, <4>1 DEF InPattern
    <3> QED
      BY <2>2, <2>4, <3>2, <3>3, <3>4 DEF Alternatives
  <2>6. PastPattern'
    <3>1. n + 1 \in Nat
      BY <1>0
    <3> QED
      BY <2>1, <2>5, <3>1 DEF PastPattern
  <2> QED
    BY <1>0, <2>1, <2>2, <2>3, <2>6 DEF LeanInv
<1>6. CASE TypeValue
  <2>1. PICK s \in Tokens : TypeToken(s)
    BY <1>6 DEF TypeValue
  <2>2. /\ decl' \in Seq(Tokens) /\ Len(decl') = n + 1
        /\ \A k \in 1..n : decl'[k] = decl[k]
    BY <1>T, <2>1
  <2>3. phase' = "value" /\ begun' = begun /\ ValueBegun /\ (decl[begun] \in {Assign, Where} \/ PastPattern)
    BY <1>6 DEF TypeValue, LeanInv
  <2>4. ValueBegun' /\ decl'[begun'] = decl[begun] /\ (PastPattern => PastPattern')
    BY <1>0, <1>V, <2>2, <2>3
  <2> QED
    BY <1>0, <2>2, <2>3, <2>4 DEF LeanInv
<1>7. CASE UNCHANGED leanVars
  <2>1. decl' = decl /\ phase' = phase /\ begun' = begun
    BY <1>7 DEF leanVars
  <2>2. ValueBegun' = ValueBegun /\ InPattern' = InPattern /\ PastPattern' = PastPattern
    BY <2>1 DEF ValueBegun, InPattern, PastPattern
  <2> QED
    BY <2>1, <2>2 DEF LeanInv
<1> QED
  BY <1>1, <1>2, <1>3, <1>4, <1>5, <1>6, <1>7 DEF LeanNext

LEMMA LeanInvHolds == LeanSpec => []LeanInv
<1>1. LeanInit => LeanInv
  BY InitLean
<1>2. LeanInv /\ [LeanNext]_leanVars => LeanInv'
  BY NextLean
<1> QED
  BY <1>1, <1>2, PTL DEF LeanSpec

\* What the properties say of the typed signature is what the scan meets.
LEMMA UnbracketedIs ==
    ASSUME NEW d \in Seq(Tokens), NEW n \in 0..Len(d), NEW c, c = SubSeq(d, 1, n)
    PROVE  /\ c \in Seq(Tokens) /\ Len(c) = n
           /\ \A T, i : i \in Unbracketed(c, T) <=>
                             i \in 1..n /\ d[i] \in T /\ Depths(d)[i - 1] = 0
           /\ \A i : i \in BarBegunLines(c) <=> i \in 1..n /\ LineBar(d, i)
<1>1. c \in Seq(Tokens) /\ Len(c) = n /\ n \in Nat /\ \A k \in 1..n : c[k] = d[k]
  OBVIOUS
<1>2. ASSUME NEW i \in 1..n PROVE Depth(SubSeq(c, 1, i - 1)) = Depths(d)[i - 1]
  <2>1. i - 1 \in 0..Len(c) /\ i - 1 \in 0..n
    BY <1>1
  <2>2. Depth(SubSeq(c, 1, i - 1)) = Depths(c)[i - 1]
    BY <1>1, <2>1, DepthOfBeginning
  <2>3. Depths(c)[i - 1] = Depths(d)[i - 1]
    BY <1>1, <2>1, DepthsAgree
  <2> QED
    BY <2>2, <2>3
<1>3. ASSUME NEW T, NEW i
      PROVE  i \in Unbracketed(c, T) <=> i \in 1..n /\ d[i] \in T /\ Depths(d)[i - 1] = 0
  BY <1>1, <1>2 DEF Unbracketed
<1>4. ASSUME NEW i \in 1..n PROVE IsLineInitialPipe(c, i) <=> IsLineInitialPipe(d, i)
  <2>1. c[i] = d[i] /\ (i > 1 => i - 1 \in 1..n)
    BY <1>1
  <2> QED
    BY <1>1, <2>1 DEF IsLineInitialPipe
<1>5. ASSUME NEW i PROVE i \in BarBegunLines(c) <=> i \in 1..n /\ LineBar(d, i)
  BY <1>3, <1>4 DEF BarBegunLines, LineBar, IsLineInitialPipe
<1> QED
  BY <1>1, <1>3, <1>5

\* The properties, of each state of the invariant.
LEMMA SignaturesEnd ==
    LeanInv => SignatureEndsAtValue /\ NoEndIsInvented /\ LetEndsTheStatement
<1> SUFFICES ASSUME LeanInv
             PROVE  SignatureEndsAtValue /\ NoEndIsInvented /\ LetEndsTheStatement
  OBVIOUS
<1>1. decl \in Seq(Tokens) /\ begun \in Nat
  BY DEF LeanInv
<1>2. PICK n \in 0..Len(decl) :
          /\ n = IF phase = "signature" THEN Len(decl) ELSE begun - 1
          /\ Signature = SubSeq(decl, 1, n)
  <2>1. CASE phase = "signature"
    <3>1. decl = SubSeq(decl, 1, Len(decl)) /\ Len(decl) \in 0..Len(decl)
      BY <1>1
    <3> QED
      BY <2>1, <3>1 DEF Signature
  <2>2. CASE phase # "signature"
    <3>1. begun \in 1..Len(decl)
      BY <2>2 DEF LeanInv, ValueBegun
    <3> QED
      BY <1>1, <2>2, <3>1 DEF Signature
  <2> QED
    BY <2>1, <2>2
<1>3. /\ \A T, i : i \in Unbracketed(Signature, T) <=>
                        i \in 1..n /\ decl[i] \in T /\ Depths(decl)[i - 1] = 0
      /\ \A i : i \in BarBegunLines(Signature) <=> i \in 1..n /\ LineBar(decl, i)
  BY <1>1, <1>2, UnbracketedIs
<1>4. NothingMisleads => Quiet(decl, n)
  <2> SUFFICES ASSUME NothingMisleads, NEW i \in 1..n, Depths(decl)[i - 1] = 0
               PROVE  /\ decl[i] \notin {Assign, Where}
                      /\ decl[i] = Arrow => \A j \in 1..(i - 1) : ~LineBar(decl, j)
    BY DEF Quiet
  <2>1. decl[i] \notin {Assign, Where}
    <3>1. i \notin Unbracketed(Signature, {Assign, Where})
      BY DEF NothingMisleads, EndTokens
    <3> QED
      BY <1>3, <3>1
  <2>2. ASSUME decl[i] = Arrow, NEW j \in 1..(i - 1), LineBar(decl, j) PROVE FALSE
    <3>1. j \in 1..n /\ j < i
      OBVIOUS
    <3>2. j \in BarBegunLines(Signature) /\ i \in Unbracketed(Signature, {Arrow})
      BY <1>3, <2>2, <3>1
    <3> QED
      BY <3>1, <3>2 DEF NothingMisleads, LateArrows
  <2> QED
    BY <2>1, <2>2
<1>5. NoEndIsInvented
  BY <1>1, <1>2, <1>4, ScanFindsNothing DEF NoEndIsInvented
<1>6. ASSUME phase = "value", NothingMisleads,
             decl[begun] = NextLine => BarBegunLines(Signature) = {}
      PROVE  ScanToSignatureEnd(decl) = begun
  <2>1. ValueBegun /\ (decl[begun] \in {Assign, Where} \/ PastPattern)
    BY <1>6 DEF LeanInv
  <2>2. n = begun - 1 /\ Quiet(decl, begun - 1)
    BY <1>2, <1>4, <1>6
  <2>3. CASE decl[begun] \in {Assign, Where}
    BY <1>1, <2>1, <2>2, <2>3, ScanFindsSimple DEF ValueBegun
  <2>4. CASE PastPattern
    <3>1. PICK a \in Nat : Alternatives(decl, begun, a)
      BY <2>4 DEF PastPattern
    <3>2. decl[begun] = NextLine
      BY <3>1 DEF Alternatives
    <3>3. ASSUME NEW i \in 1..begun PROVE ~LineBar(decl, i)
      <4>1. CASE i = begun
        BY <3>2, <4>1, TokensDiffer DEF LineBar, IsLineInitialPipe
      <4>2. CASE i # begun
        <5>1. i \in 1..n
          BY <1>1, <2>2, <4>2
        <5> QED
          BY <1>3, <1>6, <3>2, <5>1
      <4> QED
        BY <4>1, <4>2
    <3> QED
      BY <1>1, <2>2, <3>1, <3>3, ScanFindsAlternatives
  <2> QED
    BY <2>1, <2>3, <2>4
<1>7. SignatureEndsAtValue
  BY <1>6 DEF SignatureEndsAtValue
<1>8. ASSUME EndTokens(Signature) # {}, BarBegunLines(Signature) = {}
      PROVE  /\ ScanToSignatureEnd(decl) \in EndTokens(Signature)
             /\ \A i \in EndTokens(Signature) : ScanToSignatureEnd(decl) <= i
  <2>1. EndTokens(Signature) \subseteq Nat
    BY <1>3 DEF EndTokens
  <2>2. PICK e \in EndTokens(Signature) : \A i \in EndTokens(Signature) : e <= i
    BY <1>8, <2>1, LeastNat
  <2>3. e \in 1..n /\ decl[e] \in {Assign, Where} /\ Depths(decl)[e - 1] = 0
    BY <1>3 DEF EndTokens
  <2>4. Quiet(decl, e - 1)
    <3> SUFFICES ASSUME NEW i \in 1..(e - 1), Depths(decl)[i - 1] = 0
                 PROVE  /\ decl[i] \notin {Assign, Where}
                        /\ decl[i] = Arrow => \A j \in 1..(i - 1) : ~LineBar(decl, j)
      BY DEF Quiet
    <3>1. i \in 1..n /\ i < e /\ \A j \in 1..(i - 1) : j \in 1..n
      BY <2>3
    <3>2. i \notin EndTokens(Signature)
      BY <2>1, <2>2, <3>1
    <3> QED
      BY <1>3, <1>8, <3>1, <3>2 DEF EndTokens
  <2>5. e \in 1..Len(decl)
    BY <1>1, <2>3
  <2>6. ScanToSignatureEnd(decl) = e
    BY <1>1, <2>3, <2>4, <2>5, ScanFindsSimple
  <2> QED
    BY <2>2, <2>6
<1>9. LetEndsTheStatement
  BY <1>8 DEF LetEndsTheStatement
<1> QED
  BY <1>5, <1>7, <1>9


-----------------------------------------------------------------------------
(* RocqStatement: the scan for the end of a sentence.                      *)

IsSentences(f, t) ==
    f = [at \in Nat \X BOOLEAN \X Nat |->
            LET i == at[1]  string == at[2]  depth == at[3]
            IN  IF i > Len(t) THEN 0
                ELSE IF string THEN f[<<i + 1, t[i] # Quote, 0>>]
                ELSE IF t[i] = BlockOpen THEN f[<<i + 1, FALSE, depth + 1>>]
                ELSE IF depth > 0
                     THEN f[<<i + 1, FALSE, IF t[i] = BlockClose THEN depth - 1 ELSE depth>>]
                ELSE IF EndsSentence(t, i) THEN i
                ELSE f[<<i + 1, t[i] = Quote, 0>>]]

SentenceNext(t, x) ==
    IF x[2] THEN <<x[1] + 1, t[x[1]] # Quote, 0>>
    ELSE IF t[x[1]] = BlockOpen THEN <<x[1] + 1, FALSE, x[3] + 1>>
    ELSE IF x[3] > 0
         THEN <<x[1] + 1, FALSE, IF t[x[1]] = BlockClose THEN x[3] - 1 ELSE x[3]>>
    ELSE <<x[1] + 1, t[x[1]] = Quote, 0>>

LEMMA SentenceNextGrows ==
    ASSUME NEW t, NEW x \in Nat \X BOOLEAN \X Nat
    PROVE  SentenceNext(t, x) \in Nat \X BOOLEAN \X Nat /\ SentenceNext(t, x)[1] = x[1] + 1
<1> DEFINE Goal(y) == y \in Nat \X BOOLEAN \X Nat /\ y[1] = x[1] + 1
<1>1. PICK i \in Nat, d \in Nat : i = x[1] /\ d = x[3]
  OBVIOUS
<1>0. \A b \in BOOLEAN, c \in Nat : Goal(<<i + 1, b, c>>)
  BY <1>1
<1> HIDE DEF Goal
<1> SUFFICES Goal(SentenceNext(t, x))
  BY DEF Goal
<1>2. 0 \in Nat /\ d + 1 \in Nat /\ FALSE \in BOOLEAN
      /\ (d > 0 => (IF t[i] = BlockClose THEN d - 1 ELSE d) \in Nat)
  OBVIOUS
<1>3. CASE x[2]
  <2>1. SentenceNext(t, x) = <<i + 1, t[i] # Quote, 0>>
    BY <1>1, <1>3, Zenon DEF SentenceNext
  <2>2. PICK b \in BOOLEAN : b = (t[i] # Quote)
    OBVIOUS
  <2>3. SentenceNext(t, x) = <<i + 1, b, 0>>
    BY <2>1, <2>2, Zenon
  <2> QED
    BY <1>0, <1>2, <2>3
<1>4. CASE ~x[2] /\ t[i] = BlockOpen
  <2>1. SentenceNext(t, x) = <<i + 1, FALSE, d + 1>>
    BY <1>1, <1>4, Zenon DEF SentenceNext
  <2> QED
    BY <1>0, <1>2, <2>1
<1>5. CASE ~x[2] /\ t[i] # BlockOpen /\ d > 0
  <2>1. SentenceNext(t, x) = <<i + 1, FALSE, IF t[i] = BlockClose THEN d - 1 ELSE d>>
    BY <1>1, <1>5, Zenon DEF SentenceNext
  <2>2. PICK c \in Nat : c = IF t[i] = BlockClose THEN d - 1 ELSE d
    BY <1>2, <1>5
  <2>3. SentenceNext(t, x) = <<i + 1, FALSE, c>>
    BY <2>1, <2>2, Zenon
  <2> QED
    BY <1>0, <1>2, <2>3
<1>6. CASE ~x[2] /\ t[i] # BlockOpen /\ ~(d > 0)
  <2>1. SentenceNext(t, x) = <<i + 1, t[i] = Quote, 0>>
    BY <1>1, <1>6, Zenon DEF SentenceNext
  <2>2. PICK b \in BOOLEAN : b = (t[i] = Quote)
    OBVIOUS
  <2>3. SentenceNext(t, x) = <<i + 1, b, 0>>
    BY <2>1, <2>2, Zenon
  <2> QED
    BY <1>0, <1>2, <2>3
<1> QED
  BY <1>3, <1>4, <1>5, <1>6

LEMMA SentencesExist ==
    ASSUME NEW t, Len(t) \in Nat
    PROVE  \E f : IsSentences(f, t)
<1> DEFINE D == Nat \X BOOLEAN \X Nat
           Stop == {x \in D : \/ x[1] > Len(t)
                              \/ /\ ~x[2] /\ t[x[1]] # BlockOpen /\ ~(x[3] > 0)
                                 /\ EndsSentence(t, x[1])}
           base == [x \in D |-> IF x[1] > Len(t) THEN 0 ELSE x[1]]
           next == [x \in D |-> SentenceNext(t, x)]
           g == [x \in D |-> [v \in Nat |-> v]]
           rank == [x \in D |-> IF x[1] > Len(t) THEN 0 ELSE Len(t) + 1 - x[1]]
<1>1. base \in [D -> Nat] /\ g \in [D -> [Nat -> Nat]]
  OBVIOUS
<1>2. next \in [D -> D] /\ rank \in [D -> Nat]
  BY SentenceNextGrows
<1>3. \A x \in D : x \notin Stop => rank[next[x]] < rank[x]
  <2> SUFFICES ASSUME NEW x \in D, x[1] <= Len(t) PROVE rank[next[x]] < rank[x]
    <3>1. \A x \in D : x[1] \in Nat
      OBVIOUS
    <3>2. \A x \in D : x \notin Stop => ~(x[1] > Len(t))
      OBVIOUS
    <3> HIDE DEF rank, next, D, Stop
    <3> QED BY <3>1, <3>2
  <2>1. PICK y \in D : y = SentenceNext(t, x) /\ y[1] = x[1] + 1
    BY SentenceNextGrows
  <2>2. next[x] = y
    BY <2>1
  <2>3. rank[y] < rank[x]
    BY <2>1
  <2> QED
    BY <2>2, <2>3
<1>4. PICK f : IsWalk(f, D, Nat, Stop, base, next, g)
  <2> HIDE DEF D, Stop, base, next, g, rank
  <2> QED BY <1>1, <1>2, <1>3, WalkExists
<1>5. f \in [D -> Nat] /\ \A x \in D : f[x] = IF x \in Stop THEN base[x] ELSE f[SentenceNext(t, x)]
  <2>1. \A x \in D : next[x] = SentenceNext(t, x)
    OBVIOUS
  <2>2. \A x \in D : f[next[x]] \in Nat
    <3> HIDE DEF Stop, base, next, g, D
    <3> QED BY <1>2, <1>4 DEF IsWalk
  <2>3. \A x \in D, v \in Nat : g[x][v] = v
    OBVIOUS
  <2> HIDE DEF Stop, base, next, g, D
  <2> QED BY <1>4, <2>1, <2>2, <2>3 DEF IsWalk
<1> DEFINE Body(x) ==
        IF x[1] > Len(t) THEN 0
        ELSE IF x[2] THEN f[<<x[1] + 1, t[x[1]] # Quote, 0>>]
        ELSE IF t[x[1]] = BlockOpen THEN f[<<x[1] + 1, FALSE, x[3] + 1>>]
        ELSE IF x[3] > 0
             THEN f[<<x[1] + 1, FALSE, IF t[x[1]] = BlockClose THEN x[3] - 1 ELSE x[3]>>]
        ELSE IF EndsSentence(t, x[1]) THEN x[1]
        ELSE f[<<x[1] + 1, t[x[1]] = Quote, 0>>]
<1>6. ASSUME NEW x \in D PROVE f[x] = Body(x)
  <2> DEFINE More == f[SentenceNext(t, x)]
             Halt == ~x[2] /\ t[x[1]] # BlockOpen /\ ~(x[3] > 0) /\ EndsSentence(t, x[1])
  <2>0. x \in Stop <=> x[1] > Len(t) \/ Halt
    OBVIOUS
  <2>00. base[x] = IF x[1] > Len(t) THEN 0 ELSE x[1]
    OBVIOUS
  <2>1. f[x] = IF x[1] > Len(t) THEN 0 ELSE IF Halt THEN x[1] ELSE More
    <3> HIDE DEF Stop, base, Halt, More
    <3> QED BY <1>5, <2>0, <2>00 DEF More
  <2>2. ~Halt => Body(x) = IF x[1] > Len(t) THEN 0 ELSE More
    <3> SUFFICES ASSUME ~Halt, ~(x[1] > Len(t)) PROVE Body(x) = More
      OBVIOUS
    <3>1. CASE x[2]
      <4>1. SentenceNext(t, x) = <<x[1] + 1, t[x[1]] # Quote, 0>>
        BY <3>1, Zenon DEF SentenceNext
      <4>2. Body(x) = f[<<x[1] + 1, t[x[1]] # Quote, 0>>]
        BY <3>1, Zenon
      <4> HIDE DEF Body
      <4> QED BY <4>1, <4>2, Zenon
    <3>2. CASE ~x[2] /\ t[x[1]] = BlockOpen
      <4>1. SentenceNext(t, x) = <<x[1] + 1, FALSE, x[3] + 1>>
        BY <3>2, Zenon DEF SentenceNext
      <4>2. Body(x) = f[<<x[1] + 1, FALSE, x[3] + 1>>]
        BY <3>2, Zenon
      <4> HIDE DEF Body
      <4> QED BY <4>1, <4>2, Zenon
    <3>3. CASE ~x[2] /\ t[x[1]] # BlockOpen /\ x[3] > 0
      <4>1. SentenceNext(t, x) =
            <<x[1] + 1, FALSE, IF t[x[1]] = BlockClose THEN x[3] - 1 ELSE x[3]>>
        BY <3>3, Zenon DEF SentenceNext
      <4>2. Body(x) = f[<<x[1] + 1, FALSE, IF t[x[1]] = BlockClose THEN x[3] - 1 ELSE x[3]>>]
        BY <3>3, Zenon
      <4> HIDE DEF Body
      <4> QED BY <4>1, <4>2, Zenon
    <3>4. CASE ~x[2] /\ t[x[1]] # BlockOpen /\ ~(x[3] > 0)
      <4>0. ~EndsSentence(t, x[1])
        BY <3>4
      <4>1. SentenceNext(t, x) = <<x[1] + 1, t[x[1]] = Quote, 0>>
        BY <3>4, Zenon DEF SentenceNext
      <4>2. Body(x) = f[<<x[1] + 1, t[x[1]] = Quote, 0>>]
        BY <3>4, <4>0, Zenon
      <4> HIDE DEF Body
      <4> QED BY <4>1, <4>2, Zenon
    <3> QED
      BY <3>1, <3>2, <3>3, <3>4
  <2>3. Halt => Body(x) = IF x[1] > Len(t) THEN 0 ELSE x[1]
    BY Zenon
  <2> HIDE DEF Body, Halt, More
  <2> QED
    BY <2>1, <2>2, <2>3
<1>7. IsSentences(f, t)
  <2>1. f = [x \in D |-> f[x]]
    BY <1>5
  <2>2. f = [x \in D |-> Body(x)]
    <3> HIDE DEF Body
    <3> QED BY <1>6, <2>1
  <2> QED
    BY <2>2 DEF IsSentences
<1> QED
  BY <1>7

\* The scan, symbol by symbol.
SentenceScan(f, t) ==
    /\ \A start : ScanToSentenceEnd(t, start) = f[<<start, FALSE, 0>>]
    /\ \A i, d \in Nat : i > Len(t) => f[<<i, TRUE, d>>] = 0 /\ f[<<i, FALSE, d>>] = 0
    /\ \A i \in Nat : i <= Len(t) =>
         f[<<i, TRUE, 0>>] = IF t[i] = Quote THEN f[<<i + 1, FALSE, 0>>] ELSE f[<<i + 1, TRUE, 0>>]
    /\ \A i \in Nat, d \in Nat \ {0} : i <= Len(t) =>
         f[<<i, FALSE, d>>] = IF t[i] = BlockOpen THEN f[<<i + 1, FALSE, d + 1>>]
                              ELSE IF t[i] = BlockClose THEN f[<<i + 1, FALSE, d - 1>>]
                              ELSE f[<<i + 1, FALSE, d>>]
    /\ \A i \in Nat : i <= Len(t) =>
         f[<<i, FALSE, 0>>] = IF t[i] = BlockOpen THEN f[<<i + 1, FALSE, 1>>]
                              ELSE IF EndsSentence(t, i) THEN i
                              ELSE IF t[i] = Quote THEN f[<<i + 1, TRUE, 0>>]
                              ELSE f[<<i + 1, FALSE, 0>>]

LEMMA SentenceWalks ==
    ASSUME NEW t, Len(t) \in Nat
    PROVE  \E f : SentenceScan(f, t)
<1>1. PICK f : f = CHOOSE h : IsSentences(h, t)
  OBVIOUS
<1>2. IsSentences(f, t)
  BY <1>1, SentencesExist
<1>3. \A start : ScanToSentenceEnd(t, start) = f[<<start, FALSE, 0>>]
  BY <1>1 DEF ScanToSentenceEnd, IsSentences
<1> DEFINE Body(i, q, d) ==
        IF i > Len(t) THEN 0
        ELSE IF q THEN f[<<i + 1, t[i] # Quote, 0>>]
        ELSE IF t[i] = BlockOpen THEN f[<<i + 1, FALSE, d + 1>>]
        ELSE IF d > 0 THEN f[<<i + 1, FALSE, IF t[i] = BlockClose THEN d - 1 ELSE d>>]
        ELSE IF EndsSentence(t, i) THEN i
        ELSE f[<<i + 1, t[i] = Quote, 0>>]
<1>4. \A i, d \in Nat, q \in BOOLEAN : f[<<i, q, d>>] = Body(i, q, d)
  <2> SUFFICES ASSUME NEW i \in Nat, NEW d \in Nat, NEW q \in BOOLEAN
               PROVE  f[<<i, q, d>>] = Body(i, q, d)
    <3> HIDE DEF Body
    <3> QED OBVIOUS
  <2>1. PICK x : x = <<i, q, d>>
    OBVIOUS
  <2>2. x \in Nat \X BOOLEAN \X Nat /\ x[1] = i /\ x[2] = q /\ x[3] = d
    BY <2>1
  <2>3. f[x] = Body(x[1], x[2], x[3])
    BY <1>2, <2>2, Zenon DEF IsSentences
  <2> HIDE DEF Body
  <2> QED
    BY <2>1, <2>2, <2>3
<1>5. ASSUME NEW i \in Nat, NEW d \in Nat, i > Len(t)
      PROVE  f[<<i, TRUE, d>>] = 0 /\ f[<<i, FALSE, d>>] = 0
  BY <1>4, <1>5
<1>6. ASSUME NEW i \in Nat, i <= Len(t)
      PROVE  f[<<i, TRUE, 0>>] = IF t[i] = Quote THEN f[<<i + 1, FALSE, 0>>]
                                 ELSE f[<<i + 1, TRUE, 0>>]
  <2>1. ~(i > Len(t)) /\ 0 \in Nat
    BY <1>6
  <2>2. f[<<i, TRUE, 0>>] = f[<<i + 1, t[i] # Quote, 0>>]
    BY <1>4, <2>1, Zenon
  <2>3. IF t[i] = Quote THEN (t[i] # Quote) = FALSE ELSE (t[i] # Quote) = TRUE
    OBVIOUS
  <2> QED
    BY <2>2, <2>3, Zenon
<1>7. ASSUME NEW i \in Nat, NEW d \in Nat \ {0}, i <= Len(t)
      PROVE  f[<<i, FALSE, d>>] = IF t[i] = BlockOpen THEN f[<<i + 1, FALSE, d + 1>>]
                                  ELSE IF t[i] = BlockClose THEN f[<<i + 1, FALSE, d - 1>>]
                                  ELSE f[<<i + 1, FALSE, d>>]
  <2>1. ~(i > Len(t)) /\ d > 0 /\ d \in Nat
    BY <1>7
  <2>2. f[<<i, FALSE, d>>] =
          IF t[i] = BlockOpen THEN f[<<i + 1, FALSE, d + 1>>]
          ELSE f[<<i + 1, FALSE, IF t[i] = BlockClose THEN d - 1 ELSE d>>]
    BY <1>4, <2>1, Zenon
  <2> QED
    BY <2>2, Zenon
<1>8. ASSUME NEW i \in Nat, i <= Len(t)
      PROVE  f[<<i, FALSE, 0>>] = IF t[i] = BlockOpen THEN f[<<i + 1, FALSE, 1>>]
                                  ELSE IF EndsSentence(t, i) THEN i
                                  ELSE IF t[i] = Quote THEN f[<<i + 1, TRUE, 0>>]
                                  ELSE f[<<i + 1, FALSE, 0>>]
  <2>1. ~(i > Len(t)) /\ ~(0 > 0) /\ 0 \in Nat /\ 0 + 1 = 1
    BY <1>8
  <2>2. f[<<i, FALSE, 0>>] = IF t[i] = BlockOpen THEN f[<<i + 1, FALSE, 1>>]
                             ELSE IF EndsSentence(t, i) THEN i
                             ELSE f[<<i + 1, t[i] = Quote, 0>>]
    <3>1. f[<<i, FALSE, 0>>] = Body(i, FALSE, 0)
      <4> HIDE DEF Body
      <4> QED BY <1>4, <2>1
    <3>2. Body(i, FALSE, 0) = IF t[i] = BlockOpen THEN f[<<i + 1, FALSE, 0 + 1>>]
                              ELSE IF EndsSentence(t, i) THEN i
                              ELSE f[<<i + 1, t[i] = Quote, 0>>]
      BY <2>1, Zenon
    <3>3. f[<<i + 1, FALSE, 0 + 1>>] = f[<<i + 1, FALSE, 1>>]
      BY <2>1, Zenon
    <3> HIDE DEF Body
    <3> QED
      BY <3>1, <3>2, <3>3, Zenon
  <2>3. IF t[i] = Quote THEN (t[i] = Quote) = TRUE ELSE (t[i] = Quote) = FALSE
    OBVIOUS
  <2> QED
    BY <2>2, <2>3, Zenon
<1>9. SentenceScan(f, t)
  BY <1>3, <1>5, <1>6, <1>7, <1>8, Zenon DEF SentenceScan
<1> QED
  BY <1>9

\* The first of S from i on, 0 if there is none.
IsFirstFrom(v, i, S) ==
    \/ v = 0 /\ \A e \in S : e < i
    \/ v \in S /\ i <= v /\ \A e \in S : i <= e => v <= e

SentenceEnds(L, t) == {k \in 1..Len(t) : L[k].mode = "code" /\ EndsSentence(t, k)}

\* From each place of the text the scan finds the first end that the lexer has.
SentenceFrom(f, L, t, i) ==
    /\ L[i] = Code => IsFirstFrom(f[<<i, FALSE, 0>>], i, SentenceEnds(L, t))
    /\ L[i] = At("string", 0) => IsFirstFrom(f[<<i, TRUE, 0>>], i, SentenceEnds(L, t))
    /\ \A d \in Nat \ {0} : L[i] = At("block", d) =>
            IsFirstFrom(f[<<i, FALSE, d>>], i, SentenceEnds(L, t))

LEMMA SentenceStep ==
    ASSUME NEW t \in Seq(Symbols), \A k \in 1..Len(t) : t[k] # Escape,
           NEW L, IsRun(L, t, RocqComments), NEW f, SentenceScan(f, t),
           NEW i \in 1..Len(t), SentenceFrom(f, L, t, i + 1)
    PROVE  SentenceFrom(f, L, t, i)
<1> DEFINE S == SentenceEnds(L, t)
<1>0. S \in SUBSET Nat /\ i \in Nat /\ i <= Len(t) /\ i + 1 \in Nat
  BY DEF SentenceEnds
<1>1. ASSUME NEW v, i \notin S, IsFirstFrom(v, i + 1, S) PROVE IsFirstFrom(v, i, S)
  <2>1. \A e \in S : e \in Nat /\ e # i
    BY <1>0, <1>1
  <2> HIDE DEF S
  <2>2. CASE v = 0 /\ \A e \in S : e < i + 1
    <3>1. \A e \in S : e < i
      BY <1>0, <2>1, <2>2
    <3> QED
      BY <2>2, <3>1 DEF IsFirstFrom
  <2>3. CASE v \in S /\ i + 1 <= v /\ \A e \in S : i + 1 <= e => v <= e
    <3>1. i <= v
      BY <1>0, <2>1, <2>3
    <3>2. \A e \in S : i <= e => v <= e
      BY <1>0, <2>1, <2>3
    <3> QED
      BY <2>3, <3>1, <3>2 DEF IsFirstFrom
  <2> QED
    BY <1>1, <2>2, <2>3 DEF IsFirstFrom
<1>2. L[i + 1] = Lex(L[i], t[i], RocqComments) /\ t[i] # Escape
  BY DEF IsRun
<1>3. ~RocqComments.line /\ ~RocqComments.verbatim
  BY DEF RocqComments
<1>4. BlockOpen # Dot /\ BlockOpen # Quote /\ Quote # Dot /\ BlockOpen # BlockClose
  BY DEF BlockOpen, Dot, Quote, BlockClose
<1>5. i \in S <=> L[i].mode = "code" /\ EndsSentence(t, i)
  BY DEF SentenceEnds
<1>6. /\ Code.mode = "code" /\ At("string", 0).mode # "code"
      /\ \A d : At("block", d).mode # "code"
  BY DEF Code, At
<1>7. ASSUME L[i] = Code PROVE IsFirstFrom(f[<<i, FALSE, 0>>], i, S)
  <2>1. f[<<i, FALSE, 0>>] = IF t[i] = BlockOpen THEN f[<<i + 1, FALSE, 1>>]
                             ELSE IF EndsSentence(t, i) THEN i
                             ELSE IF t[i] = Quote THEN f[<<i + 1, TRUE, 0>>]
                             ELSE f[<<i + 1, FALSE, 0>>]
    BY <1>0 DEF SentenceScan
  <2>2. L[i + 1] = CASE t[i] = BlockOpen -> At("block", 1)
                     [] t[i] = Quote -> At("string", 0)
                     [] OTHER -> Code
    <3>1. Lex(Code, t[i], RocqComments) = CASE t[i] = BlockOpen -> At("block", 1)
                               [] t[i] = LineMarker /\ RocqComments.line -> At("line", 0)
                               [] t[i] = Open /\ RocqComments.verbatim -> At("verbatim", 1)
                               [] t[i] = Quote -> At("string", 0)
                               [] OTHER -> Code
      BY InCode
    <3>2. L[i + 1] = Lex(Code, t[i], RocqComments)
      BY <1>2, <1>7, Zenon
    <3>3. ~(t[i] = LineMarker /\ RocqComments.line) /\ ~(t[i] = Open /\ RocqComments.verbatim)
      BY <1>3
    <3> QED
      BY <1>4, <3>1, <3>2, <3>3
  <2>3. CASE t[i] = BlockOpen
    <3>0. ~EndsSentence(t, i)
      BY <1>4, <2>3 DEF EndsSentence
    <3>1. i \notin S
      <4> HIDE DEF S
      <4> QED BY <1>5, <3>0
    <3>2. L[i + 1] = At("block", 1) /\ 1 \in Nat \ {0}
      BY <1>4, <2>2, <2>3
    <3>3. IsFirstFrom(f[<<i + 1, FALSE, 1>>], i + 1, S)
      BY <3>2 DEF SentenceFrom
    <3> QED
      BY <1>1, <2>1, <2>3, <3>1, <3>3
  <2>4. CASE t[i] # BlockOpen /\ EndsSentence(t, i)
    <3>1. i \in S
      BY <1>5, <1>6, <1>7, <2>4
    <3>2. f[<<i, FALSE, 0>>] = i
      BY <2>1, <2>4
    <3> HIDE DEF S
    <3> QED
      BY <1>0, <3>1, <3>2 DEF IsFirstFrom
  <2>5. CASE t[i] # BlockOpen /\ ~EndsSentence(t, i) /\ t[i] = Quote
    <3>1. i \notin S /\ L[i + 1] = At("string", 0)
      BY <1>5, <2>2, <2>5
    <3>2. IsFirstFrom(f[<<i + 1, TRUE, 0>>], i + 1, S)
      BY <3>1 DEF SentenceFrom
    <3> QED
      BY <1>1, <2>1, <2>5, <3>1, <3>2
  <2>6. CASE t[i] # BlockOpen /\ ~EndsSentence(t, i) /\ t[i] # Quote
    <3>1. i \notin S /\ L[i + 1] = Code
      BY <1>5, <2>2, <2>6
    <3>2. IsFirstFrom(f[<<i + 1, FALSE, 0>>], i + 1, S)
      BY <3>1 DEF SentenceFrom
    <3> QED
      BY <1>1, <2>1, <2>6, <3>1, <3>2
  <2> QED
    BY <2>3, <2>4, <2>5, <2>6
<1>8. ASSUME L[i] = At("string", 0) PROVE IsFirstFrom(f[<<i, TRUE, 0>>], i, S)
  <2>1. f[<<i, TRUE, 0>>] = IF t[i] = Quote THEN f[<<i + 1, FALSE, 0>>] ELSE f[<<i + 1, TRUE, 0>>]
    BY <1>0 DEF SentenceScan
  <2>2. L[i + 1] = IF t[i] = Quote THEN Code ELSE At("string", 0)
    BY <1>2, <1>8, InString
  <2>3. i \notin S
    BY <1>5, <1>6, <1>8
  <2>4. IF t[i] = Quote THEN IsFirstFrom(f[<<i + 1, FALSE, 0>>], i + 1, S)
                        ELSE IsFirstFrom(f[<<i + 1, TRUE, 0>>], i + 1, S)
    BY <2>2 DEF SentenceFrom
  <2> HIDE DEF S
  <2> QED
    BY <1>1, <2>1, <2>3, <2>4
<1>9. ASSUME NEW d \in Nat \ {0}, L[i] = At("block", d)
      PROVE  IsFirstFrom(f[<<i, FALSE, d>>], i, S)
  <2>1. f[<<i, FALSE, d>>] = IF t[i] = BlockOpen THEN f[<<i + 1, FALSE, d + 1>>]
                             ELSE IF t[i] = BlockClose THEN f[<<i + 1, FALSE, d - 1>>]
                             ELSE f[<<i + 1, FALSE, d>>]
    BY <1>0 DEF SentenceScan
  <2>2. L[i + 1] = CASE t[i] = BlockOpen -> At("block", d + 1)
                     [] t[i] = BlockClose -> IF d = 1 THEN Code ELSE At("block", d - 1)
                     [] OTHER -> At("block", d)
    <3>1. Lex(At("block", d), t[i], RocqComments) =
             CASE t[i] = BlockOpen -> At("block", d + 1)
               [] t[i] = BlockClose -> IF d = 1 THEN Code ELSE At("block", d - 1)
               [] OTHER -> At("block", d)
      BY InBlock
    <3>2. L[i + 1] = Lex(At("block", d), t[i], RocqComments)
      BY <1>2, <1>9, Zenon
    <3> QED
      BY <3>1, <3>2
  <2>3. i \notin S
    BY <1>5, <1>6, <1>9
  <2>4. CASE t[i] = BlockOpen
    <3>1. L[i + 1] = At("block", d + 1) /\ d + 1 \in Nat \ {0}
      BY <1>4, <2>2, <2>4
    <3>2. IsFirstFrom(f[<<i + 1, FALSE, d + 1>>], i + 1, S)
      <4>1. \A c \in Nat \ {0} : L[i + 1] = At("block", c) =>
                IsFirstFrom(f[<<i + 1, FALSE, c>>], i + 1, S)
        BY DEF SentenceFrom
      <4> HIDE DEF S
      <4> QED BY <3>1, <4>1
    <3> QED
      BY <1>1, <2>1, <2>3, <2>4, <3>2
  <2>5. CASE t[i] = BlockClose
    <3>1. CASE d = 1
      <4>1. L[i + 1] = Code /\ d - 1 = 0
        BY <1>4, <2>2, <2>5, <3>1
      <4>2. IsFirstFrom(f[<<i + 1, FALSE, 0>>], i + 1, S)
        BY <4>1 DEF SentenceFrom
      <4> QED
        BY <1>1, <1>4, <2>1, <2>3, <2>5, <4>1, <4>2
    <3>2. CASE d # 1
      <4>1. L[i + 1] = At("block", d - 1) /\ d - 1 \in Nat \ {0}
        BY <1>4, <2>2, <2>5, <3>2
      <4>2. IsFirstFrom(f[<<i + 1, FALSE, d - 1>>], i + 1, S)
        BY <4>1 DEF SentenceFrom
      <4> QED
        BY <1>1, <1>4, <2>1, <2>3, <2>5, <4>2
    <3> QED
      BY <3>1, <3>2
  <2>6. CASE t[i] # BlockOpen /\ t[i] # BlockClose
    <3>1. L[i + 1] = At("block", d)
      BY <2>2, <2>6
    <3>2. IsFirstFrom(f[<<i + 1, FALSE, d>>], i + 1, S)
      BY <3>1 DEF SentenceFrom
    <3> QED
      BY <1>1, <2>1, <2>3, <2>6, <3>2
  <2> QED
    BY <2>4, <2>5, <2>6
<1> QED
  BY <1>7, <1>8, <1>9 DEF SentenceFrom

LEMMA SentencesEnd == text \in Seq(Symbols) => SentenceEndsInCode
<1> SUFFICES ASSUME text \in Seq(Symbols), \A k \in 1..Len(text) : text[k] # Escape
             PROVE  ExtractSentence(text) =
                    {k \in 1..Len(text) :
                        /\ text[k] \notin Whitespace
                        /\ \E e \in SentenceEnds(LexStates(text, RocqComments), text) :
                            /\ k <= e
                            /\ \A d \in SentenceEnds(LexStates(text, RocqComments), text) : e <= d}
  BY DEF SentenceEndsInCode, SentenceEnds
<1>0. PICK L, S : L = LexStates(text, RocqComments) /\ S = SentenceEnds(L, text)
  OBVIOUS
<1> SUFFICES ExtractSentence(text) =
             {k \in 1..Len(text) : /\ text[k] \notin Whitespace
                                   /\ \E e \in S : k <= e /\ \A d \in S : e <= d}
  BY <1>0
<1>1. Len(text) \in Nat /\ IsRun(L, text, RocqComments)
  BY <1>0, LexStatesRun
<1>2. PICK f : SentenceScan(f, text)
  BY <1>1, SentenceWalks
<1> DEFINE n == Len(text)
           Q == {i \in Nat : i >= 1 /\ i <= n + 1 => SentenceFrom(f, L, text, i)}
<1>3. S \subseteq 1..n
  BY <1>0 DEF SentenceEnds
<1>4. SentenceFrom(f, L, text, n + 1)
  <2>1. \A e \in S : e < n + 1
    BY <1>1, <1>3
  <2>2. n + 1 \in Nat /\ n + 1 > n /\ 0 \in Nat
    BY <1>1
  <2>3. \A d \in Nat : f[<<n + 1, TRUE, d>>] = 0 /\ f[<<n + 1, FALSE, d>>] = 0
    BY <1>2, <2>2 DEF SentenceScan
  <2>4. \A d \in Nat : IsFirstFrom(f[<<n + 1, TRUE, d>>], n + 1, S) /\ IsFirstFrom(f[<<n + 1, FALSE, d>>], n + 1, S)
    BY <2>1, <2>3 DEF IsFirstFrom
  <2> QED
    BY <1>0, <2>2, <2>4 DEF SentenceFrom
<1>5. ASSUME NEW i \in Nat, i > n + 1 PROVE i \in Q
  BY <1>1, <1>5
<1>6. ASSUME NEW i \in Nat, i <= n + 1, \A j \in Nat : i < j => j \in Q PROVE i \in Q
  <2> SUFFICES ASSUME i >= 1 PROVE SentenceFrom(f, L, text, i)
    BY <1>6
  <2>1. CASE i = n + 1
    BY <1>4, <2>1
  <2>2. CASE i # n + 1
    <3>1. i \in 1..n /\ i + 1 \in Nat /\ i < i + 1 /\ i + 1 >= 1 /\ i + 1 <= n + 1
      BY <1>1, <1>6, <2>2
    <3>2. i + 1 \in Q
      BY <1>6, <3>1
    <3>3. SentenceFrom(f, L, text, i + 1)
      BY <3>1, <3>2
    <3> QED
      BY <1>1, <1>2, <3>1, <3>3, SentenceStep
  <2> QED
    BY <2>1, <2>2
<1>7. Nat \subseteq Q
  <2>1. n + 1 \in Nat
    BY <1>1
  <2> HIDE DEF Q, n
  <2> QED BY <1>5, <1>6, <2>1, Backwards
<1>8. SentenceFrom(f, L, text, 1)
  BY <1>1, <1>7
<1>9. IsFirstFrom(f[<<1, FALSE, 0>>], 1, S)
  BY <1>0, <1>1, <1>8 DEF SentenceFrom, IsRun
<1>10. PICK v : v = ScanToSentenceEnd(text, 1)
  OBVIOUS
<1>11. IsFirstFrom(v, 1, S)
  BY <1>2, <1>9, <1>10 DEF SentenceScan
<1>12. ExtractSentence(text) = {k \in 1..v : text[k] \notin Whitespace}
  BY <1>10 DEF ExtractSentence
<1>13. CASE v = 0 /\ \A e \in S : e < 1
  <2>1. S = {}
    BY <1>3, <1>13
  <2>2. 1..v = {}
    BY <1>13
  <2> QED
    BY <1>12, <2>1, <2>2
<1>14. CASE v \in S /\ \A e \in S : 1 <= e => v <= e
  <2>1. \A e \in S : e \in Nat /\ e <= n /\ v <= e
    BY <1>1, <1>3, <1>14
  <2>2. ASSUME NEW k \in Nat PROVE (\E e \in S : k <= e /\ \A d \in S : e <= d) <=> k <= v
    <3>1. ASSUME NEW e \in S, k <= e, \A d \in S : e <= d PROVE k <= v
      <4>1. e <= v /\ e \in Nat /\ v \in Nat
        BY <1>14, <2>1, <3>1
      <4> QED
        BY <3>1, <4>1
    <3> QED
      BY <1>14, <2>1, <3>1
  <2>3. v \in Nat /\ v <= n
    BY <1>14, <2>1
  <2>4. \A k : k \in 1..v <=> k \in 1..n /\ k <= v
    BY <1>1, <2>3
  <2>5. \A k \in 1..n : k \in Nat
    OBVIOUS
  <2> HIDE DEF n
  <2> QED
    BY <1>12, <2>2, <2>4, <2>5 DEF n
<1> QED
  BY <1>11, <1>13, <1>14 DEF IsFirstFrom


-----------------------------------------------------------------------------
(* Searches: the first number of a set, from each number on.               *)

IsSearch(f, S) == f = [i \in Nat |-> IF i \in S THEN i ELSE f[i + 1]]

\* e is the first of S from i on.
IsFirstOf(e, i, S) == e \in Nat /\ i <= e /\ e \in S /\ \A k \in i..(e - 1) : k \notin S

LEMMA Searches ==
    ASSUME NEW S, NEW m \in Nat, \A i \in Nat : i > m => i \in S
    PROVE  /\ \E f : IsSearch(f, S)
           /\ \A f : IsSearch(f, S) => \A i \in Nat : IsFirstOf(f[i], i, S)
<1> DEFINE Stop == S \cap Nat
           base == [i \in Nat |-> i]
           next == [i \in Nat |-> i + 1]
           g == [i \in Nat |-> [v \in Nat |-> v]]
           rank == [i \in Nat |-> IF i > m THEN 0 ELSE m + 1 - i]
<1>1. \E f : IsSearch(f, S)
  <2>1. base \in [Nat -> Nat] /\ g \in [Nat -> [Nat -> Nat]] /\ next \in [Nat -> Nat]
    OBVIOUS
  <2>2. rank \in [Nat -> Nat]
    OBVIOUS
  <2>3. \A i \in Nat : i \notin Stop => rank[next[i]] < rank[i]
    OBVIOUS
  <2>4. PICK h : IsWalk(h, Nat, Nat, Stop, base, next, g)
    <3> HIDE DEF Stop, base, next, g, rank
    <3> QED BY <2>1, <2>2, <2>3, WalkExists
  <2>5. \A i \in Nat : h[i] = IF i \in Stop THEN base[i] ELSE h[next[i]]
    <3> HIDE DEF Stop, base
    <3> QED BY <2>1, <2>4 DEF IsWalk
  <2>6. IsSearch(h, S)
    BY <2>4, <2>5 DEF IsSearch, IsWalk
  <2> QED
    BY <2>6
<1>2. ASSUME NEW f, IsSearch(f, S) PROVE \A i \in Nat : IsFirstOf(f[i], i, S)
  <2> DEFINE Right(i) == IsFirstOf(f[i], i, S)
             T == {i \in Nat : Right(i)}
  <2>1. \A i \in Nat : f[i] = IF i \in S THEN i ELSE f[i + 1]
    BY <1>2 DEF IsSearch
  <2>2. ASSUME NEW i \in Nat, i > m PROVE i \in T
    <3>1. f[i] = i /\ i \in S
      BY <2>1, <2>2
    <3> QED
      BY <3>1 DEF IsFirstOf
  <2>3. ASSUME NEW i \in Nat, i <= m, \A j \in Nat : i < j => j \in T PROVE i \in T
    <3>1. CASE i \in S
      <4>1. f[i] = i
        BY <2>1, <3>1
      <4> QED
        BY <3>1, <4>1 DEF IsFirstOf
    <3>2. CASE i \notin S
      <4>1. f[i] = f[i + 1]
        BY <2>1, <3>2
      <4>2. Right(i + 1)
        <5>1. i + 1 \in T
          <6> HIDE DEF T
          <6> QED BY <2>3
        <5> QED
          BY <5>1
      <4>3. PICK e : e = f[i + 1]
        OBVIOUS
      <4>4. e \in Nat /\ i + 1 <= e /\ e \in S /\ \A k \in (i + 1)..(e - 1) : k \notin S
        BY <4>2, <4>3 DEF IsFirstOf
      <4>5. \A k \in i..(e - 1) : k = i \/ k \in (i + 1)..(e - 1)
        BY <4>4
      <4>6. IsFirstOf(e, i, S)
        BY <3>2, <4>4, <4>5 DEF IsFirstOf
      <4> QED
        BY <4>1, <4>3, <4>6
    <3> QED
      BY <3>1, <3>2
  <2>4. Nat \subseteq T
    <3> HIDE DEF T
    <3> QED BY <2>2, <2>3, Backwards
  <2> QED
    BY <2>4
<1> QED
  BY <1>1, <1>2

\* There is one.
LEMMA FirstOfOne ==
    ASSUME NEW S, NEW i \in Nat, NEW d, NEW e, IsFirstOf(d, i, S), IsFirstOf(e, i, S)
    PROVE  d = e
<1>1. d \in Nat /\ e \in Nat /\ i <= d /\ i <= e
  BY DEF IsFirstOf
<1>2. ~(d < e)
  <2>1. d < e => d \in i..(e - 1)
    BY <1>1
  <2> QED
    BY <2>1 DEF IsFirstOf
<1>3. ~(e < d)
  <2>1. e < d => e \in i..(d - 1)
    BY <1>1
  <2> QED
    BY <2>1 DEF IsFirstOf
<1> QED
  BY <1>1, <1>2, <1>3

-----------------------------------------------------------------------------
(* IsabelleStatement: where a line begins, and where it is cut.            *)

LEMMA Bounded ==
    ASSUME NEW last \in Int
    PROVE  \E m \in Nat : last <= m
<1>1. CASE last >= 0
  BY <1>1
<1>2. CASE last < 0
  BY <1>2
<1> QED
  BY <1>1, <1>2

NoBlank(t, last) == {i \in Nat : i > last \/ t[i] # Blank}

LEMMA FirstTokenIs ==
    ASSUME NEW t, NEW last \in Int, NEW first \in Nat
    PROVE  IsFirstOf(FirstToken(t, first, last), first, NoBlank(t, last))
<1>1. PICK m \in Nat : last <= m
  BY Bounded
<1> DEFINE S == NoBlank(t, last)
           IsAt(f) == f = [i \in Nat |-> IF i > last \/ t[i] # Blank THEN i ELSE f[i + 1]]
<1>2. \A i \in Nat : i > m => i \in S
  BY <1>1 DEF NoBlank
<1>3. \A f : IsSearch(f, S) <=> IsAt(f)
  <2> SUFFICES ASSUME NEW f PROVE IsSearch(f, S) <=> IsAt(f)
    <3> HIDE DEF S, IsAt
    <3> QED OBVIOUS
  <2>1. \A i \in Nat : i \in S <=> (i > last \/ t[i] # Blank)
    BY DEF NoBlank
  <2>2. [i \in Nat |-> IF i \in S THEN i ELSE f[i + 1]] =
        [i \in Nat |-> IF i > last \/ t[i] # Blank THEN i ELSE f[i + 1]]
    <3> HIDE DEF S
    <3> QED BY <2>1
  <2> HIDE DEF S
  <2> QED BY <2>2 DEF IsSearch
<1>4. PICK f : f = CHOOSE h : IsAt(h)
  OBVIOUS
<1>5. IsSearch(f, S)
  <2>1. \E h : IsSearch(h, S)
    <3> HIDE DEF S
    <3> QED BY <1>2, Searches
  <2>2. \E h : IsAt(h)
    <3> HIDE DEF S, IsAt
    <3> QED BY <1>3, <2>1
  <2>3. IsAt(f)
    <3> HIDE DEF IsAt
    <3> QED BY <1>4, <2>2
  <2> HIDE DEF S, IsAt
  <2> QED BY <1>3, <2>3
<1>6. FirstToken(t, first, last) = f[first]
  BY <1>4 DEF FirstToken
<1>7. IsFirstOf(f[first], first, S)
  <2> HIDE DEF S
  <2> QED BY <1>2, <1>5, Searches
<1> QED
  BY <1>6, <1>7

\* Where a line that is read in a state is cut.
StopsAt(t, first, last, state, i) ==
    LET here == ScanLine(t, first, i - 1, state)
    IN  /\ ~here.quote /\ here.depth = 0
        /\ t[i] = Proof \/ IsTerminalProof(t, i, last)

CutPlaces(t, first, last, state) ==
    {i \in Nat : i > last \/ StopsAt(t, first, last, state, i)}

LEMMA CutIs ==
    ASSUME NEW t, NEW last \in Int, NEW first \in Nat, NEW state
    PROVE  IsFirstOf(TruncateUnquotedStopToken(t, first, last, state), first,
                     CutPlaces(t, first, last, state))
<1>1. PICK m \in Nat : last <= m
  BY Bounded
<1> DEFINE S == CutPlaces(t, first, last, state)
           IsAt(f) == f = [i \in Nat |->
                              IF i > last THEN i
                              ELSE LET here == ScanLine(t, first, i - 1, state)
                                   IN  IF /\ ~here.quote /\ here.depth = 0
                                          /\ t[i] = Proof \/ IsTerminalProof(t, i, last)
                                       THEN i ELSE f[i + 1]]
<1>2. \A i \in Nat : i > m => i \in S
  BY <1>1 DEF CutPlaces
<1>3. \A f : IsSearch(f, S) <=> IsAt(f)
  <2> SUFFICES ASSUME NEW f PROVE IsSearch(f, S) <=> IsAt(f)
    <3> HIDE DEF S, IsAt
    <3> QED OBVIOUS
  <2>1. \A i \in Nat : i \in S <=> (i > last \/ StopsAt(t, first, last, state, i))
    BY DEF CutPlaces
  <2>2. [i \in Nat |-> IF i \in S THEN i ELSE f[i + 1]] =
        [i \in Nat |-> IF i > last THEN i
                       ELSE IF StopsAt(t, first, last, state, i) THEN i ELSE f[i + 1]]
    <3> HIDE DEF S
    <3> QED BY <2>1
  <2>3. IsAt(f) <=> f = [i \in Nat |-> IF i > last THEN i
                       ELSE IF StopsAt(t, first, last, state, i) THEN i ELSE f[i + 1]]
    BY DEF StopsAt
  <2> HIDE DEF S, IsAt
  <2> QED BY <2>2, <2>3 DEF IsSearch
<1>4. PICK f : f = CHOOSE h : IsAt(h)
  OBVIOUS
<1>5. IsSearch(f, S)
  <2>1. \E h : IsSearch(h, S)
    <3> HIDE DEF S
    <3> QED BY <1>2, Searches
  <2>2. \E h : IsAt(h)
    <3> HIDE DEF S, IsAt
    <3> QED BY <1>3, <2>1
  <2>3. IsAt(f)
    <3> HIDE DEF IsAt
    <3> QED BY <1>4, <2>2
  <2> HIDE DEF S, IsAt
  <2> QED BY <1>3, <2>3
<1>6. TruncateUnquotedStopToken(t, first, last, state) = f[first]
  BY <1>4 DEF TruncateUnquotedStopToken
<1>7. IsFirstOf(f[first], first, S)
  <2> HIDE DEF S
  <2> QED BY <1>2, <1>5, Searches
<1> QED
  BY <1>6, <1>7

-----------------------------------------------------------------------------
(* extract_isabelle_statement, from line to line.                          *)

HeaderStates == [state : ScanStates, declared : BOOLEAN, indent : Nat, quoted : BOOLEAN]

IsHeaders(f, t) ==
    f = [at \in Nat \X [state : ScanStates, declared : BOOLEAN, indent : Nat,
                        quoted : BOOLEAN] |->
            LET first == at[1]  read == at[2]
                last == LineEnd(t, first) - 1
                cut == TruncateUnquotedStopToken(t, first, last, read.state)
                captured == {k \in first..(cut - 1) : t[k] # Blank}
            IN  CASE first > Len(t) -> {}
                  [] first <= Len(t) /\ IsBlankLine(t, first, last) ->
                        IF read.quoted THEN {} ELSE f[<<last + 2, read>>]
                  [] /\ first <= Len(t) /\ ~IsBlankLine(t, first, last)
                     /\ read.declared
                     /\ EndsBefore(t, first, last, read.state, read.indent) -> {}
                  [] OTHER ->
                        captured \cup
                        IF cut <= last THEN {}
                        ELSE f[<<last + 2,
                                [state |-> ScanLine(t, first, last, read.state),
                                 declared |-> TRUE,
                                 indent |-> IF read.declared THEN read.indent
                                            ELSE Indent(t, first, last),
                                 quoted |-> read.quoted \/
                                            \E k \in first..last : t[k] = Quote]>>]]

LastOf(t, first) == LineEnd(t, first) - 1
CutOf(t, first, read) == TruncateUnquotedStopToken(t, first, LastOf(t, first), read.state)
Shows(t, first, read) == {k \in first..(CutOf(t, first, read) - 1) : t[k] # Blank}

\* What is known after a line that is not blank.
Later(t, first, read) ==
    [state |-> ScanLine(t, first, LastOf(t, first), read.state),
     declared |-> TRUE,
     indent |-> IF read.declared THEN read.indent ELSE Indent(t, first, LastOf(t, first)),
     quoted |-> read.quoted \/ \E k \in first..LastOf(t, first) : t[k] = Quote]

HeaderNext(t, first, read) ==
    IF IsBlankLine(t, first, LastOf(t, first)) THEN read ELSE Later(t, first, read)

\* What is captured of a line and of what follows it, of which v is captured.
HeaderFrom(t, first, read, v) ==
    IF IsBlankLine(t, first, LastOf(t, first)) THEN IF read.quoted THEN {} ELSE v
    ELSE IF read.declared /\ EndsBefore(t, first, LastOf(t, first), read.state, read.indent)
         THEN {}
    ELSE Shows(t, first, read) \cup IF CutOf(t, first, read) <= LastOf(t, first) THEN {} ELSE v

HeaderWalk(f, t) ==
    \A first \in Nat, read \in HeaderStates :
        f[<<first, read>>] =
            IF first > Len(t) THEN {}
            ELSE HeaderFrom(t, first, read, f[<<LineEnd(t, first) + 1, HeaderNext(t, first, read)>>])

LEMMA HeaderNextTyped ==
    ASSUME NEW t, Len(t) \in Nat, NEW first \in Nat, NEW read \in HeaderStates
    PROVE  HeaderNext(t, first, read) \in HeaderStates
<1>1. LineEnd(t, first) \in Nat /\ LastOf(t, first) \in Int
  BY LineEndIs DEF EndsLine, LastOf
<1>2. read.state \in ScanStates /\ read.declared \in BOOLEAN /\ read.indent \in Nat
      /\ read.quoted \in BOOLEAN
  BY DEF HeaderStates
<1>3. PICK s \in ScanStates : s = ScanLine(t, first, LastOf(t, first), read.state)
  BY <1>1, <1>2, ScanTyped
<1>4. Indent(t, first, LastOf(t, first)) \in Nat
  <2>1. PICK e : e = FirstToken(t, first, LastOf(t, first))
    OBVIOUS
  <2>2. e \in Nat /\ first <= e
    BY <1>1, <2>1, FirstTokenIs DEF IsFirstOf
  <2> QED
    BY <2>1, <2>2 DEF Indent
<1>5. PICK i \in Nat : i = IF read.declared THEN read.indent ELSE Indent(t, first, LastOf(t, first))
  BY <1>2, <1>4
<1>6. PICK q \in BOOLEAN : q = (read.quoted \/ \E k \in first..LastOf(t, first) : t[k] = Quote)
  OBVIOUS
<1>7. Later(t, first, read) = [state |-> s, declared |-> TRUE, indent |-> i, quoted |-> q]
  BY <1>3, <1>5, <1>6, Zenon DEF Later
<1>8. Later(t, first, read) \in HeaderStates
  BY <1>7 DEF HeaderStates
<1> QED
  BY <1>8 DEF HeaderNext

LEMMA HeadersWalk ==
    ASSUME NEW t, Len(t) \in Nat
    PROVE  \E f : IsHeaders(f, t) /\ f = (CHOOSE h : IsHeaders(h, t)) /\ HeaderWalk(f, t)
<1> DEFINE D == Nat \X HeaderStates
           V == SUBSET Nat
           Stop == {x \in D : x[1] > Len(t)}
           base == [x \in D |-> {}]
           next == [x \in D |-> <<LineEnd(t, x[1]) + 1, HeaderNext(t, x[1], x[2])>>]
           g == [x \in D |-> [v \in V |-> HeaderFrom(t, x[1], x[2], v)]]
           rank == [x \in D |-> IF x[1] > Len(t) THEN 0 ELSE Len(t) + 1 - x[1]]
<1>0. \A x \in D : /\ x[1] \in Nat /\ x[2] \in HeaderStates /\ x = <<x[1], x[2]>>
                   /\ LineEnd(t, x[1]) \in Nat /\ x[1] <= LineEnd(t, x[1])
                   /\ LastOf(t, x[1]) \in Int
  <2> SUFFICES ASSUME NEW x \in D
               PROVE  /\ x[1] \in Nat /\ x[2] \in HeaderStates /\ x = <<x[1], x[2]>>
                      /\ LineEnd(t, x[1]) \in Nat /\ x[1] <= LineEnd(t, x[1])
                      /\ LastOf(t, x[1]) \in Int
    OBVIOUS
  <2>1. x[1] \in Nat /\ x[2] \in HeaderStates /\ x = <<x[1], x[2]>>
    OBVIOUS
  <2>2. LineEnd(t, x[1]) \in Nat /\ x[1] <= LineEnd(t, x[1])
    BY <2>1, LineEndIs DEF EndsLine
  <2>3. LastOf(t, x[1]) \in Int
    BY <2>2 DEF LastOf
  <2> HIDE DEF D
  <2> QED
    BY <2>1, <2>2, <2>3
<1>1. base \in [D -> V] /\ rank \in [D -> Nat]
  OBVIOUS
<1>2. next \in [D -> D]
  <2> SUFFICES ASSUME NEW x \in D PROVE next[x] \in D
    <3> HIDE DEF D
    <3> QED OBVIOUS
  <2>1. HeaderNext(t, x[1], x[2]) \in HeaderStates
    BY <1>0, HeaderNextTyped
  <2>2. LineEnd(t, x[1]) + 1 \in Nat
    BY <1>0
  <2> QED
    BY <2>1, <2>2
<1>3. \A x \in D : x \notin Stop => rank[next[x]] < rank[x]
  <2> SUFFICES ASSUME NEW x \in D, x[1] <= Len(t) PROVE rank[next[x]] < rank[x]
    <3> HIDE DEF rank, next, D
    <3> QED BY <1>0
  <2>1. PICK y \in D : y = next[x]
    BY <1>2
  <2>2. y[1] = LineEnd(t, x[1]) + 1
    BY <2>1
  <2>3. x[1] < y[1] /\ y[1] \in Nat /\ x[1] \in Nat
    BY <1>0, <2>2
  <2>4. rank[y] < rank[x]
    BY <2>3
  <2> QED
    BY <2>1, <2>4
<1>4. g \in [D -> [V -> V]]
  <2>1. ASSUME NEW x \in D, NEW v \in V PROVE HeaderFrom(t, x[1], x[2], v) \in V
    <3>1. Shows(t, x[1], x[2]) \in V
      <4>1. \A k \in x[1]..(CutOf(t, x[1], x[2]) - 1) : k \in Nat
        BY <1>0
      <4> QED
        BY <4>1 DEF Shows
    <3> QED
      BY <3>1 DEF HeaderFrom
  <2> HIDE DEF V, D
  <2> QED BY <2>1
<1>5. PICK h : IsWalk(h, D, V, Stop, base, next, g)
  <2> HIDE DEF D, V, Stop, base, next, g, rank
  <2> QED BY <1>1, <1>2, <1>3, <1>4, WalkExists
<1> DEFINE Answer(f, first, read) ==
              IF first > Len(t) THEN {}
              ELSE HeaderFrom(t, first, read,
                              f[<<LineEnd(t, first) + 1, HeaderNext(t, first, read)>>])
           Ends(first, read) ==
              EndsBefore(t, first, LastOf(t, first), read.state, read.indent)
           Body(f, first, read) ==
              CASE first > Len(t) -> {}
                [] first <= Len(t) /\ IsBlankLine(t, first, LastOf(t, first)) ->
                      IF read.quoted THEN {} ELSE f[<<LastOf(t, first) + 2, read>>]
                [] /\ first <= Len(t) /\ ~IsBlankLine(t, first, LastOf(t, first))
                   /\ read.declared /\ Ends(first, read) -> {}
                [] OTHER ->
                      Shows(t, first, read) \cup
                      IF CutOf(t, first, read) <= LastOf(t, first) THEN {}
                      ELSE f[<<LastOf(t, first) + 2, Later(t, first, read)>>]
<1>6. \A x \in D : h[x] = Answer(h, x[1], x[2])
  <2> SUFFICES ASSUME NEW x \in D PROVE h[x] = Answer(h, x[1], x[2])
    <3> HIDE DEF Answer
    <3> QED OBVIOUS
  <2>1. h[x] = IF x \in Stop THEN base[x] ELSE g[x][h[next[x]]]
    <3> HIDE DEF Stop, base, next, g, V, D
    <3> QED BY <1>5 DEF IsWalk
  <2>2. h[next[x]] \in V
    <3> HIDE DEF Stop, base, next, g, V, D
    <3> QED BY <1>2, <1>5 DEF IsWalk
  <2>3. CASE x[1] > Len(t)
    BY <2>1, <2>3
  <2>4. CASE ~(x[1] > Len(t))
    <3>1. h[x] = g[x][h[next[x]]]
          /\ next[x] = <<LineEnd(t, x[1]) + 1, HeaderNext(t, x[1], x[2])>>
      <4> HIDE DEF g, V
      <4> QED BY <2>1, <2>4
    <3>2. \A v \in V : g[x][v] = HeaderFrom(t, x[1], x[2], v)
      <4> HIDE DEF V
      <4> QED OBVIOUS
    <3> HIDE DEF g, V, next
    <3> QED
      BY <2>2, <2>4, <3>1, <3>2
  <2> QED
    BY <2>3, <2>4
<1>7. ASSUME NEW f, NEW x \in D PROVE Body(f, x[1], x[2]) = Answer(f, x[1], x[2])
  <2>1. LastOf(t, x[1]) + 2 = LineEnd(t, x[1]) + 1
    BY <1>0 DEF LastOf
  <2>2. x[1] \in Nat /\ (x[1] <= Len(t) <=> ~(x[1] > Len(t)))
    BY <1>0
  <2>3. CASE x[1] > Len(t)
    <3>1. Body(f, x[1], x[2]) = {}
      <4> HIDE DEF Ends
      <4> QED BY <2>2, <2>3
    <3> QED
      BY <2>3, <3>1
  <2>4. CASE ~(x[1] > Len(t)) /\ IsBlankLine(t, x[1], LastOf(t, x[1]))
    <3>1. Body(f, x[1], x[2]) = IF x[2].quoted THEN {} ELSE f[<<LastOf(t, x[1]) + 2, x[2]>>]
      <4> HIDE DEF Ends
      <4> QED BY <2>2, <2>4
    <3>2. Answer(f, x[1], x[2]) = IF x[2].quoted THEN {} ELSE f[<<LineEnd(t, x[1]) + 1, x[2]>>]
      BY <2>4, Zenon DEF HeaderFrom, HeaderNext
    <3> HIDE DEF Body, Answer
    <3> QED
      BY <2>1, <3>1, <3>2
  <2>5. CASE /\ ~(x[1] > Len(t)) /\ ~IsBlankLine(t, x[1], LastOf(t, x[1]))
             /\ x[2].declared /\ Ends(x[1], x[2])
    <3>1. Body(f, x[1], x[2]) = {}
      <4> HIDE DEF Ends
      <4> QED BY <2>2, <2>5
    <3>2. Answer(f, x[1], x[2]) = {}
      BY <2>5, Zenon DEF HeaderFrom
    <3> HIDE DEF Body, Answer
    <3> QED
      BY <3>1, <3>2
  <2>6. CASE /\ ~(x[1] > Len(t)) /\ ~IsBlankLine(t, x[1], LastOf(t, x[1]))
             /\ ~(x[2].declared /\ Ends(x[1], x[2]))
    <3>1. Body(f, x[1], x[2]) =
            Shows(t, x[1], x[2]) \cup
            IF CutOf(t, x[1], x[2]) <= LastOf(t, x[1]) THEN {}
            ELSE f[<<LastOf(t, x[1]) + 2, Later(t, x[1], x[2])>>]
      <4> HIDE DEF Ends
      <4> QED BY <2>2, <2>6
    <3>2. Answer(f, x[1], x[2]) =
            Shows(t, x[1], x[2]) \cup
            IF CutOf(t, x[1], x[2]) <= LastOf(t, x[1]) THEN {}
            ELSE f[<<LineEnd(t, x[1]) + 1, Later(t, x[1], x[2])>>]
      BY <2>6, Zenon DEF HeaderFrom, HeaderNext
    <3> HIDE DEF Body, Answer
    <3> QED
      BY <2>1, <3>1, <3>2
  <2> HIDE DEF Body, Answer, Ends
  <2> QED
    BY <2>3, <2>4, <2>5, <2>6
<1>8. \A f : IsHeaders(f, t) <=> f = [x \in D |-> Body(f, x[1], x[2])]
  BY DEF IsHeaders, HeaderStates, LastOf, CutOf, Shows, Later
<1>9. IsHeaders(h, t)
  <2>1. h = [x \in D |-> h[x]]
    BY <1>5 DEF IsWalk
  <2>2. \A x \in D : h[x] = Body(h, x[1], x[2])
    <3> HIDE DEF Body, Answer, D
    <3> QED BY <1>6, <1>7
  <2> HIDE DEF Body
  <2> QED
    BY <1>8, <2>1, <2>2
<1>10. PICK f : f = CHOOSE k : IsHeaders(k, t)
  OBVIOUS
<1>11. IsHeaders(f, t)
  BY <1>9, <1>10
<1>13. \A first \in Nat, read \in HeaderStates : f[<<first, read>>] = Answer(f, first, read)
  <2> SUFFICES ASSUME NEW first \in Nat, NEW read \in HeaderStates
               PROVE  f[<<first, read>>] = Answer(f, first, read)
    <3> HIDE DEF Answer
    <3> QED OBVIOUS
  <2>1. PICK x \in D : x = <<first, read>>
    OBVIOUS
  <2>2. x[1] = first /\ x[2] = read
    BY <2>1
  <2>3. f[x] = Body(f, x[1], x[2])
    <3> HIDE DEF Body, D
    <3> QED BY <1>8, <1>11
  <2>4. f[x] = Answer(f, x[1], x[2])
    <3> HIDE DEF Body, Answer, D
    <3> QED BY <1>7, <2>3
  <2> HIDE DEF Answer
  <2> QED BY <2>1, <2>2, <2>4
<1> QED
  BY <1>10, <1>11, <1>13 DEF HeaderWalk

-----------------------------------------------------------------------------
(* The lines of the text, and what the lexer says where they begin.        *)

\* s begins a line, of which last is the last position.
IsaLine(t, L, b, s, last) ==
    /\ t \in Seq(Symbols) /\ L = LexStates(t, IsabelleComments) /\ b = BlankedText(t)
    /\ s \in 1..Len(t) /\ (s = 1 \/ b[s - 1] = NewLine)
    /\ last = LineEnd(b, s) - 1

LEMMA LinesAre ==
    ASSUME NEW b \in Seq(Symbols)
    PROVE  Lines(b) = {<<s, LineEnd(b, s) - 1>> : s \in {k \in 1..Len(b) : k = 1 \/ b[k - 1] = NewLine}}
<1> DEFINE Starts == {k \in 1..Len(b) : k = 1 \/ b[k - 1] = NewLine}
<1>0. Len(b) \in Nat
  OBVIOUS
<1>1. Starts = {k \in {1} \cup {k + 1 : k \in {j \in 1..Len(b) : b[j] = NewLine}} : k <= Len(b)}
  <2> SUFFICES ASSUME NEW k
               PROVE  k \in Starts <=>
                        /\ k = 1 \/ \E j \in 1..Len(b) : b[j] = NewLine /\ k = j + 1
                        /\ k <= Len(b)
    OBVIOUS
  <2>1. ASSUME k \in Starts, k # 1
        PROVE  \E j \in 1..Len(b) : b[j] = NewLine /\ k = j + 1
    <3>1. k - 1 \in 1..Len(b) /\ b[k - 1] = NewLine /\ k = (k - 1) + 1
      BY <2>1
    <3> QED
      BY <3>1
  <2>2. ASSUME NEW j \in 1..Len(b), b[j] = NewLine, k = j + 1, k <= Len(b) PROVE k \in Starts
    <3>1. k - 1 = j /\ k \in 1..Len(b)
      BY <2>2
    <3> QED
      BY <2>2, <3>1
  <2>3. k = 1 /\ k <= Len(b) => k \in Starts
    BY <1>0
  <2>4. k \in Starts => k <= Len(b)
    OBVIOUS
  <2> HIDE DEF Starts
  <2> QED
    BY <2>1, <2>2, <2>3, <2>4
<1> QED
  BY <1>1 DEF Lines

LEMMA SymbolsAre ==
    /\ Blank # NewLine /\ Proof \notin {Blank, NewLine} /\ Dot \notin {Blank, NewLine}
    /\ Declaration \notin {Blank, NewLine} /\ Command \notin {Blank, NewLine}
    /\ {Proof, Declaration, Command, Dot} \cap {BlockOpen, Open, Quote, LineMarker} = {}
    /\ Declaration # Proof /\ Declaration # Dot /\ Declaration # Command
BY DEF Blank, NewLine, Proof, Dot, Declaration, Command, BlockOpen, Open, Quote, LineMarker

\* Blanking keeps the newlines.
LEMMA NewLinesStay ==
    ASSUME NEW t \in Seq(Symbols), NEW k \in 1..Len(t)
    PROVE  BlankedText(t)[k] = NewLine <=> t[k] = NewLine
BY BlankedIs, SymbolsAre

\* No escape is open at s.
NoEscape(L, s) == L[s].mode # "escaped"

\* The positions from s to last are on one line.
OneLine(b, s, last) == \A k \in s..last : b[k] # NewLine

LEMMA IsaLineIs ==
    ASSUME NEW t, NEW L, NEW b, NEW s, NEW last, IsaLine(t, L, b, s, last)
    PROVE  /\ Len(t) \in Nat /\ Len(b) = Len(t) /\ b \in Seq(Symbols)
           /\ s \in Nat /\ last \in Nat /\ s <= last + 1 /\ last <= Len(t)
           /\ LineEnd(b, s) = last + 1
           /\ OneLine(b, s, last)
           /\ last + 1 <= Len(t) => b[last + 1] = NewLine
           /\ NoEscape(L, s)
           /\ \A k \in 1..(Len(t) + 1) : L[k] \in LexStateSet
           /\ IsRun(L, t, IsabelleComments)
           /\ <<s, last>> \in Lines(b)
<1>1. t \in Seq(Symbols) /\ L = LexStates(t, IsabelleComments) /\ b = BlankedText(t)
      /\ s \in 1..Len(t) /\ (s = 1 \/ b[s - 1] = NewLine) /\ last = LineEnd(b, s) - 1
  BY DEF IsaLine
<1>2. Len(t) \in Nat /\ Len(b) = Len(t) /\ b \in Seq(Symbols) /\ s \in Nat
  BY <1>1, BlankedIs
<1>3. PICK e : e = LineEnd(b, s)
  OBVIOUS
<1>4. /\ e \in Nat /\ s <= e /\ e <= Len(t) + 1
      /\ \A k \in s..(e - 1) : b[k] # NewLine
      /\ e <= Len(t) => b[e] = NewLine
  <2>1. EndsLine(b, s, e)
    BY <1>2, <1>3, LineEndIs
  <2> QED
    BY <1>1, <1>2, <2>1 DEF EndsLine
<1>5. last = e - 1 /\ last + 1 = e /\ last \in Nat
  BY <1>1, <1>3, <1>4
<1>6. IsRun(L, t, IsabelleComments)
  BY <1>1, LexStatesRun
<1>7. NoEscape(L, s)
  <2>1. CASE s = 1
    BY <1>6, <2>1 DEF IsRun, Code, At, NoEscape
  <2>2. CASE s # 1
    <3>1. s - 1 \in 1..Len(t) /\ b[s - 1] = NewLine /\ (s - 1) + 1 = s
      BY <1>1, <1>2, <2>2
    <3>2. L[(s - 1) + 1].mode # "escaped"
      BY <1>1, <3>1, NewLineKeeps
    <3> QED
      BY <3>1, <3>2 DEF NoEscape
  <2> QED
    BY <2>1, <2>2
<1>8. \A k \in 1..(Len(t) + 1) : L[k] \in LexStateSet
  BY <1>2, <1>6 DEF IsRun
<1>9. <<s, last>> \in Lines(b)
  BY <1>1, <1>2, LinesAre
<1>10. s <= last + 1 /\ last <= Len(t)
  BY <1>2, <1>4, <1>5
<1>11. OneLine(b, s, last)
  BY <1>4, <1>5 DEF OneLine
<1>12. last + 1 <= Len(t) => b[last + 1] = NewLine
  BY <1>4, <1>5
<1> QED
  BY <1>2, <1>3, <1>5, <1>6, <1>7, <1>8, <1>9, <1>10, <1>11, <1>12

\* A position of a line is in no other.
LEMMA LineOfIs ==
    ASSUME NEW t, NEW L, NEW b, NEW s, NEW last, IsaLine(t, L, b, s, last), NEW k \in s..last
    PROVE  (CHOOSE l \in Lines(b) : l[1] <= k /\ k <= l[2]) = <<s, last>>
<1>1. /\ Len(b) \in Nat /\ b \in Seq(Symbols) /\ s \in Nat /\ last \in Nat
      /\ \A i \in s..last : b[i] # NewLine
      /\ <<s, last>> \in Lines(b)
  BY IsaLineIs DEF OneLine
<1>1a. s = 1 \/ b[s - 1] = NewLine
  BY DEF IsaLine
<1>2. ASSUME NEW l \in Lines(b), l[1] <= k /\ k <= l[2] PROVE l = <<s, last>>
  <2>1. PICK r \in {i \in 1..Len(b) : i = 1 \/ b[i - 1] = NewLine} : l = <<r, LineEnd(b, r) - 1>>
    BY <1>1, LinesAre
  <2>2. l[1] = r /\ l[2] = LineEnd(b, r) - 1 /\ r \in Nat
    BY <2>1
  <2>3. LineEnd(b, r) \in Nat /\ \A i \in r..(LineEnd(b, r) - 1) : b[i] # NewLine
    BY <1>1, <2>2, LineEndIs DEF EndsLine
  <2>4. r <= k /\ k <= LineEnd(b, r) - 1
    BY <1>2, <2>2
  <2>5. ~(s < r)
    <3>a. k \in Int /\ k <= last /\ s <= k
      BY <1>1
    <3>b. r <= last /\ s >= 1
      BY <1>1, <1>1a, <2>2, <2>4, <3>a DEF IsaLine
    <3>1. s < r => r - 1 \in s..last /\ r # 1
      BY <1>1, <2>2, <3>a, <3>b
    <3> QED
      BY <1>1, <2>1, <3>1
  <2>6. ~(r < s)
    <3>a. k \in Int /\ s <= k /\ r >= 1
      BY <1>1, <2>1
    <3>b. s <= LineEnd(b, r) - 1
      BY <1>1, <2>3, <2>4, <3>a
    <3>1. r < s => s - 1 \in r..(LineEnd(b, r) - 1) /\ s # 1
      BY <1>1, <2>2, <2>3, <3>a, <3>b
    <3> QED
      BY <1>1a, <2>3, <3>1
  <2>7. r = s
    BY <1>1, <2>2, <2>5, <2>6
  <2>8. last = LineEnd(b, s) - 1
    BY DEF IsaLine
  <2>9. l = <<s, LineEnd(b, s) - 1>>
    BY <2>1, <2>7
  <2> QED
    BY <2>8, <2>9, Zenon
<1>3. PICK m : m = <<s, last>>
  OBVIOUS
<1>4. m \in Lines(b) /\ m[1] <= k /\ k <= m[2]
  BY <1>1, <1>3
<1> DEFINE Has(l) == l[1] <= k /\ k <= l[2]
<1>5. PICK c : c = CHOOSE l \in Lines(b) : Has(l)
  OBVIOUS
<1>6. c \in Lines(b) /\ Has(c)
  <2>1. Has(m)
    BY <1>4
  <2> HIDE DEF Has
  <2> QED BY <1>4, <1>5, <2>1
<1> QED
  BY <1>2, <1>5, <1>6

\* A position whose symbol shows, where nothing is open, is in code.
LEMMA ShownIsCode ==
    ASSUME NEW t \in Seq(Symbols), NEW L, L = LexStates(t, IsabelleComments),
           NEW b, b = BlankedText(t), NEW k \in 1..Len(t), b[k] \notin {Blank, NewLine}
    PROVE  t[k] = b[k] /\ ~InComment(L, k) /\ (L[k].mode \in Plain => L[k].mode = "code")
<1>1. b[k] = IF t[k] # NewLine /\ InComment(L, k) THEN Blank ELSE t[k]
  BY BlankedIs
<1>2. ~InComment(L, k)
  BY <1>1
<1> QED
  BY <1>1, <1>2 DEF InComment, Plain

\* What the scan carries tells what is open.
LEMMA ScanTells ==
    ASSUME NEW state \in LexStateSet
    PROVE  /\ ScanOf(state) \in ScanStates
           /\ ScanOf(state).quote <=> state.mode \in InLiteral
           /\ ScanOf(state).depth > 0 <=> state.mode = "verbatim"
           /\ ~ScanOf(state).quote /\ ScanOf(state).depth = 0 <=> state.mode \in Plain
<1>1. state.depth \in Nat /\ state.mode \in Modes
      /\ (state.mode = "verbatim" => state.depth > 0)
  BY DEF LexStateSet, At, Modes
<1>2. PICK q \in BOOLEAN : q = (state.mode \in InLiteral)
  <2>1. (state.mode \in InLiteral) \in BOOLEAN
    OBVIOUS
  <2> QED
    BY <2>1, Zenon
<1>3. PICK d \in Nat : d = IF state.mode = "verbatim" THEN state.depth ELSE 0
  BY <1>1
<1>4. ScanOf(state) = [quote |-> q, depth |-> d]
  BY <1>2, <1>3, Zenon DEF ScanOf
<1>5. ScanOf(state).quote = q /\ ScanOf(state).depth = d /\ ScanOf(state) \in ScanStates
  BY <1>4 DEF ScanStates
<1>6. q <=> state.mode \in InLiteral
  BY <1>2
<1>7. d > 0 <=> state.mode = "verbatim"
  BY <1>1, <1>3
<1>8. ~q /\ d = 0 <=> state.mode \in Plain
  <2>1. state.mode \in Plain <=> state.mode \notin InLiteral /\ state.mode # "verbatim"
    BY <1>1 DEF Plain, InLiteral, Modes
  <2>2. d = 0 <=> ~(d > 0)
    OBVIOUS
  <2> QED
    BY <1>6, <1>7, <2>1, <2>2
<1> QED
  BY <1>5, <1>6, <1>7, <1>8

\* Blanks keep what is open.
LEMMA BlanksKeep ==
    ASSUME NEW t, NEW L, NEW b, NEW s, NEW last, IsaLine(t, L, b, s, last),
           NEW e \in s..(last + 1), \A k \in s..(e - 1) : b[k] = Blank
    PROVE  \A k \in s..e : ScanOf(L[k]) = ScanOf(L[s])
<1> SUFFICES ASSUME NEW k \in s..e PROVE ScanOf(L[k]) = ScanOf(L[s])
  OBVIOUS
<1>1. t \in Seq(Symbols) /\ L = LexStates(t, IsabelleComments) /\ b = BlankedText(t)
      /\ s \in 1..Len(t)
  BY DEF IsaLine
<1>2. /\ Len(t) \in Nat /\ s \in Nat /\ last \in Nat /\ last <= Len(t)
      /\ NoEscape(L, s) /\ L[s] \in LexStateSet
  <2>a. Len(t) \in Nat /\ s \in Nat /\ last \in Nat /\ last <= Len(t)
    BY IsaLineIs
  <2>b. NoEscape(L, s)
    BY IsaLineIs
  <2>c. \A i \in 1..(Len(t) + 1) : L[i] \in LexStateSet
    BY IsaLineIs
  <2>1. /\ Len(t) \in Nat /\ s \in Nat /\ last \in Nat /\ last <= Len(t)
        /\ NoEscape(L, s) /\ \A i \in 1..(Len(t) + 1) : L[i] \in LexStateSet
    BY <2>a, <2>b, <2>c
  <2>2. s \in 1..(Len(t) + 1)
    BY <1>1, <2>1
  <2> QED
    BY <2>1, <2>2
<1>2a. s >= 1 /\ e \in Int /\ k \in Int /\ s <= k /\ k <= e /\ e <= last + 1
  BY <1>1, <1>2
<1>2b. s \in 1..k
  BY <1>2, <1>2a
<1>2c. PICK n \in Nat : n = Len(t)
  BY <1>2
<1>2d. k <= n + 1
  BY <1>2, <1>2a, <1>2c
<1>2e. k >= 1
  BY <1>2, <1>2a
<1>2f. k - 1 \in Nat /\ k - 1 <= n /\ (k - 1) + 1 = k
  <2> HIDE DEF IsaLine
  <2> QED BY <1>2a, <1>2d, <1>2e, <1>2c
<1>3. k - 1 \in Nat /\ k - 1 <= Len(t) /\ s \in 1..((k - 1) + 1) /\ (k - 1) + 1 = k /\ k - 1 \in Int
  BY <1>2b, <1>2c, <1>2f
<1>4. ScanLine(b, s, k - 1, ScanOf(L[s])) = ScanOf(L[(k - 1) + 1])
  BY <1>1, <1>2, <1>3, ScanReads DEF NoEscape
<1>5. IsBlankLine(b, s, k - 1)
  <2>1. \A i \in s..(k - 1) : i \in s..(e - 1)
    BY <1>2, <1>3
  <2> QED
    BY <2>1 DEF IsBlankLine, Whitespace
<1>6. ScanLine(b, s, k - 1, ScanOf(L[s])) = ScanOf(L[s])
  BY <1>2, <1>3, <1>5, ScanBlank, ScanTells
<1> QED
  BY <1>3, <1>4, <1>6

-----------------------------------------------------------------------------
(* Where code ends a header, line by line.                                 *)

\* Blanking moves no line.
LEMMA SameLines ==
    ASSUME NEW t \in Seq(Symbols)
    PROVE  Lines(t) = Lines(BlankedText(t))
<1> DEFINE b == BlankedText(t)
           n == Len(t)
<1>1. b \in Seq(Symbols) /\ Len(b) = n /\ n \in Nat
  BY BlankedIs
<1>2. \A k \in 1..n : b[k] = NewLine <=> t[k] = NewLine
  BY NewLinesStay
<1>3. ASSUME NEW s \in 1..n PROVE LineEnd(t, s) = LineEnd(b, s)
  <2>1. PICK d : d = LineEnd(t, s)
    OBVIOUS
  <2>2. PICK e : e = LineEnd(b, s)
    OBVIOUS
  <2>3. EndsLine(t, s, d)
    BY <1>1, <2>1, LineEndIs
  <2>4. EndsLine(b, s, e)
    <3> HIDE DEF b, n
    <3> QED BY <1>1, <2>2, LineEndIs
  <2>5. d \in Nat /\ e \in Nat /\ s <= d /\ s <= e /\ d <= n + 1 /\ e <= n + 1
    <3> HIDE DEF b
    <3> QED BY <1>1, <2>3, <2>4 DEF EndsLine
  <2>6. ~(d < e)
    <3>1. ASSUME d < e PROVE FALSE
      <4>1. d \in s..(e - 1) /\ d <= n /\ d \in 1..n
        BY <1>1, <2>5, <3>1
      <4>2. b[d] # NewLine
        <5> HIDE DEF b
        <5> QED BY <2>4, <4>1 DEF EndsLine
      <4>3. t[d] = NewLine
        BY <2>3, <4>1 DEF EndsLine
      <4> HIDE DEF b, n
      <4> QED BY <1>2, <4>1, <4>2, <4>3
    <3> QED
      BY <3>1
  <2>7. ~(e < d)
    <3>1. ASSUME e < d PROVE FALSE
      <4>1. e \in s..(d - 1) /\ e <= n /\ e \in 1..n
        BY <1>1, <2>5, <3>1
      <4>2. t[e] # NewLine
        BY <2>3, <4>1 DEF EndsLine
      <4>3. b[e] = NewLine
        <5> HIDE DEF b, n
        <5> QED BY <1>1, <2>4, <4>1 DEF EndsLine
      <4> HIDE DEF b, n
      <4> QED BY <1>2, <4>1, <4>2, <4>3
    <3> QED
      BY <3>1
  <2>8. d = e
    BY <2>5, <2>6, <2>7
  <2> QED
    BY <2>1, <2>2, <2>8
<1>4. \A k \in 1..n : (k = 1 \/ b[k - 1] = NewLine) <=> (k = 1 \/ t[k - 1] = NewLine)
  <2> SUFFICES ASSUME NEW k \in 1..n, k # 1 PROVE b[k - 1] = NewLine <=> t[k - 1] = NewLine
    OBVIOUS
  <2>1. k - 1 \in 1..n
    BY <1>1
  <2> HIDE DEF b, n
  <2> QED BY <1>2, <2>1
<1>5. Lines(t) = {<<s, LineEnd(t, s) - 1>> : s \in {k \in 1..n : k = 1 \/ t[k - 1] = NewLine}}
  BY LinesAre
<1>6. Lines(b) = {<<s, LineEnd(b, s) - 1>> : s \in {k \in 1..n : k = 1 \/ b[k - 1] = NewLine}}
  <2> HIDE DEF b, n
  <2> QED BY <1>1, LinesAre
<1>7. {k \in 1..n : k = 1 \/ t[k - 1] = NewLine} = {k \in 1..n : k = 1 \/ b[k - 1] = NewLine}
  <2> HIDE DEF b, n
  <2> QED BY <1>4
<1>8. PICK S : S = {k \in 1..n : k = 1 \/ b[k - 1] = NewLine} /\ S \subseteq 1..n
  <2> HIDE DEF b, n
  <2> QED OBVIOUS
<1>9. {<<s, LineEnd(t, s) - 1>> : s \in S} = {<<s, LineEnd(b, s) - 1>> : s \in S}
  <2>1. \A s \in S : LineEnd(t, s) = LineEnd(b, s)
    <3> HIDE DEF b, n
    <3> QED BY <1>3, <1>8
  <2> HIDE DEF b, n
  <2> QED BY <2>1
<1> HIDE DEF b, n
<1>10. Lines(t) = {<<s, LineEnd(t, s) - 1>> : s \in S}
  BY <1>5, <1>7, <1>8
<1>11. Lines(b) = {<<s, LineEnd(b, s) - 1>> : s \in S}
  BY <1>6, <1>8
<1>12. Lines(t) = Lines(b)
  BY <1>9, <1>10, <1>11
<1> QED
  BY <1>12 DEF b

InCodeAt(L, k) == L[k].mode = "code"

\* A line begins with what starts another declaration or command.
Begins(L, b, s, last, k) ==
    /\ InCodeAt(L, k) /\ FirstToken(b, s, last) = k
    /\ b[k] = Declaration \/ (b[k] = Command /\ k = s)

\* Code opens or completes a proof at k.
Proves(L, b, last, k) == InCodeAt(L, k) /\ (b[k] = Proof \/ IsTerminalProof(b, k, last))

LEMMA CodeShows ==
    ASSUME NEW t \in Seq(Symbols), NEW L, L = LexStates(t, IsabelleComments),
           NEW b, b = BlankedText(t), NEW k \in 1..Len(t), InCodeAt(L, k),
           t[k] \in {Proof, Declaration, Command, Dot}
    PROVE  b[k] = t[k]
<1>1. IsRun(L, t, IsabelleComments)
  BY LexStatesRun
<1>2. L[k + 1] = Lex(L[k], t[k], IsabelleComments) /\ L[k] \in LexStateSet
  BY <1>1 DEF IsRun
<1>3. L[k] = Code
  BY <1>2 DEF InCodeAt, LexStateSet, Code, At, Modes
<1>4. t[k] \notin {BlockOpen, LineMarker, Open, Quote}
  BY SymbolsAre
<1>5. Lex(Code, t[k], IsabelleComments) = Code
  BY <1>4, InCode
<1>6. L[k + 1] = Code
  BY <1>2, <1>3, <1>5
<1>7. ~InComment(L, k)
  BY <1>3, <1>6 DEF InComment, Code, At
<1> QED
  BY <1>7, BlankedIs

LEMMA HeaderEndsAre ==
    ASSUME NEW t, NEW L, NEW b, NEW s, NEW last, IsaLine(t, L, b, s, last), NEW k \in s..last
    PROVE  k \in HeaderEnds(t) <=> k >= 2 /\ (Proves(L, b, last, k) \/ Begins(L, b, s, last, k))
<1>1. t \in Seq(Symbols) /\ L = LexStates(t, IsabelleComments) /\ b = BlankedText(t)
      /\ s \in 1..Len(t)
  BY DEF IsaLine
<1>2. /\ Len(t) \in Nat /\ s \in Nat /\ last \in Nat /\ last <= Len(t)
  BY IsaLineIs
<1>3. k \in 1..Len(t) /\ k <= last
  BY <1>1, <1>2
<1>4. Blanked(t, Comment(t, IsabelleComments)) = b
  BY <1>1, StripsComments DEF BlankedText
<1>5. (CHOOSE l \in Lines(t) : l[1] <= k /\ k <= l[2]) = <<s, last>>
  <2>1. Lines(t) = Lines(b)
    BY <1>1, SameLines
  <2>2. (CHOOSE l \in Lines(b) : l[1] <= k /\ k <= l[2]) = <<s, last>>
    BY LineOfIs
  <2> QED
    BY <2>1, <2>2, Zenon
<1>6. k \in HeaderEnds(t) <=>
        /\ k \in 2..Len(t)
        /\ InCodeAt(L, k)
        /\ \/ t[k] = Proof
           \/ IsTerminalProof(b, k, last)
           \/ /\ t[k] \in {Declaration, Command}
              /\ FirstToken(b, s, last) = k
              /\ t[k] = Command => k = s
  <2> DEFINE lineOf(j) == CHOOSE l \in Lines(t) : l[1] <= j /\ j <= l[2]
             blanked == Blanked(t, Comment(t, IsabelleComments))
             In(j, l) == \/ t[j] = Proof
                         \/ IsTerminalProof(blanked, j, l[2])
                         \/ /\ t[j] \in {Declaration, Command}
                            /\ FirstToken(blanked, l[1], l[2]) = j
                            /\ t[j] = Command => j = l[1]
  <2>1. k \in HeaderEnds(t) <=> k \in 2..Len(t) /\ InCodeAt(LexStates(t, IsabelleComments), k) /\ In(k, lineOf(k))
    BY DEF HeaderEnds, InCodeAt
  <2>2. lineOf(k) = <<s, last>>
    BY <1>5
  <2>3. PICK l : l = <<s, last>>
    OBVIOUS
  <2>4. l[1] = s /\ l[2] = last /\ lineOf(k) = l
    <3> HIDE DEF lineOf
    <3> QED BY <2>2, <2>3
  <2>5. In(k, l) <=> \/ t[k] = Proof
                     \/ IsTerminalProof(b, k, last)
                     \/ /\ t[k] \in {Declaration, Command}
                        /\ FirstToken(b, s, last) = k
                        /\ t[k] = Command => k = s
    <3> HIDE DEF lineOf, blanked
    <3>1. blanked = b
      BY <1>4 DEF blanked
    <3> QED BY <2>4, <3>1, Zenon
  <2> HIDE DEF lineOf, In
  <2> QED BY <1>1, <2>1, <2>4, <2>5
<1>7. ASSUME InCodeAt(L, k)
      PROVE  /\ t[k] = Proof <=> b[k] = Proof
             /\ t[k] = Declaration <=> b[k] = Declaration
             /\ t[k] = Command <=> b[k] = Command
  <2>1. t[k] \in {Proof, Declaration, Command, Dot} => b[k] = t[k]
    BY <1>1, <1>3, <1>7, CodeShows
  <2>2. b[k] \in {Proof, Declaration, Command, Dot} => b[k] = t[k]
    <3>1. b[k] \in {Proof, Declaration, Command, Dot} => b[k] \notin {Blank, NewLine}
      BY SymbolsAre
    <3> QED
      BY <1>1, <1>3, <3>1, ShownIsCode
  <2> QED
    BY <2>1, <2>2
<1>8. k \in 2..Len(t) <=> k >= 2
  BY <1>3
<1>9. Declaration # Command
  BY SymbolsAre
<1> QED
  BY <1>6, <1>7, <1>8, <1>9, Zenon DEF Proves, Begins

\* The symbol that ends a header shows.
LEMMA EndsShow ==
    ASSUME NEW t, NEW L, NEW b, NEW s, NEW last, IsaLine(t, L, b, s, last), NEW k \in s..last,
           Proves(L, b, last, k) \/ Begins(L, b, s, last, k)
    PROVE  b[k] \notin {Blank, NewLine}
<1>1. b[k] \in {Proof, Dot, Declaration, Command}
  BY DEF Proves, Begins, IsTerminalProof
<1> QED
  BY <1>1, SymbolsAre

\* What is read of the lines before s.
Carries(L, s, read) ==
    /\ read \in HeaderStates /\ read.state = ScanOf(L[s])
    /\ (read.declared <=> s > 1) /\ read.indent = 0

LEMMA NothingIsOpen ==
    ASSUME NEW t, NEW L, NEW b, NEW s, NEW last, IsaLine(t, L, b, s, last), NEW k \in s..last
    PROVE  /\ InCodeAt(L, k) => ~ScanOf(L[k]).quote /\ ScanOf(L[k]).depth = 0
           /\ ~ScanOf(L[k]).quote /\ ScanOf(L[k]).depth = 0 /\ b[k] \notin {Blank, NewLine}
              => InCodeAt(L, k)
           /\ k \in 1..Len(t) /\ L[k] \in LexStateSet
<1>1. t \in Seq(Symbols) /\ L = LexStates(t, IsabelleComments) /\ b = BlankedText(t)
      /\ s \in 1..Len(t)
  BY DEF IsaLine
<1>2. Len(t) \in Nat /\ last \in Nat /\ last <= Len(t) /\ \A i \in 1..(Len(t) + 1) : L[i] \in LexStateSet
  BY IsaLineIs
<1>3. k \in 1..Len(t) /\ k \in 1..(Len(t) + 1)
  BY <1>1, <1>2
<1>4. L[k] \in LexStateSet
  BY <1>2, <1>3
<1>5. ~ScanOf(L[k]).quote /\ ScanOf(L[k]).depth = 0 <=> L[k].mode \in Plain
  BY <1>4, ScanTells
<1>6. InCodeAt(L, k) => L[k].mode \in Plain
  BY DEF InCodeAt, Plain
<1>7. b[k] \notin {Blank, NewLine} => (L[k].mode \in Plain => InCodeAt(L, k))
  BY <1>1, <1>3, ShownIsCode DEF InCodeAt
<1> QED
  BY <1>3, <1>4, <1>5, <1>6, <1>7

\* A line is cut where code opens or completes a proof, and at the first place.
LEMMA CutsAtProof ==
    ASSUME NEW t, NEW L, NEW b, NEW s, NEW last, IsaLine(t, L, b, s, last),
           NEW c, c = TruncateUnquotedStopToken(b, s, last, ScanOf(L[s]))
    PROVE  /\ c \in Nat /\ s <= c
           /\ c <= last => Proves(L, b, last, c)
           /\ \A k \in s..last : Proves(L, b, last, k) => c <= k
<1>1. t \in Seq(Symbols) /\ L = LexStates(t, IsabelleComments) /\ b = BlankedText(t)
      /\ s \in 1..Len(t)
  BY DEF IsaLine
<1>2. /\ Len(t) \in Nat /\ s \in Nat /\ last \in Nat /\ last \in Int /\ last <= Len(t)
      /\ NoEscape(L, s)
  <2>1. Len(t) \in Nat /\ s \in Nat /\ last \in Nat /\ last <= Len(t)
    BY IsaLineIs
  <2>2. NoEscape(L, s)
    BY IsaLineIs
  <2> QED
    BY <2>1, <2>2
<1> DEFINE S == CutPlaces(b, s, last, ScanOf(L[s]))
<1>3. IsFirstOf(c, s, S)
  BY <1>2, CutIs
<1>4. ASSUME NEW k \in s..last
      PROVE  StopsAt(b, s, last, ScanOf(L[s]), k) <=> Proves(L, b, last, k)
  <2>1. k - 1 \in Nat /\ k - 1 <= Len(t) /\ s \in 1..((k - 1) + 1) /\ (k - 1) + 1 = k
    <3>1. s >= 1 /\ k \in Int /\ s <= k /\ k <= last
      BY <1>1, <1>2
    <3>2. k >= 1
      BY <1>2, <3>1
    <3>3. (k - 1) + 1 = k /\ k - 1 \in Nat
      <4> HIDE DEF S
      <4> QED BY <3>1, <3>2
    <3>5. k - 1 <= Len(t)
      BY <1>2, <3>1
    <3>4. s \in 1..k
      BY <1>2, <3>1
    <3> QED
      BY <3>3, <3>4, <3>5
  <2>2. ScanLine(b, s, k - 1, ScanOf(L[s])) = ScanOf(L[(k - 1) + 1])
    BY <1>1, <1>2, <2>1, ScanReads DEF NoEscape
  <2>3. ScanLine(b, s, k - 1, ScanOf(L[s])) = ScanOf(L[k])
    BY <2>1, <2>2
  <2>4. StopsAt(b, s, last, ScanOf(L[s]), k) <=>
          /\ ~ScanOf(L[k]).quote /\ ScanOf(L[k]).depth = 0
          /\ b[k] = Proof \/ IsTerminalProof(b, k, last)
    BY <2>3, Zenon DEF StopsAt
  <2>5. b[k] = Proof \/ IsTerminalProof(b, k, last) => b[k] \notin {Blank, NewLine}
    BY SymbolsAre DEF IsTerminalProof
  <2>6. /\ InCodeAt(L, k) => ~ScanOf(L[k]).quote /\ ScanOf(L[k]).depth = 0
        /\ ~ScanOf(L[k]).quote /\ ScanOf(L[k]).depth = 0 /\ b[k] \notin {Blank, NewLine}
           => InCodeAt(L, k)
    BY NothingIsOpen
  <2> QED
    BY <2>4, <2>5, <2>6, Zenon DEF Proves
<1>5. c \in Nat /\ s <= c /\ c \in S /\ \A k \in s..(c - 1) : k \notin S
  BY <1>3 DEF IsFirstOf
<1>6. c <= last => Proves(L, b, last, c)
  <2>1. c \in S /\ c <= last => StopsAt(b, s, last, ScanOf(L[s]), c)
    BY <1>2, <1>5 DEF CutPlaces
  <2>2. c <= last => c \in s..last
    BY <1>2, <1>5
  <2> HIDE DEF S
  <2> QED BY <1>4, <1>5, <2>1, <2>2
<1>7. ASSUME NEW k \in s..last, Proves(L, b, last, k) PROVE c <= k
  <2>1. k \in Nat
    BY <1>2
  <2>2. k \in S
    BY <1>4, <1>7, <2>1 DEF CutPlaces
  <2>3. k < c => k \in s..(c - 1)
    BY <1>5, <2>1
  <2> HIDE DEF S
  <2> QED BY <1>5, <2>1, <2>2, <2>3
<1> QED
  BY <1>5, <1>6, <1>7

\* Where a line begins: what is before it on the line is blank, and what is open
\* there is what was open where the line starts.
LEMMA FirstTokenOfLine ==
    ASSUME NEW t, NEW L, NEW b, NEW s, NEW last, IsaLine(t, L, b, s, last),
           NEW p, p = FirstToken(b, s, last)
    PROVE  /\ p \in Nat /\ s <= p /\ p <= last + 1
           /\ \A k \in s..(p - 1) : b[k] = Blank
           /\ p <= last => b[p] # Blank
           /\ \A k \in s..p : ScanOf(L[k]) = ScanOf(L[s])
<1>1. s \in Nat /\ last \in Nat /\ last \in Int /\ s <= last + 1
  <2>1. s \in Nat /\ last \in Nat
    BY IsaLineIs
  <2>2. s <= last + 1
    BY IsaLineIs
  <2> QED
    BY <2>1, <2>2
<1>2. IsFirstOf(p, s, NoBlank(b, last))
  BY <1>1, FirstTokenIs
<1>3. p \in Nat /\ s <= p /\ p \in NoBlank(b, last) /\ \A k \in s..(p - 1) : k \notin NoBlank(b, last)
  BY <1>2 DEF IsFirstOf
<1>4. p <= last + 1
  <2>1. ASSUME last + 1 < p PROVE FALSE
    <3>1. last + 1 \in s..(p - 1)
      BY <1>1, <1>3, <2>1
    <3>2. last + 1 \in NoBlank(b, last)
      BY <1>1 DEF NoBlank
    <3> QED
      BY <1>3, <3>1, <3>2
  <2> QED
    BY <1>1, <1>3, <2>1
<1>5. \A k \in s..(p - 1) : b[k] = Blank
  <2> SUFFICES ASSUME NEW k \in s..(p - 1) PROVE b[k] = Blank
    OBVIOUS
  <2>1. k \in Nat /\ k \notin NoBlank(b, last)
    BY <1>1, <1>3
  <2> QED
    BY <2>1 DEF NoBlank
<1>6. p <= last => b[p] # Blank
  BY <1>1, <1>3 DEF NoBlank
<1>7. p \in s..(last + 1)
  BY <1>1, <1>3, <1>4
<1>8. \A k \in s..p : ScanOf(L[k]) = ScanOf(L[s])
  BY <1>5, <1>7, BlanksKeep
<1> QED
  BY <1>3, <1>4, <1>5, <1>6, <1>8

LEMMA EndsBeforeIs ==
    ASSUME NEW b, NEW s, NEW last, NEW state, NEW p, p = FirstToken(b, s, last)
    PROVE  EndsBefore(b, s, last, state, 0) <=>
             /\ p <= last
             /\ \/ ~state.quote /\ b[p] = Declaration
                \/ ~state.quote /\ state.depth = 0 /\ p - s <= 0 /\ b[p] = Command
                \/ b[p] = Proof
<1>1. \A x : StartsWith(b, s, last, x) <=> p <= last /\ b[p] = x
  BY DEF StartsWith
<1>2. Indent(b, s, last) = p - s
  BY DEF Indent
<1> QED
  BY <1>1, <1>2, Zenon DEF EndsBefore

\* A line that begins with another declaration or command ends the header.
LEMMA BeginsEnds ==
    ASSUME NEW t, NEW L, NEW b, NEW s, NEW last, IsaLine(t, L, b, s, last),
           NEW read, Carries(L, s, read), NEW k \in s..last, Begins(L, b, s, last, k)
    PROVE  EndsBefore(b, s, last, read.state, read.indent)
<1>1. read.state = ScanOf(L[s]) /\ read.indent = 0
  BY DEF Carries
<1>2. k = FirstToken(b, s, last) /\ InCodeAt(L, k) /\ (b[k] = Declaration \/ (b[k] = Command /\ k = s))
  BY DEF Begins
<1>3. s \in Nat /\ last \in Nat
  BY IsaLineIs
<1>4. ScanOf(L[k]) = ScanOf(L[s])
  <2>1. k \in s..k
    BY <1>3
  <2>2. \A i \in s..k : ScanOf(L[i]) = ScanOf(L[s])
    BY <1>2, FirstTokenOfLine
  <2> QED
    BY <2>1, <2>2
<1>5. ~ScanOf(L[k]).quote /\ ScanOf(L[k]).depth = 0
  BY <1>2, NothingIsOpen
<1>6. ~read.state.quote /\ read.state.depth = 0
  BY <1>1, <1>4, <1>5
<1>7. k <= last /\ (k = s => k - s <= 0)
  BY <1>3
<1>8. EndsBefore(b, s, last, read.state, 0) <=>
             /\ k <= last
             /\ \/ ~read.state.quote /\ b[k] = Declaration
                \/ ~read.state.quote /\ read.state.depth = 0 /\ k - s <= 0 /\ b[k] = Command
                \/ b[k] = Proof
  BY <1>2, EndsBeforeIs
<1>9. EndsBefore(b, s, last, read.state, 0)
  BY <1>2, <1>6, <1>7, <1>8, Zenon
<1> QED
  BY <1>1, <1>9

\* The positions from s on that show and come before every end of the header.
Unended(t, b, s) ==
    {k \in 1..Len(b) : /\ s <= k /\ b[k] \notin {Blank, NewLine}
                       /\ \A e \in HeaderEnds(t) : s <= e => k < e}

\* The text is that of a declaration.
Declares(b) == Len(b) > 0 /\ b[1] = Declaration

\* What is captured of a line and of what follows is before every end.
LEMMA LineCaptured ==
    ASSUME NEW t, NEW L, NEW b, NEW s, NEW last, IsaLine(t, L, b, s, last), Declares(b),
           NEW read, Carries(L, s, read), NEW v \in SUBSET Unended(t, b, last + 2)
    PROVE  HeaderFrom(b, s, read, v) \subseteq Unended(t, b, s)
<1>1. /\ Len(t) \in Nat /\ s \in Nat /\ last \in Nat /\ last <= Len(t) /\ Len(b) = Len(t)
  BY IsaLineIs
<1>1a. /\ s <= last + 1
       /\ \A k \in s..last : b[k] # NewLine
       /\ last + 1 <= Len(t) => b[last + 1] = NewLine
  <2>1. s <= last + 1
    BY IsaLineIs
  <2>2. \A k \in s..last : b[k] # NewLine
    <3>1. OneLine(b, s, last)
      BY IsaLineIs
    <3> QED
      BY <3>1 DEF OneLine
  <2>3. last + 1 <= Len(t) => b[last + 1] = NewLine
    BY IsaLineIs
  <2> QED
    BY <2>1, <2>2, <2>3
<1>2. LastOf(b, s) = last
  BY DEF IsaLine, LastOf
<1>3. s \in 1..Len(t)
  BY DEF IsaLine
<1> DEFINE H == HeaderEnds(t)
<1>4. ASSUME NEW e \in H PROVE e \in 2..Len(t)
  BY <1>4 DEF HeaderEnds
<1>5. last + 1 \notin H
  <2> SUFFICES ASSUME last + 1 \in H PROVE FALSE
    OBVIOUS
  <2>1. b[last + 1] = NewLine /\ last + 1 \in 1..Len(t)
    <3>1. last + 1 \in 2..Len(t)
      <4> HIDE DEF H
      <4> QED BY <1>4
    <3>2. last + 1 <= Len(t) /\ last + 1 \in 1..Len(t)
      <4> HIDE DEF H
      <4> QED BY <1>1, <3>1
    <3> QED
      BY <1>1a, <3>2
  <2>2. t[last + 1] = NewLine
    BY <2>1, NewLinesStay DEF IsaLine
  <2>3. t[last + 1] \in {Proof, Declaration, Command} \/ b[last + 1] = Dot
    <3>1. t \in Seq(Symbols) /\ b = BlankedText(t)
      BY DEF IsaLine
    <3>2. Blanked(t, Comment(t, IsabelleComments)) = b
      BY <3>1, StripsComments DEF BlankedText
    <3> QED
      BY <3>2 DEF HeaderEnds, IsTerminalProof
  <2> QED
    BY <2>1, <2>2, <2>3, SymbolsAre
<1>6. ASSUME \A e \in H : e \notin s..last
      PROVE  v \subseteq Unended(t, b, s)
  <2> SUFFICES ASSUME NEW k \in v PROVE k \in Unended(t, b, s)
    OBVIOUS
  <2>1. k \in Unended(t, b, last + 2)
    OBVIOUS
  <2>2. k \in 1..Len(b) /\ last + 2 <= k /\ b[k] \notin {Blank, NewLine}
        /\ \A e \in H : last + 2 <= e => k < e
    BY <2>1 DEF Unended
  <2>3. s <= k
    BY <1>1, <1>1a, <2>2
  <2>4. ASSUME NEW e \in H, s <= e PROVE k < e
    <3>1. e \in 2..Len(t) /\ e # last + 1 /\ e \notin s..last
      <4> HIDE DEF H
      <4> QED BY <1>4, <1>5, <1>6
    <3>2. last + 2 <= e
      BY <1>1, <2>4, <3>1
    <3> QED
      BY <2>2, <3>2
  <2> QED
    BY <2>2, <2>3, <2>4 DEF Unended
<1>7. CASE IsBlankLine(b, s, last)
  <2>1. HeaderFrom(b, s, read, v) \subseteq v
    BY <1>2, <1>7 DEF HeaderFrom
  <2>2. ASSUME NEW e \in H PROVE e \notin s..last
    <3> SUFFICES ASSUME e \in s..last PROVE FALSE
      OBVIOUS
    <3>1. Proves(L, b, last, e) \/ Begins(L, b, s, last, e)
      BY <2>2, HeaderEndsAre
    <3>2. b[e] \notin {Blank, NewLine}
      BY <3>1, EndsShow
    <3> QED
      BY <1>7, <3>2 DEF IsBlankLine, Whitespace
  <2> HIDE DEF H
  <2> QED
    BY <1>6, <2>1, <2>2
<1>8. CASE ~IsBlankLine(b, s, last) /\ ~(read.declared /\ EndsBefore(b, s, last, read.state, read.indent))
  <2>1. PICK c : c = CutOf(b, s, read)
    OBVIOUS
  <2>2. HeaderFrom(b, s, read, v) = {k \in s..(c - 1) : b[k] # Blank} \cup (IF c <= last THEN {} ELSE v)
    BY <1>2, <1>8, <2>1, Zenon DEF HeaderFrom, Shows
  <2>3. c = TruncateUnquotedStopToken(b, s, last, ScanOf(L[s]))
    BY <1>2, <2>1 DEF CutOf, Carries
  <2>4. c \in Nat /\ s <= c /\ \A k \in s..last : Proves(L, b, last, k) => c <= k
    BY <2>3, CutsAtProof
  <2>5. ASSUME NEW e \in H, e \in s..last PROVE c <= e
    <3>1. e >= 2 /\ (Proves(L, b, last, e) \/ Begins(L, b, s, last, e))
      BY <2>5, HeaderEndsAre
    <3>2. CASE Proves(L, b, last, e)
      BY <2>4, <2>5, <3>2
    <3>3. CASE Begins(L, b, s, last, e)
      <4>1. EndsBefore(b, s, last, read.state, read.indent)
        BY <2>5, <3>3, BeginsEnds
      <4>2. ~read.declared
        BY <1>8, <4>1
      <4>3. s = 1
        BY <1>1, <1>3, <4>2 DEF Carries
      <4>4. FirstToken(b, s, last) = e
        BY <3>3 DEF Begins
      <4>5. \A k \in s..(e - 1) : b[k] = Blank
        BY <4>4, FirstTokenOfLine
      <4>6. 1 \in s..(e - 1)
        BY <1>1, <2>5, <3>1, <4>3
      <4> QED
        BY <4>5, <4>6, SymbolsAre DEF Declares
    <3> QED
      BY <3>1, <3>2, <3>3
  <2>6. ASSUME NEW k \in s..(c - 1), b[k] # Blank, k <= last PROVE k \in Unended(t, b, s)
    <3>1. k \in 1..Len(b) /\ s <= k /\ k \in s..last /\ k < c
      BY <1>1, <1>3, <2>4, <2>6
    <3>2. b[k] \notin {Blank, NewLine}
      BY <1>1a, <2>6, <3>1
    <3>3. ASSUME NEW e \in H, s <= e PROVE k < e
      <4>1. e \in 2..Len(t)
        <5> HIDE DEF H
        <5> QED BY <1>4
      <4>2. CASE e \in s..last
        <5>1. c <= e
          <6> HIDE DEF H
          <6> QED BY <2>5, <4>2
        <5> QED
          BY <2>4, <3>1, <4>1, <5>1
      <4>3. CASE e \notin s..last
        BY <1>1, <2>6, <3>1, <3>3, <4>1, <4>3
      <4> QED
        BY <4>2, <4>3
    <3> QED
      BY <3>1, <3>2, <3>3 DEF Unended
  <2>7. c <= last + 1
    <3>1. ASSUME last + 1 < c PROVE FALSE
      <4>1. IsFirstOf(c, s, CutPlaces(b, s, last, ScanOf(L[s])))
        <5>1. last \in Int
          BY <1>1
        <5> QED
          BY <1>1, <2>3, <5>1, CutIs
      <4>2. last + 1 \in s..(c - 1)
        BY <1>1, <1>1a, <2>4, <3>1
      <4>3. last + 1 \in CutPlaces(b, s, last, ScanOf(L[s]))
        BY <1>1 DEF CutPlaces
      <4> QED
        BY <4>1, <4>2, <4>3 DEF IsFirstOf
    <3> QED
      BY <1>1, <2>4, <3>1
  <2>8. {k \in s..(c - 1) : b[k] # Blank} \subseteq Unended(t, b, s)
    <3>1. \A k \in s..(c - 1) : k <= last
      BY <1>1, <2>4, <2>7
    <3> QED
      BY <2>6, <3>1
  <2>9. c > last => v \subseteq Unended(t, b, s)
    <3>1. ASSUME c > last, NEW e \in H PROVE e \notin s..last
      <4>1. e \in s..last => c <= e
        <5> HIDE DEF H
        <5> QED BY <2>5
      <4> QED
        BY <1>1, <2>4, <3>1, <4>1
    <3> HIDE DEF H
    <3> QED BY <1>6, <3>1
  <2>10. c <= last \/ c > last
    BY <1>1, <2>4
  <2> QED
    BY <2>2, <2>8, <2>9, <2>10
<1>9. CASE ~IsBlankLine(b, s, last) /\ read.declared /\ EndsBefore(b, s, last, read.state, read.indent)
  <2>1. HeaderFrom(b, s, read, v) = {}
    BY <1>2, <1>9 DEF HeaderFrom
  <2> QED
    BY <2>1
<1> QED
  BY <1>7, <1>8, <1>9

\* Inside a string or a cartouche the blanks that begin a line were typed.
LEMMA OpenBlanks ==
    ASSUME NEW t, NEW L, NEW b, NEW s, NEW last, IsaLine(t, L, b, s, last),
           NEW p, p = FirstToken(b, s, last), p <= last,
           ~(~ScanOf(L[s]).quote /\ ScanOf(L[s]).depth = 0)
    PROVE  FirstToken(t, s, last) = p
<1>1. t \in Seq(Symbols) /\ L = LexStates(t, IsabelleComments) /\ b = BlankedText(t)
      /\ s \in 1..Len(t)
  BY DEF IsaLine
<1>2. /\ Len(t) \in Nat /\ s \in Nat /\ last \in Nat /\ last <= Len(t)
      /\ \A i \in 1..(Len(t) + 1) : L[i] \in LexStateSet
  BY IsaLineIs
<1>2a. last \in Int
  BY <1>2
<1>3. /\ p \in Nat /\ s <= p
      /\ \A k \in s..(p - 1) : b[k] = Blank
      /\ b[p] # Blank
      /\ \A k \in s..p : ScanOf(L[k]) = ScanOf(L[s])
  BY FirstTokenOfLine
<1>4. ASSUME NEW k \in s..p PROVE L[k].mode \notin Plain
  <2>1. k \in 1..(Len(t) + 1)
    BY <1>1, <1>2, <1>3
  <2>2. L[k] \in LexStateSet
    BY <1>2, <2>1
  <2>3. ScanOf(L[k]) = ScanOf(L[s])
    BY <1>3
  <2>4. ~ScanOf(L[k]).quote /\ ScanOf(L[k]).depth = 0 <=> L[k].mode \in Plain
    BY <2>2, ScanTells
  <2> QED
    BY <2>3, <2>4
<1>5. ASSUME NEW k \in s..(p - 1) PROVE t[k] = Blank
  <2>1. k \in s..p /\ k + 1 \in s..p /\ k \in 1..Len(t)
    BY <1>1, <1>2, <1>3
  <2>2. ~InComment(L, k)
    BY <1>4, <2>1 DEF InComment, Plain
  <2>3. b[k] = IF t[k] # NewLine /\ InComment(L, k) THEN Blank ELSE t[k]
    BY <1>1, <2>1, BlankedIs
  <2> QED
    BY <1>3, <2>2, <2>3
<1>6. t[p] # Blank
  <2>1. p \in 1..Len(t)
    BY <1>1, <1>2, <1>3
  <2>2. b[p] = IF t[p] # NewLine /\ InComment(L, p) THEN Blank ELSE t[p]
    BY <1>1, <2>1, BlankedIs
  <2> QED
    BY <1>3, <2>2
<1>7. IsFirstOf(p, s, NoBlank(t, last))
  <2>1. p \in NoBlank(t, last)
    BY <1>3, <1>6 DEF NoBlank
  <2>2. \A k \in s..(p - 1) : k \notin NoBlank(t, last)
    <3>1. \A k \in s..(p - 1) : k <= last
      BY <1>2, <1>3
    <3> QED
      BY <1>2, <1>5, <3>1 DEF NoBlank
  <2> QED
    BY <1>3, <2>1, <2>2 DEF IsFirstOf
<1>8. IsFirstOf(FirstToken(t, s, last), s, NoBlank(t, last))
  BY <1>2, <1>2a, FirstTokenIs
<1> QED
  BY <1>2, <1>7, <1>8, FirstOfOne

\* What ends the header before a line does so in code, unless the line begins
\* inside a string or a cartouche.
LEMMA EndsInCode ==
    ASSUME NEW t, NEW L, NEW b, NEW s, NEW last, IsaLine(t, L, b, s, last), ~ReadsAsEnd(t),
           NEW read, Carries(L, s, read), s > 1,
           EndsBefore(b, s, last, read.state, read.indent),
           NEW p, p = FirstToken(b, s, last)
    PROVE  p \in s..last /\ p \in HeaderEnds(t)
<1>1. t \in Seq(Symbols) /\ L = LexStates(t, IsabelleComments) /\ b = BlankedText(t)
      /\ s \in 1..Len(t)
  BY DEF IsaLine
<1>2. /\ Len(t) \in Nat /\ s \in Nat /\ last \in Nat /\ last <= Len(t)
      /\ \A i \in 1..(Len(t) + 1) : L[i] \in LexStateSet
  BY IsaLineIs
<1>3. read.state = ScanOf(L[s]) /\ read.indent = 0
  BY DEF Carries
<1> DEFINE quote == ScanOf(L[s]).quote
           depth == ScanOf(L[s]).depth
<1>4. /\ p <= last
      /\ \/ ~quote /\ b[p] = Declaration
         \/ ~quote /\ depth = 0 /\ p - s <= 0 /\ b[p] = Command
         \/ b[p] = Proof
  <2>1. EndsBefore(b, s, last, read.state, 0)
    BY <1>3
  <2>2. EndsBefore(b, s, last, read.state, 0) <=>
             /\ p <= last
             /\ \/ ~read.state.quote /\ b[p] = Declaration
                \/ ~read.state.quote /\ read.state.depth = 0 /\ p - s <= 0 /\ b[p] = Command
                \/ b[p] = Proof
    BY EndsBeforeIs
  <2> QED
    BY <1>3, <2>1, <2>2
<1>5. p \in Nat /\ s <= p /\ \A k \in s..p : ScanOf(L[k]) = ScanOf(L[s])
  BY FirstTokenOfLine
<1>6. p \in s..last /\ p >= 2 /\ p \in s..p
  BY <1>2, <1>4, <1>5
<1>7. CASE ~quote /\ depth = 0
  <2>1. ScanOf(L[p]) = ScanOf(L[s])
    BY <1>5, <1>6
  <2>2. b[p] \notin {Blank, NewLine}
    BY <1>4, SymbolsAre
  <2>3. InCodeAt(L, p)
    <3>1. ~ScanOf(L[p]).quote /\ ScanOf(L[p]).depth = 0
      BY <1>7, <2>1
    <3> QED
      BY <1>6, <2>2, <3>1, NothingIsOpen
  <2>4. p - s <= 0 => p = s
    BY <1>2, <1>5
  <2>5. Proves(L, b, last, p) \/ Begins(L, b, s, last, p)
    BY <1>4, <2>3, <2>4 DEF Proves, Begins
  <2> QED
    BY <1>6, <2>5, HeaderEndsAre
<1>8. CASE ~(~quote /\ depth = 0)
  <2>1. FirstToken(t, s, last) = p
    BY <1>4, <1>8, OpenBlanks
  <2>2. b[p] = Declaration \/ b[p] = Proof
    BY <1>4, <1>8
  <2>3. t[p] = b[p]
    <3>1. p \in 1..Len(t) /\ b[p] \notin {Blank, NewLine}
      BY <1>1, <1>2, <1>6, <2>2, SymbolsAre
    <3> QED
      BY <1>1, <3>1, ShownIsCode
  <2>4. \A x : t[p] = x => StartsWith(t, s, last, x)
    BY <1>4, <2>1 DEF StartsWith
  <2>5. L[s] \in LexStateSet
    <3>1. s \in 1..(Len(t) + 1)
      BY <1>1, <1>2
    <3> QED
      BY <1>2, <3>1
  <2>6. (quote <=> L[s].mode \in InLiteral) /\ (depth > 0 <=> L[s].mode = "verbatim")
        /\ ScanOf(L[s]) \in ScanStates
    BY <2>5, ScanTells
  <2>7. depth \in Nat /\ (depth # 0 => depth > 0)
    <3>1. depth \in Nat
      BY <2>6 DEF ScanStates
    <3> QED
      BY <3>1
  <2>8. L[s].mode \in {"string", "escaped", "verbatim"}
    BY <1>8, <2>6, <2>7 DEF InLiteral
  <2>9. b[p] = Proof \/ (b[p] = Declaration /\ ~quote)
    BY <1>4, <2>2, SymbolsAre
  <2>10. ~quote => L[s].mode = "verbatim"
    BY <1>8, <2>6, <2>7
  <2>11. \/ StartsWith(t, s, last, Proof)
         \/ L[s].mode = "verbatim" /\ StartsWith(t, s, last, Declaration)
    BY <2>3, <2>4, <2>9, <2>10
  <2>12. <<s, last>> \in Lines(t)
    <3>1. <<s, last>> \in Lines(b)
      BY IsaLineIs
    <3> QED
      BY <1>1, <3>1, SameLines
  <2>13. PICK l : l = <<s, last>>
    OBVIOUS
  <2>14. l \in Lines(t) /\ l[1] = s /\ l[2] = last
    BY <2>12, <2>13
  <2>15. ReadsAsEnd(t)
    <3>1. /\ LexStates(t, IsabelleComments)[l[1]].mode \in {"string", "escaped", "verbatim"}
          /\ \/ StartsWith(t, l[1], l[2], Proof)
             \/ /\ LexStates(t, IsabelleComments)[l[1]].mode = "verbatim"
                /\ StartsWith(t, l[1], l[2], Declaration)
      BY <1>1, <2>8, <2>11, <2>14
    <3> QED
      BY <2>14, <3>1 DEF ReadsAsEnd
  <2> QED
    BY <2>15
<1> QED
  BY <1>7, <1>8

\* Of a line and of what follows, all that is before every end is captured.
LEMMA LineKept ==
    ASSUME NEW t, NEW L, NEW b, NEW s, NEW last, IsaLine(t, L, b, s, last), Declares(b),
           ~ReadsAsEnd(t), ~IsBlankLine(b, s, last),
           NEW read, Carries(L, s, read), NEW v, Unended(t, b, last + 2) \subseteq v
    PROVE  Unended(t, b, s) \subseteq HeaderFrom(b, s, read, v)
<1>1. /\ Len(t) \in Nat /\ s \in Nat /\ last \in Nat /\ last <= Len(t) /\ Len(b) = Len(t)
  BY IsaLineIs
<1>1a. last + 1 <= Len(t) => b[last + 1] = NewLine
  BY IsaLineIs
<1>2. LastOf(b, s) = last
  BY DEF IsaLine, LastOf
<1>3. s \in 1..Len(t) /\ s >= 1
  BY DEF IsaLine
<1> SUFFICES ASSUME NEW k \in Unended(t, b, s) PROVE k \in HeaderFrom(b, s, read, v)
  OBVIOUS
<1>4. k \in 1..Len(b) /\ s <= k /\ b[k] \notin {Blank, NewLine}
      /\ \A e \in HeaderEnds(t) : s <= e => k < e
  BY DEF Unended
<1>5. ASSUME read.declared, EndsBefore(b, s, last, read.state, read.indent) PROVE FALSE
  <2>1. PICK p : p = FirstToken(b, s, last)
    OBVIOUS
  <2>2. s > 1
    BY <1>5 DEF Carries
  <2>3. p \in s..last /\ p \in HeaderEnds(t)
    BY <1>5, <2>1, <2>2, EndsInCode
  <2>4. \A i \in s..(p - 1) : b[i] = Blank
    BY <2>1, FirstTokenOfLine
  <2>5. k < p
    BY <1>1, <1>4, <2>3
  <2>6. k \in s..(p - 1)
    BY <1>1, <1>4, <2>3, <2>5
  <2> QED
    BY <1>4, <2>4, <2>6
<1>6. PICK c : c = CutOf(b, s, read)
  OBVIOUS
<1>7. HeaderFrom(b, s, read, v) = {i \in s..(c - 1) : b[i] # Blank} \cup (IF c <= last THEN {} ELSE v)
  BY <1>2, <1>5, <1>6, Zenon DEF HeaderFrom, Shows
<1>8. c = TruncateUnquotedStopToken(b, s, last, ScanOf(L[s]))
  BY <1>2, <1>6 DEF CutOf, Carries
<1>9. c \in Nat /\ s <= c /\ (c <= last => Proves(L, b, last, c))
  BY <1>8, CutsAtProof
<1>10. c <= last => c \in HeaderEnds(t)
  <2> SUFFICES ASSUME c <= last PROVE c \in HeaderEnds(t)
    OBVIOUS
  <2>1. c \in s..last /\ Proves(L, b, last, c)
    BY <1>1, <1>9
  <2>2. b[c] \in {Proof, Dot}
    BY <2>1 DEF Proves, IsTerminalProof
  <2>3. c # 1
    BY <2>2, SymbolsAre DEF Declares
  <2>4. c >= 2
    BY <1>1, <1>3, <1>9, <2>3
  <2> QED
    BY <2>1, <2>4, HeaderEndsAre
<1>11. c <= last => k < c
  BY <1>4, <1>9, <1>10
<1>12. k # last + 1
  BY <1>1, <1>1a, <1>4
<1>13. CASE k < c
  <2>1. k \in s..(c - 1) /\ b[k] # Blank
    BY <1>1, <1>4, <1>9, <1>13
  <2> QED
    BY <1>7, <2>1
<1>14. CASE ~(k < c)
  <2>1. c > last /\ last + 2 <= k
    BY <1>1, <1>4, <1>9, <1>11, <1>12, <1>14
  <2>2. \A e \in HeaderEnds(t) : last + 2 <= e => k < e
    <3> SUFFICES ASSUME NEW e \in HeaderEnds(t), last + 2 <= e PROVE k < e
      OBVIOUS
    <3>1. e \in 2..Len(t)
      BY DEF HeaderEnds
    <3>2. s <= last + 1
      BY IsaLineIs
    <3>3. s <= e
      BY <1>1, <3>1, <3>2
    <3> QED
      BY <1>4, <3>3
  <2>3. k \in Unended(t, b, last + 2)
    BY <1>4, <2>1, <2>2 DEF Unended
  <2>4. k \in v
    BY <2>3
  <2> QED
    BY <1>1, <1>7, <1>9, <2>1, <2>4
<1> QED
  BY <1>13, <1>14

-----------------------------------------------------------------------------
(* extract_isabelle_statement captures the statement.                      *)

\* What is read of a line is what the next one goes on from.
LEMMA CarriesOn ==
    ASSUME NEW t, NEW L, NEW b, NEW s, NEW last, IsaLine(t, L, b, s, last), Declares(b),
           NEW read, Carries(L, s, read), last + 2 <= Len(t)
    PROVE  /\ Carries(L, last + 2, HeaderNext(b, s, read))
           /\ IsaLine(t, L, b, last + 2, LineEnd(b, last + 2) - 1)
<1>1. t \in Seq(Symbols) /\ L = LexStates(t, IsabelleComments) /\ b = BlankedText(t)
      /\ s \in 1..Len(t)
  BY DEF IsaLine
<1>2. /\ Len(t) \in Nat /\ s \in Nat /\ last \in Nat /\ last <= Len(t) /\ Len(b) = Len(t)
  BY IsaLineIs
<1>2a. s <= last + 1 /\ b \in Seq(Symbols)
  BY IsaLineIs
<1>2b. last + 1 <= Len(t) => b[last + 1] = NewLine
  BY IsaLineIs
<1>2c. NoEscape(L, s) /\ \A i \in 1..(Len(t) + 1) : L[i] \in LexStateSet
  BY IsaLineIs
<1>3. LastOf(b, s) = last /\ last \in Int
  BY <1>2 DEF IsaLine, LastOf
<1>4. last + 1 \in 1..Len(t) /\ b[last + 1] = NewLine /\ (last + 1) + 1 = last + 2
  BY <1>2, <1>2b
<1>5. read \in HeaderStates /\ read.state = ScanOf(L[s]) /\ (read.declared <=> s > 1)
      /\ read.indent = 0
  BY DEF Carries
<1>6. ScanLine(b, s, last, ScanOf(L[s])) = ScanOf(L[last + 1])
  <2>1. s \in 1..(last + 1)
    BY <1>1, <1>2, <1>2a
  <2> QED
    BY <1>1, <1>2, <1>2c, <2>1, ScanReads DEF NoEscape
<1>7. ScanOf(L[last + 2]) = ScanOf(L[last + 1])
  <2>1. ScanOf(L[(last + 1) + 1]) = ScanOf(L[last + 1])
    BY <1>1, <1>4, NewLineKeeps
  <2> QED
    BY <1>4, <2>1
<1>8. IsaLine(t, L, b, last + 2, LineEnd(b, last + 2) - 1)
  <2>1. last + 2 \in 1..Len(t) /\ (last + 2) - 1 = last + 1
    BY <1>2
  <2>2. b[(last + 2) - 1] = NewLine
    BY <1>4, <2>1
  <2> QED
    BY <1>1, <2>1, <2>2 DEF IsaLine
<1>9. HeaderNext(b, s, read) \in HeaderStates
  BY <1>2, <1>5, HeaderNextTyped
<1>10. s = 1 => last >= 1 /\ FirstToken(b, s, last) = 1
  <2> SUFFICES ASSUME s = 1 PROVE last >= 1 /\ FirstToken(b, s, last) = 1
    OBVIOUS
  <2>1. b[1] = Declaration /\ Declaration # NewLine /\ Declaration # Blank
    BY SymbolsAre DEF Declares
  <2>2. last # 0
    BY <1>4, <2>1
  <2>3. PICK p : p = FirstToken(b, s, last)
    OBVIOUS
  <2>4. p \in Nat /\ s <= p /\ \A k \in s..(p - 1) : b[k] = Blank
    BY <2>3, FirstTokenOfLine
  <2>5. p # 1 => 1 \in s..(p - 1)
    BY <2>4
  <2> QED
    BY <1>2, <2>1, <2>2, <2>3, <2>4, <2>5
<1>11. last + 2 > 1
  BY <1>2
<1>12. CASE IsBlankLine(b, s, last)
  <2>1. HeaderNext(b, s, read) = read
    BY <1>3, <1>12 DEF HeaderNext
  <2>2. ScanOf(L[s]) \in ScanStates
    <3>1. s \in 1..(Len(t) + 1)
      BY <1>1, <1>2
    <3> QED
      BY <1>2c, <3>1, ScanTells
  <2>3. ScanLine(b, s, last, ScanOf(L[s])) = ScanOf(L[s])
    BY <1>2, <1>3, <1>12, <2>2, ScanBlank
  <2>4. s > 1
    <3>1. s = 1 => 1 \in s..last
      BY <1>2, <1>10
    <3>2. b[1] \notin {Blank, NewLine}
      BY SymbolsAre DEF Declares
    <3>3. s # 1
      BY <1>12, <3>1, <3>2 DEF IsBlankLine, Whitespace
    <3> QED
      BY <1>1, <3>3
  <2>5. read.state = ScanOf(L[last + 2])
    BY <1>5, <1>6, <1>7, <2>3
  <2> QED
    BY <1>5, <1>8, <1>11, <2>1, <2>4, <2>5 DEF Carries
<1>13. CASE ~IsBlankLine(b, s, last)
  <2>1. HeaderNext(b, s, read) = Later(b, s, read)
    BY <1>3, <1>13 DEF HeaderNext
  <2>2. PICK i : i = IF read.declared THEN read.indent ELSE Indent(b, s, last)
    OBVIOUS
  <2>3. i = 0
    <3>1. CASE s > 1
      BY <1>5, <2>2, <3>1
    <3>2. CASE ~(s > 1)
      <4>1. s = 1
        BY <1>1, <3>2
      <4>2. Indent(b, s, last) = 0
        BY <1>10, <4>1 DEF Indent
      <4> QED
        BY <1>5, <2>2, <3>2, <4>2
    <3> QED
      BY <3>1, <3>2
  <2>4. Later(b, s, read).state = ScanLine(b, s, last, ScanOf(L[s]))
        /\ Later(b, s, read).declared = TRUE /\ Later(b, s, read).indent = i
    BY <1>3, <1>5, <2>2 DEF Later
  <2> QED
    BY <1>6, <1>7, <1>8, <1>9, <1>11, <2>1, <2>3, <2>4 DEF Carries
<1> QED
  BY <1>12, <1>13

LEMMA HeadersCapture ==
    ASSUME NEW t \in Seq(Symbols), NEW L, L = LexStates(t, IsabelleComments),
           NEW b, b = BlankedText(t), Declares(b), NEW f, HeaderWalk(f, b),
           NEW read, Carries(L, 1, read)
    PROVE  /\ f[<<1, read>>] \subseteq Unended(t, b, 1)
           /\ ~BlankLineInside(t) /\ ~ReadsAsEnd(t) => Unended(t, b, 1) \subseteq f[<<1, read>>]
<1> DEFINE n == Len(t)
           Easy == ~BlankLineInside(t) /\ ~ReadsAsEnd(t)
           Right(s, r) == /\ f[<<s, r>>] \subseteq Unended(t, b, s)
                          /\ Easy => Unended(t, b, s) \subseteq f[<<s, r>>]
           AtLine(s, r) == /\ s >= 1 /\ (s = 1 \/ b[s - 1] = NewLine)
                           /\ r \in HeaderStates /\ (s <= n => Carries(L, s, r))
           Reads(s) == \A r : AtLine(s, r) => Right(s, r)
           T == {s \in Nat : Reads(s)}
<1>1. n \in Nat /\ Len(b) = n
  BY BlankedIs
<1>2. ASSUME NEW s \in Nat, s > n, NEW r \in HeaderStates PROVE Right(s, r)
  <2>1. f[<<s, r>>] = {}
    BY <1>1, <1>2 DEF HeaderWalk
  <2>2. Unended(t, b, s) = {}
    BY <1>1, <1>2 DEF Unended
  <2> HIDE DEF Easy
  <2> QED
    BY <2>1, <2>2
<1>3. ASSUME NEW s \in Nat, s > n PROVE s \in T
  <2>1. \A r : AtLine(s, r) => Right(s, r)
    <3>1. \A r : AtLine(s, r) => r \in HeaderStates
      OBVIOUS
    <3> HIDE DEF Right, AtLine
    <3> QED BY <1>2, <1>3, <3>1
  <2> HIDE DEF Right, AtLine
  <2> QED BY <2>1
<1>4. ASSUME NEW s \in Nat, s <= n, \A j \in Nat : s < j => j \in T PROVE s \in T
  <2>1. ASSUME NEW r, AtLine(s, r) PROVE Right(s, r)
    <3>1. s \in 1..n /\ (s = 1 \/ b[s - 1] = NewLine) /\ r \in HeaderStates /\ Carries(L, s, r)
      BY <1>1, <1>4, <2>1
    <3>2. PICK last : last = LineEnd(b, s) - 1
      OBVIOUS
    <3>3. IsaLine(t, L, b, s, last)
      BY <3>1, <3>2 DEF IsaLine
    <3>4. last \in Nat /\ s <= last + 1 /\ LineEnd(b, s) + 1 = last + 2
      <4>1. last \in Nat /\ LineEnd(b, s) = last + 1
        BY <3>3, IsaLineIs
      <4>2. s <= last + 1
        BY <3>3, IsaLineIs
      <4> QED
        BY <4>1, <4>2
    <3>5. PICK q : q = HeaderNext(b, s, r)
      OBVIOUS
    <3>6. q \in HeaderStates
      BY <1>1, <3>1, <3>5, HeaderNextTyped
    <3>7. PICK v : v = f[<<last + 2, q>>]
      OBVIOUS
    <3>8. f[<<s, r>>] = HeaderFrom(b, s, r, v)
      <4>1. f[<<s, r>>] = IF s > Len(b) THEN {}
                          ELSE HeaderFrom(b, s, r, f[<<LineEnd(b, s) + 1, HeaderNext(b, s, r)>>])
        BY <3>1 DEF HeaderWalk
      <4>2. ~(s > Len(b))
        BY <1>1, <1>4
      <4>3. f[<<LineEnd(b, s) + 1, HeaderNext(b, s, r)>>] = v
        BY <3>4, <3>5, <3>7, Zenon
      <4> QED
        BY <4>1, <4>2, <4>3, Zenon
    <3>9. Right(last + 2, q)
      <4>1. last + 2 \in Nat /\ s < last + 2
        BY <3>4
      <4>2. CASE last + 2 > n
        <5> HIDE DEF Right
        <5> QED BY <1>2, <3>6, <4>1, <4>2
      <4>3. CASE last + 2 <= n
        <5>1. Carries(L, last + 2, q)
          BY <3>1, <3>3, <3>5, <4>3, CarriesOn
        <5>2. IsaLine(t, L, b, last + 2, LineEnd(b, last + 2) - 1)
          BY <3>1, <3>3, <4>3, CarriesOn
        <5>3. AtLine(last + 2, q)
          BY <3>6, <4>1, <5>1, <5>2 DEF IsaLine
        <5>4. last + 2 \in T
          <6> HIDE DEF T
          <6> QED BY <1>4, <4>1
        <5>5. Reads(last + 2)
          <6> HIDE DEF Reads
          <6> QED BY <5>4
        <5> HIDE DEF Right, AtLine
        <5> QED BY <5>3, <5>5
      <4> QED
        BY <1>1, <4>1, <4>2, <4>3
    <3>10. f[<<s, r>>] \subseteq Unended(t, b, s)
      <4>1. v \in SUBSET Unended(t, b, last + 2)
        <5> HIDE DEF Easy
        <5> QED BY <3>7, <3>9
      <4> QED
        BY <3>1, <3>3, <3>8, <4>1, LineCaptured
    <3>11. ASSUME Easy PROVE Unended(t, b, s) \subseteq f[<<s, r>>]
      <4>1. ~ReadsAsEnd(t) /\ ~BlankLineInside(t)
        BY <3>11
      <4>2. Unended(t, b, last + 2) \subseteq v
        <5> HIDE DEF Easy
        <5> QED BY <3>7, <3>9, <3>11
      <4>3. ~IsBlankLine(b, s, last)
        <5>1. Blanked(t, Comment(t, IsabelleComments)) = b
          BY StripsComments DEF BlankedText
        <5>2. <<s, last>> \in Lines(b)
          BY <3>3, IsaLineIs
        <5>3. PICK l : l = <<s, last>>
          OBVIOUS
        <5>4. l \in Lines(b) /\ l[1] = s /\ l[2] = last
          BY <5>2, <5>3
        <5>5. BlankLineInside(t) <=> \E x \in Lines(b) : IsBlankLine(b, x[1], x[2])
          BY <5>1 DEF BlankLineInside
        <5> QED
          BY <4>1, <5>4, <5>5
      <4> QED
        BY <3>1, <3>3, <3>8, <4>1, <4>2, <4>3, LineKept
    <3> HIDE DEF Easy
    <3> QED
      BY <3>10, <3>11
  <2> HIDE DEF Right, AtLine
  <2> QED BY <2>1
<1>5. Nat \subseteq T
  <2> HIDE DEF T
  <2> QED BY <1>1, <1>3, <1>4, Backwards
<1>6. Reads(1)
  <2> HIDE DEF Reads
  <2> QED BY <1>5
<1>7. AtLine(1, read)
  BY DEF Carries
<1>8. Right(1, read)
  <2> HIDE DEF Right, AtLine
  <2> QED BY <1>6, <1>7
<1> QED
  BY <1>8

LEMMA StatementIs ==
    ASSUME NEW t \in Seq(Symbols)
    PROVE  Statement(t) = Unended(t, BlankedText(t), 1)
<1> DEFINE P == Comment(t, IsabelleComments)
<1>1. PICK b : b = BlankedText(t)
  OBVIOUS
<1>2. Len(b) = Len(t) /\ Len(t) \in Nat
  BY <1>1, BlankedIs
<1>3. \A k \in 1..Len(t) : b[k] = IF k \in P THEN Blank ELSE t[k]
  <2>1. StripComments(t, IsabelleComments) = P
    BY StripsComments
  <2> HIDE DEF P
  <2> QED
    BY <1>1, <2>1 DEF BlankedText, Blanked
<1>4. Statement(t) = {k \in {i \in 1..Len(t) : \A e \in HeaderEnds(t) : i < e} : t[k] \notin Whitespace} \ P
  BY DEF Statement
<1>5. ASSUME NEW k \in 1..Len(t) PROVE b[k] \notin {Blank, NewLine} <=> t[k] \notin Whitespace /\ k \notin P
  BY <1>3 DEF Whitespace
<1>6. ASSUME NEW k \in 1..Len(t)
      PROVE  (\A e \in HeaderEnds(t) : 1 <= e => k < e) <=> \A e \in HeaderEnds(t) : k < e
  <2>1. \A e \in HeaderEnds(t) : 1 <= e
    <3> SUFFICES ASSUME NEW e \in HeaderEnds(t) PROVE 1 <= e
      OBVIOUS
    <3>1. e \in 2..Len(t)
      BY DEF HeaderEnds
    <3> QED
      BY <1>2, <3>1
  <2> QED
    BY <2>1
<1>7. ASSUME NEW k PROVE k \in Unended(t, b, 1) <=>
        k \in 1..Len(t) /\ t[k] \notin Whitespace /\ k \notin P /\ \A e \in HeaderEnds(t) : k < e
  <2>1. k \in Unended(t, b, 1) <=> /\ k \in 1..Len(b) /\ 1 <= k /\ b[k] \notin {Blank, NewLine}
                                   /\ \A e \in HeaderEnds(t) : 1 <= e => k < e
    BY DEF Unended
  <2>2. k \in 1..Len(t) => 1 <= k
    BY <1>2
  <2> HIDE DEF P
  <2> QED
    BY <1>2, <1>5, <1>6, <2>1, <2>2
<1>8. ASSUME NEW k PROVE k \in Statement(t) <=>
        k \in 1..Len(t) /\ t[k] \notin Whitespace /\ k \notin P /\ \A e \in HeaderEnds(t) : k < e
  <2> HIDE DEF P
  <2> QED BY <1>4
<1>9. Statement(t) = Unended(t, b, 1)
  <2> HIDE DEF P
  <2> QED BY <1>7, <1>8
<1> QED
  BY <1>1, <1>9

NoHeader == [state |-> NothingOpen, declared |-> FALSE, indent |-> 0, quoted |-> FALSE]

LEMMA ExtractIs ==
    ASSUME NEW t \in Seq(Symbols), ~HasMarginal(t)
    PROVE  ExtractStatement(t) = (CHOOSE h : IsHeaders(h, BlankedText(t)))[<<1, NoHeader>>]
<1>1. Blanked(t, BlankIsabelleComments(t)) = BlankedText(t)
  <2>1. \A k \in 1..Len(t) : t[k] = CommentMark => MarginalCommentEnd(t, k) = 0
    BY DEF HasMarginal
  <2> QED
    BY <2>1, BlankersSame DEF BlankedText
<1>2. ExtractStatement(t) =
        (CHOOSE h : IsHeaders(h, Blanked(t, BlankIsabelleComments(t))))[<<1, NoHeader>>]
  BY DEF ExtractStatement, IsHeaders, NoHeader
<1> QED
  BY <1>1, <1>2

\* What is extracted is the statement, whatever the text.
LEMMA StatementsAreWhole ==
    ASSUME text \in Seq(Symbols)
    PROVE  NothingOfTheProof /\ AllOfTheStatement
<1> SUFFICES ASSUME IsDeclaration(text), ~HasMarginal(text)
             PROVE  /\ ExtractStatement(text) \subseteq Statement(text)
                    /\ ~BlankLineInside(text) /\ ~ReadsAsEnd(text)
                       => Statement(text) \subseteq ExtractStatement(text)
  BY DEF NothingOfTheProof, AllOfTheStatement
<1>1. PICK L : L = LexStates(text, IsabelleComments)
  OBVIOUS
<1>2. PICK b : b = BlankedText(text)
  OBVIOUS
<1>3. IsRun(L, text, IsabelleComments) /\ Len(text) \in Nat /\ Len(b) = Len(text)
  BY <1>1, <1>2, LexStatesRun, BlankedIs
<1>4. Len(text) > 0 /\ text[1] = Declaration
  BY DEF IsDeclaration
<1>5. L[1] = Code
  BY <1>3 DEF IsRun
<1>6. Declares(b)
  <2>1. 1 \in 1..Len(text) /\ InCodeAt(L, 1)
    BY <1>3, <1>4, <1>5 DEF InCodeAt, Code, At
  <2>2. b[1] = text[1]
    BY <1>1, <1>2, <1>4, <2>1, CodeShows
  <2> QED
    BY <1>3, <1>4, <2>2 DEF Declares
<1>7. PICK f : f = (CHOOSE h : IsHeaders(h, b)) /\ HeaderWalk(f, b)
  BY <1>3, HeadersWalk
<1>8. Carries(L, 1, NoHeader)
  <2>1. NoHeader \in HeaderStates
    BY DEF NoHeader, HeaderStates, NothingOpen, ScanStates
  <2>2. ScanOf(L[1]) = NothingOpen
    BY <1>5, ScanOfIs DEF Code, At, Plain
  <2> QED
    BY <2>1, <2>2 DEF Carries, NoHeader
<1>9. PICK v : v = f[<<1, NoHeader>>]
  OBVIOUS
<1>10. /\ v \subseteq Unended(text, b, 1)
       /\ ~BlankLineInside(text) /\ ~ReadsAsEnd(text) => Unended(text, b, 1) \subseteq v
  <2>1. /\ f[<<1, NoHeader>>] \subseteq Unended(text, b, 1)
        /\ ~BlankLineInside(text) /\ ~ReadsAsEnd(text)
           => Unended(text, b, 1) \subseteq f[<<1, NoHeader>>]
    <3>1. HeaderWalk(f, b)
      BY <1>7
    <3>2. f[<<1, NoHeader>>] \subseteq Unended(text, b, 1)
      BY <1>1, <1>2, <1>6, <1>8, <3>1, HeadersCapture
    <3>3. ~BlankLineInside(text) /\ ~ReadsAsEnd(text)
          => Unended(text, b, 1) \subseteq f[<<1, NoHeader>>]
      BY <1>1, <1>2, <1>6, <1>8, <3>1, HeadersCapture
    <3> QED
      BY <3>2, <3>3
  <2> QED
    BY <1>9, <2>1
<1>11. ExtractStatement(text) = v
  BY <1>2, <1>7, <1>9, ExtractIs
<1>12. Statement(text) = Unended(text, b, 1)
  BY <1>2, StatementIs
<1> QED
  BY <1>10, <1>11, <1>12

-----------------------------------------------------------------------------
(* The three together.                                                     *)

\* Whatever is typed, what is taken for the statement of a declaration is all of
\* it and nothing of its proof, in each prover's syntax (lean4.py, rocq.py and
\* isabelle.py, extract_*_statement).
THEOREM StatementsAlwaysExact == Spec /\ LeanSpec => []StatementsAreExact
<1>1. TextIsSymbols => SentenceEndsInCode /\ NothingOfTheProof /\ AllOfTheStatement
  BY SentencesEnd, StatementsAreWhole DEF TextIsSymbols
<1>2. LeanInv => SignatureEndsAtValue /\ NoEndIsInvented /\ LetEndsTheStatement
  BY SignaturesEnd
<1>3. TextIsSymbols /\ LeanInv => StatementsAreExact
  BY <1>1, <1>2 DEF StatementsAreExact
<1> QED
  BY <1>3, TextIsTyped, LeanInvHolds, PTL

-----------------------------------------------------------------------------
(* DeclSpans: what is typed.                                               *)

Chars == {"c", ":", "["} \cup Names
Targets == Names \cup {NoTarget, GlobalTarget}

Kinds == {"scope", "plain", "decl", "command", "attribute", "endword", "close",
          "begin", "text", "bar", "blank"}
LineSet == [kind : Kinds, name : Seq(Chars), indent : 0..1, target : Targets,
            declared : BOOLEAN, begins : BOOLEAN, quoted : BOOLEAN]
ScopeSet == [contributes : BOOLEAN, name : Seq(Chars)]
PathPrefixes == {Qualifiers(s) : s \in Seq(ScopeSet)} \cup {<< >>} \cup {<<<<t>>>> : t \in Targets}
PathSet == {NoPath} \cup (PathPrefixes \X Seq(Chars))

LEMMA PlainIsLine ==
    ASSUME NEW kind \in Kinds
    PROVE  /\ PlainLine(kind) \in LineSet
           /\ PlainLine(kind).kind = kind /\ PlainLine(kind).name = NoName /\ PlainLine(kind).indent = 0
           /\ PlainLine(kind).target = NoTarget /\ PlainLine(kind).declared = FALSE
           /\ PlainLine(kind).begins = FALSE /\ PlainLine(kind).quoted = FALSE
BY DEF PlainLine, LineSet, Targets, NoName

LEMMA LineIs ==
    ASSUME NEW line, NEW kind \in Kinds, NEW name \in Seq(Chars), NEW indent \in 0..1,
           NEW target \in Targets, NEW declared \in BOOLEAN, NEW begins \in BOOLEAN,
           NEW quoted \in BOOLEAN,
           line = [kind |-> kind, name |-> name, indent |-> indent, target |-> target,
                   declared |-> declared, begins |-> begins, quoted |-> quoted]
    PROVE  /\ line \in LineSet
           /\ line.kind = kind /\ line.name = name /\ line.indent = indent
           /\ line.target = target /\ (line.declared <=> declared)
           /\ (line.begins <=> begins) /\ (line.quoted <=> quoted)
BY DEF LineSet

LEMMA PathIsPath ==
    ASSUME NEW q \in PathPrefixes, NEW n \in Seq(Chars)
    PROVE  <<q, n>> \in PathSet /\ <<q, n>> # NoPath
BY DEF PathSet, NoPath

LEMMA NamesAreChars ==
    /\ DeclName \in Seq(Chars) /\ NoName \in Seq(Chars)
    /\ \A n \in Names : <<n>> \in Seq(Chars)
    /\ NameGlued \in Seq(Chars) /\ NameWithList \in Seq(Chars)
<1>1. "c" \in Chars /\ ":" \in Chars /\ "[" \in Chars /\ Names \subseteq Chars
  BY DEF Chars
<1>2. DeclName \in Seq(Chars) /\ NoName \in Seq(Chars)
  BY <1>1 DEF DeclName, NoName
<1>3. NameGlued \in Seq(Chars) /\ NameWithList \in Seq(Chars)
  BY <1>1 DEF NameGlued, NameWithList
<1>4. \A n \in Names : <<n>> \in Seq(Chars)
  BY <1>1
<1> QED
  BY <1>2, <1>3, <1>4

Attributes(raw) == {i \in 1..Len(raw) : raw[i] = "["}
Cut(raw) == IF Attributes(raw) = {} THEN raw ELSE SubSeq(raw, 1, Min(Attributes(raw)) - 1)
Named(raw) == {i \in 1..Len(Cut(raw)) : Cut(raw)[i] # ":"}

LEMMA NormalIs ==
    ASSUME NEW raw
    PROVE  NormalizeDeclName(raw)
             = IF Named(raw) = {} THEN raw ELSE SubSeq(Cut(raw), 1, Max(Named(raw)))
BY DEF NormalizeDeclName, Named, Cut, Attributes

LEMMA SeqsEqual ==
    ASSUME NEW S, NEW s \in Seq(S), NEW t \in Seq(S), Len(s) = Len(t),
           \A i \in 1..Len(s) : s[i] = t[i]
    PROVE  s = t
OBVIOUS

LEMMA FirstOnly ==
    ASSUME NEW S, NEW s \in Seq(S), NEW t \in Seq(S), Len(s) = 1, Len(t) >= 1, s[1] = t[1]
    PROVE  SubSeq(t, 1, 1) = s
<1>1. SubSeq(t, 1, 1) \in Seq(S) /\ Len(SubSeq(t, 1, 1)) = 1
  OBVIOUS
<1>2. SubSeq(t, 1, 1)[1] = t[1]
  OBVIOUS
<1> QED
  BY <1>1, <1>2, SeqsEqual

LEMMA OnlyElement ==
    ASSUME NEW n \in Nat
    PROVE  Min({n}) = n /\ Max({n}) = n
BY DEF Min, Max

\* A name with what is glued to it normalizes to the name, and one of a single
\* token to itself.
LEMMA OneTokenNormal ==
    ASSUME NEW n
    PROVE  NormalizeDeclName(<<n>>) = <<n>>
<1>1. PICK raw : raw = <<n>>
  OBVIOUS
<1>2. raw \in Seq({n}) /\ Len(raw) = 1 /\ raw[1] = n
  BY <1>1
<1>3. CASE n = "["
  <2>1. Attributes(raw) = {1}
    BY <1>2, <1>3 DEF Attributes
  <2>2. Cut(raw) = SubSeq(raw, 1, 0)
    BY <2>1, OnlyElement DEF Cut
  <2>3. Len(Cut(raw)) = 0
    BY <2>2, <1>2
  <2>4. Named(raw) = {}
    BY <2>3 DEF Named
  <2> QED
    BY <1>1, <2>4, NormalIs
<1>4. CASE n # "["
  <2>1. Attributes(raw) = {}
    BY <1>2, <1>4 DEF Attributes
  <2>2. Cut(raw) = raw
    BY <2>1 DEF Cut
  <2>3. n = ":" => Named(raw) = {}
    BY <2>2, <1>2 DEF Named
  <2>4. n # ":" => Named(raw) = {1}
    BY <2>2, <1>2 DEF Named
  <2>5. SubSeq(raw, 1, 1) = raw
    BY <1>2
  <2>6. n = ":" \/ Max(Named(raw)) = 1
    BY <2>4, OnlyElement
  <2>7. NormalizeDeclName(raw) = raw
    BY <2>2, <2>3, <2>5, <2>6, NormalIs
  <2> QED
    BY <1>1, <2>7
<1> QED
  BY <1>3, <1>4

LEMMA GluedNormal ==
    /\ NormalizeDeclName(DeclName) = DeclName
    /\ NormalizeDeclName(NameGlued) = DeclName
    /\ NormalizeDeclName(NameWithList) = DeclName
    /\ DeclName # NoName /\ NameGlued # NoName /\ NameWithList # NoName
<1>1. NormalizeDeclName(DeclName) = DeclName
  BY OneTokenNormal DEF DeclName
<1>2. DeclName \in Seq({"c"}) /\ Len(DeclName) = 1 /\ DeclName[1] = "c"
  BY DEF DeclName
<1>3. NormalizeDeclName(NameGlued) = DeclName
  <2>1. PICK raw : raw = NameGlued
    OBVIOUS
  <2>2. raw \in Seq({"c", ":"}) /\ Len(raw) = 2 /\ raw[1] = "c" /\ raw[2] = ":"
    BY <2>1 DEF NameGlued
  <2>3. Attributes(raw) = {}
    BY <2>2 DEF Attributes
  <2>4. Cut(raw) = raw
    BY <2>3 DEF Cut
  <2>5. Named(raw) = {1}
    <3>1. Named(raw) = {i \in 1..Len(raw) : raw[i] # ":"}
      BY <2>4 DEF Named
    <3>2. \A i : i \in Named(raw) <=> i = 1
      BY <2>2, <3>1
    <3> QED
      BY <3>2
  <2>6. SubSeq(raw, 1, 1) = DeclName
    <3>1. DeclName \in Seq({"c", ":"})
      BY DEF DeclName
    <3> QED
      BY <1>2, <2>2, <3>1, FirstOnly
  <2>7. NormalizeDeclName(raw) = DeclName
    BY <2>4, <2>5, <2>6, NormalIs, OnlyElement
  <2> QED
    BY <2>1, <2>7
<1>4. NormalizeDeclName(NameWithList) = DeclName
  <2>1. PICK raw : raw = NameWithList
    OBVIOUS
  <2>2. raw \in Seq({"c", ":", "["}) /\ Len(raw) = 3
        /\ raw[1] = "c" /\ raw[2] = "[" /\ raw[3] = ":"
    BY <2>1 DEF NameWithList
  <2>3. DeclName \in Seq({"c", ":", "["})
    BY DEF DeclName
  <2>4. Attributes(raw) = {2}
    <3>1. \A i : i \in Attributes(raw) <=> i = 2
      BY <2>2 DEF Attributes
    <3> QED
      BY <3>1
  <2>5. Cut(raw) = DeclName
    <3>1. Min({2}) - 1 = 1
      BY OnlyElement
    <3>2. Cut(raw) = SubSeq(raw, 1, 1)
      BY <2>4, <3>1 DEF Cut
    <3> QED
      BY <1>2, <2>2, <2>3, <3>2, FirstOnly
  <2>6. Named(raw) = {1}
    <3>1. Named(raw) = {i \in 1..Len(DeclName) : DeclName[i] # ":"}
      BY <2>5 DEF Named
    <3>2. \A i : i \in Named(raw) <=> i = 1
      BY <1>2, <3>1
    <3> QED
      BY <3>2
  <2>7. SubSeq(DeclName, 1, 1) = DeclName
    BY <1>2, FirstOnly
  <2>8. NormalizeDeclName(raw) = DeclName
    BY <2>5, <2>6, <2>7, NormalIs, OnlyElement
  <2> QED
    BY <2>1, <2>8
<1>5. DeclName # NoName /\ NameGlued # NoName /\ NameWithList # NoName
  BY DEF DeclName, NameGlued, NameWithList, NoName
<1> QED
  BY <1>1, <1>3, <1>4, <1>5

-----------------------------------------------------------------------------
(* Lines and their owners.  One more line that fits leaves every line as   *)
(* its author means it.                                                    *)

\* A line starts a declaration.
Starts(line, p) == IsDecl(line) /\ ~(p = "isabelle" /\ line.quoted)

\* A line that no declaration goes past; a Rocq Module is one for the author.
Separates(line, p) ==
    /\ ~line.quoted /\ line.indent = 0 /\ line.kind # "bar"
    /\ IsTrailer(line, p) \/ (p = "rocq" /\ line.kind = "scope")

\* A line of a declaration, after its first.
Follows(line, p) ==
    /\ line.kind # "blank"
    /\ ~IsTrailer(line, p) \/ line.kind = "endword" \/ (p = "isabelle" /\ line.quoted)

\* From the line after i to line k all lines are of i, or blank.
AllOf(ls, ow, i, k) == \A j \in (i + 1)..k : ow[j] = i \/ ls[j].kind = "blank"

\* What the author means by line k.
LineMeant(ls, pa, ow, p, k) ==
    /\ ow[k] \in 0..k
    /\ (pa[k] # NoPath) <=> Starts(ls[k], p)
    /\ Starts(ls[k], p) => ow[k] = k /\ ls[k].kind # "blank"
    /\ ow[k] = 0 => ls[k].kind = "blank" \/ Separates(ls[k], p)
    /\ ow[k] # 0 => /\ Starts(ls[ow[k]], p) /\ ow[ow[k]] = ow[k]
                    /\ AllOf(ls, ow, ow[k], k)
                    /\ ow[k] # k => Follows(ls[k], p)

LinesMeant(ls, pa, ow, p) == \A k \in 1..Len(ls) : LineMeant(ls, pa, ow, p, k)

\* The declaration that is open.
CurrentMeant(ls, ow, p, cu) ==
    cu # 0 => /\ Starts(ls[cu], p) /\ ow[cu] = cu
              /\ AllOf(ls, ow, cu, Len(ls))

\* A line may be typed, of `owner`, and leave the declaration `after` open.
Fits(line, path, owner, after, ls, cu, p) ==
    /\ (path # NoPath) <=> Starts(line, p)
    /\ Starts(line, p) => owner = Len(ls) + 1 /\ line.kind # "blank"
    /\ ~Starts(line, p) => owner \in {0, cu}
    /\ owner = 0 => line.kind = "blank" \/ Separates(line, p)
    /\ owner # 0 /\ ~Starts(line, p) => Follows(line, p)
    /\ after = owner \/ (after = cu /\ line.kind = "blank" /\ owner = 0)

Texts(ls, pa, ow) ==
    /\ ls \in Seq(LineSet) /\ pa \in Seq(PathSet) /\ ow \in Seq(Nat)
    /\ Len(pa) = Len(ls) /\ Len(ow) = Len(ls)

LEMMA AppendIs ==
    ASSUME NEW S, NEW s \in Seq(S), NEW e \in S
    PROVE  /\ Append(s, e) \in Seq(S) /\ Len(Append(s, e)) = Len(s) + 1
           /\ \A k \in 1..Len(s) : Append(s, e)[k] = s[k]
           /\ Append(s, e)[Len(s) + 1] = e
OBVIOUS

LEMMA TextsAre ==
    ASSUME NEW ls, NEW pa, NEW ow, Texts(ls, pa, ow)
    PROVE  Len(ls) \in Nat /\ \A k \in 1..Len(ls) : ls[k].indent \in 0..1
<1>1. ls \in Seq(LineSet)
  BY DEF Texts
<1>2. Len(ls) \in Nat /\ \A k \in 1..Len(ls) : ls[k] \in LineSet
  BY <1>1, SeqIs
<1> QED
  BY <1>2 DEF LineSet

LEMMA OneMoreLine ==
    ASSUME NEW ls, NEW pa, NEW ow, NEW cu, NEW p, NEW line \in LineSet, NEW path \in PathSet,
           NEW owner \in Nat, NEW after \in Nat,
           Texts(ls, pa, ow), LinesMeant(ls, pa, ow, p), cu \in 0..Len(ls),
           CurrentMeant(ls, ow, p, cu), Fits(line, path, owner, after, ls, cu, p)
    PROVE  /\ Texts(Append(ls, line), Append(pa, path), Append(ow, owner))
           /\ LinesMeant(Append(ls, line), Append(pa, path), Append(ow, owner), p)
           /\ after \in 0..(Len(ls) + 1) /\ Len(Append(ls, line)) = Len(ls) + 1
           /\ CurrentMeant(Append(ls, line), Append(ow, owner), p, after)
<1> DEFINE n == Len(ls)
<1>1. PICK l, q, o : l = Append(ls, line) /\ q = Append(pa, path) /\ o = Append(ow, owner)
  OBVIOUS
<1>2. /\ n \in Nat /\ l \in Seq(LineSet) /\ Len(l) = n + 1
      /\ \A k \in 1..n : l[k] = ls[k]
      /\ l[n + 1] = line
  BY <1>1, AppendIs DEF Texts
<1>3. /\ q \in Seq(PathSet) /\ Len(q) = n + 1
      /\ \A k \in 1..n : q[k] = pa[k]
      /\ q[n + 1] = path
  BY <1>1, AppendIs DEF Texts
<1>4. /\ o \in Seq(Nat) /\ Len(o) = n + 1
      /\ \A k \in 1..n : o[k] = ow[k]
      /\ o[n + 1] = owner
  BY <1>1, AppendIs DEF Texts
<1> HIDE DEF n
<1>n. n \in Nat
  BY <1>2
<1>k. \A k \in 1..n : l[k] = ls[k] /\ q[k] = pa[k] /\ o[k] = ow[k]
  BY <1>2, <1>3, <1>4
<1>e. l[n + 1] = line /\ q[n + 1] = path /\ o[n + 1] = owner
  BY <1>2, <1>3, <1>4
<1>5. ASSUME NEW i \in Nat, NEW k \in Nat, k <= n, AllOf(ls, ow, i, k)
      PROVE  AllOf(l, o, i, k)
  <2> SUFFICES ASSUME NEW j \in (i + 1)..k PROVE o[j] = i \/ l[j].kind = "blank"
    BY DEF AllOf
  <2>1. j \in 1..n
    BY <1>n, <1>5
  <2>2. ow[j] = i \/ ls[j].kind = "blank"
    BY <1>5 DEF AllOf
  <2> QED
    BY <1>k, <2>1, <2>2
<1>6. ASSUME NEW k \in 1..n PROVE LineMeant(l, q, o, p, k)
  <2>1. LineMeant(ls, pa, ow, p, k)
    BY DEF LinesMeant, n
  <2>2. l[k] = ls[k] /\ q[k] = pa[k] /\ o[k] = ow[k]
    BY <1>2, <1>3, <1>4
  <2>3. ow[k] \in 0..k
    BY <2>1 DEF LineMeant
  <2>4. ow[k] # 0 => l[ow[k]] = ls[ow[k]] /\ o[ow[k]] = ow[ow[k]]
    <3>1. PICK w : w = ow[k]
      OBVIOUS
    <3>2. w # 0 => w \in 1..n
      BY <1>n, <2>3, <3>1
    <3> QED
      BY <1>k, <3>1, <3>2
  <2>5. ow[k] # 0 => (AllOf(ls, ow, ow[k], k) => AllOf(l, o, ow[k], k))
    BY <1>2, <1>5, <2>3
  <2> QED
    BY <2>1, <2>2, <2>3, <2>4, <2>5 DEF LineMeant
<1>7. cu # 0 => /\ cu \in 1..n /\ Starts(l[cu], p) /\ o[cu] = cu
                /\ AllOf(l, o, cu, n)
  <2>1. cu # 0 => cu \in 1..n
    BY <1>2 DEF n
  <2>2. cu # 0 => Starts(ls[cu], p) /\ ow[cu] = cu /\ AllOf(ls, ow, cu, n)
    BY DEF CurrentMeant, n
  <2> QED
    BY <1>2, <1>4, <1>5, <2>1, <2>2
<1>8. /\ (path # NoPath) <=> Starts(line, p)
      /\ Starts(line, p) => owner = n + 1 /\ line.kind # "blank"
      /\ ~Starts(line, p) => owner \in {0, cu}
      /\ owner = 0 => line.kind = "blank" \/ Separates(line, p)
      /\ owner # 0 /\ ~Starts(line, p) => Follows(line, p)
      /\ after = owner \/ (after = cu /\ line.kind = "blank" /\ owner = 0)
  BY DEF Fits, n
<1>9. AllOf(l, o, n + 1, n + 1)
  BY <1>2 DEF AllOf
<1>10. owner = cu /\ cu # 0 => AllOf(l, o, cu, n + 1)
  <2>1. \A j \in (cu + 1)..(n + 1) : j \in (cu + 1)..n \/ j = n + 1
    BY <1>n
  <2> QED
    BY <1>7, <1>e, <2>1 DEF AllOf
<1>11. LineMeant(l, q, o, p, n + 1)
  <2>1. CASE Starts(line, p)
    <3>1. owner = n + 1 /\ path # NoPath /\ line.kind # "blank"
      BY <1>8, <2>1
    <3> QED
      BY <1>n, <1>e, <1>9, <2>1, <3>1 DEF LineMeant
  <2>2. CASE ~Starts(line, p) /\ owner = 0
    BY <1>n, <1>e, <1>8, <2>2 DEF LineMeant
  <2>3. CASE ~Starts(line, p) /\ owner # 0
    <3>1. owner = cu /\ cu # 0 /\ Follows(line, p) /\ path = NoPath
      BY <1>8, <2>3
    <3>2. o[n + 1] = cu /\ cu \in 1..n /\ Starts(l[cu], p) /\ o[cu] = cu
          /\ AllOf(l, o, cu, n + 1)
      BY <1>4, <1>7, <1>10, <3>1
    <3> QED
      BY <1>n, <1>e, <2>3, <3>1, <3>2 DEF LineMeant
  <2> QED
    BY <2>1, <2>2, <2>3
<1>12. LinesMeant(l, q, o, p)
  <2>1. \A k \in 1..(n + 1) : k \in 1..n \/ k = n + 1
    BY <1>2
  <2> QED
    BY <1>2, <1>6, <1>11, <2>1 DEF LinesMeant
<1>13. after \in 0..(n + 1)
  BY <1>2, <1>7, <1>8
<1>14. CurrentMeant(l, o, p, after)
  <2>1. CASE after = cu /\ line.kind = "blank" /\ owner = 0
    <3>1. cu # 0 => AllOf(l, o, cu, n + 1)
      <4>1. \A j \in (cu + 1)..(n + 1) : j \in (cu + 1)..n \/ j = n + 1
        BY <1>n
      <4> QED
        BY <1>7, <1>e, <2>1, <4>1 DEF AllOf
    <3> QED
      BY <1>2, <1>7, <2>1, <3>1 DEF CurrentMeant
  <2>2. CASE after = owner /\ Starts(line, p)
    BY <1>2, <1>4, <1>8, <1>9, <2>2 DEF CurrentMeant
  <2>3. CASE after = owner /\ ~Starts(line, p)
    BY <1>2, <1>7, <1>8, <1>10, <2>3 DEF CurrentMeant
  <2> QED
    BY <1>8, <2>1, <2>2, <2>3
<1>15. Texts(l, q, o)
  BY <1>2, <1>3, <1>4 DEF Texts
<1> QED
  BY <1>1, <1>2, <1>12, <1>13, <1>14, <1>15 DEF n

-----------------------------------------------------------------------------
(* Spans.  Where every line is as it is meant, a declaration's span holds  *)
(* its lines, and what else it holds is blank.                             *)

LEMMA LeastIs ==
    ASSUME NEW S \in SUBSET Nat, S # {}
    PROVE  Min(S) \in S /\ \A y \in S : Min(S) <= y
<1>1. \E x \in S : \A y \in S : x <= y
  BY LeastNat
<1> QED
  BY <1>1 DEF Min

LEMMA GreatestIs ==
    ASSUME NEW n \in Nat, NEW S \in SUBSET (0..n), S # {}
    PROVE  Max(S) \in S /\ \A y \in S : y <= Max(S)
<1>1. \E x \in S : \A y \in S : x >= y
  <2>1. PICK x \in S : \A y \in S : y <= x
    BY GreatestOfBounded
  <2>2. \A y \in S : x >= y
    BY <2>1
  <2> QED
    BY <2>2
<1>2. Max(S) \in S /\ \A y \in S : Max(S) >= y
  BY <1>1 DEF Max
<1> QED
  BY <1>2

\* A line that ends the body of the declaration at i, and the body.
EndsBody(ls, i, j, p) ==
    /\ ~(\/ ls[j].kind = "blank"
         \/ j \in ContinuationLinesFor(ls, p)
         \/ ls[j].indent > ls[i].indent
         \/ ls[j].kind = "bar" /\ ls[j].indent >= ls[i].indent)
    /\ IsTrailer(ls[j], p)

BodyLines(ls, i, limit, p) ==
    {k \in (i + 1)..limit : ls[k].kind # "blank" /\ \A j \in (i + 1)..k : ~EndsBody(ls, i, j, p)}

LEMMA SpanEndIs ==
    ASSUME NEW ls, NEW p, NEW i \in Nat, NEW limit \in Nat, i <= limit
    PROVE  LET e == SpanEnd(ls, i, limit, p)
           IN  /\ e = i \/ e \in BodyLines(ls, i, limit, p)
               /\ i <= e /\ e <= limit /\ e \in Nat
               /\ \A k \in BodyLines(ls, i, limit, p) : k <= e
<1> DEFINE B == BodyLines(ls, i, limit, p)
<1>1. SpanEnd(ls, i, limit, p) = Max({i} \cup B)
  BY DEF SpanEnd, BodyLines, EndsBody
<1>2. {i} \cup B \in SUBSET (0..limit)
  BY DEF BodyLines
<1> HIDE DEF B
<1>3. PICK e : e = Max({i} \cup B)
  OBVIOUS
<1>4. e \in {i} \cup B /\ \A y \in {i} \cup B : y <= e
  BY <1>2, <1>3, GreatestIs
<1>5. e \in 0..limit
  BY <1>2, <1>4
<1>6. e = i \/ e \in B
  BY <1>4
<1>7. i <= e /\ \A k \in B : k <= e
  BY <1>4
<1>8. e <= limit /\ e \in Nat
  BY <1>5
<1> QED
  BY <1>1, <1>3, <1>6, <1>7, <1>8 DEF B

LEMMA StartsAre ==
    ASSUME NEW ls, NEW p
    PROVE  /\ DeclStarts(ls, p) = {i \in 1..Len(ls) : Starts(ls[i], p)}
           /\ ContinuationLinesFor(ls, p) = {i \in 1..Len(ls) : p = "isabelle" /\ ls[i].quoted}
BY DEF DeclStarts, Starts, ContinuationLinesFor

\* Where the next declaration starts, or past the end.
NextStart(ls, i, p) == Min({k \in DeclStarts(ls, p) : k > i} \cup {Len(ls) + 1})

LEMMA NextStartIs ==
    ASSUME NEW ls, NEW p, Len(ls) \in Nat, NEW i \in 1..Len(ls)
    PROVE  LET m == NextStart(ls, i, p)
           IN  /\ m \in (i + 1)..(Len(ls) + 1)
               /\ m = Len(ls) + 1 \/ Starts(ls[m], p)
               /\ \A k \in DeclStarts(ls, p) : k > i => m <= k
<1> DEFINE S == {k \in DeclStarts(ls, p) : k > i} \cup {Len(ls) + 1}
<1>1. S \in SUBSET Nat /\ S # {}
  BY StartsAre
<1>2. \A k \in S : k \in (i + 1)..(Len(ls) + 1) /\ (k = Len(ls) + 1 \/ Starts(ls[k], p))
  BY StartsAre
<1>3. NextStart(ls, i, p) = Min(S)
  BY DEF NextStart
<1>4. \A k \in DeclStarts(ls, p) : k > i => k \in S
  OBVIOUS
<1> HIDE DEF S
<1>5. Min(S) \in S /\ \A y \in S : Min(S) <= y
  BY <1>1, LeastIs
<1> QED
  BY <1>2, <1>3, <1>4, <1>5

LEMMA SpansAre ==
    ASSUME NEW ls, NEW p
    PROVE  /\ DOMAIN FindDeclSpans(ls, p) = DeclStarts(ls, p)
           /\ \A i \in DeclStarts(ls, p) :
                FindDeclSpans(ls, p)[i] = SpanEnd(ls, i, NextStart(ls, i, p) - 1, p)
BY DEF FindDeclSpans, NextStart

LEMMA SpanCovers ==
    ASSUME NEW ls, NEW pa, NEW ow, NEW p, Texts(ls, pa, ow), LinesMeant(ls, pa, ow, p),
           \A k \in 1..Len(ls) : ls[k].kind # "endword",
           NEW k \in 1..Len(ls), ow[k] # 0
    PROVE  ow[k] \in DeclStarts(ls, p) /\ k <= FindDeclSpans(ls, p)[ow[k]]
<1>1. PICK o : o = ow[k]
  OBVIOUS
<1>2. Len(ls) \in Nat /\ k \in Nat /\ 1 <= k /\ k <= Len(ls)
  BY TextsAre
<1>3. o \in 1..k /\ Starts(ls[o], p) /\ ow[o] = o /\ AllOf(ls, ow, o, k)
  <2>1. LineMeant(ls, pa, ow, p, k)
    BY DEF LinesMeant
  <2>2. o \in 0..k /\ o # 0
    BY <1>1, <2>1 DEF LineMeant
  <2>3. Starts(ls[o], p) /\ ow[o] = o /\ AllOf(ls, ow, o, k)
    BY <1>1, <2>1, <2>2 DEF LineMeant
  <2> QED
    BY <1>2, <2>2, <2>3
<1>4. o \in DeclStarts(ls, p)
  BY <1>2, <1>3, StartsAre
<1>5. PICK m : m = NextStart(ls, o, p)
  OBVIOUS
<1>6. m \in (o + 1)..(Len(ls) + 1) /\ (m = Len(ls) + 1 \/ Starts(ls[m], p))
  <2>1. o \in 1..Len(ls)
    BY <1>2, <1>3
  <2> QED
    BY <1>2, <1>5, <2>1, NextStartIs
<1>7. k < m
  <2> SUFFICES ASSUME m <= k PROVE FALSE
    BY <1>2, <1>6
  <2>1. m \in 1..Len(ls) /\ Starts(ls[m], p) /\ m \in (o + 1)..k
    BY <1>2, <1>3, <1>6
  <2>2. ow[m] = m /\ ls[m].kind # "blank"
    BY <2>1 DEF LinesMeant, LineMeant
  <2>3. ow[m] = o \/ ls[m].kind = "blank"
    BY <1>3, <2>1 DEF AllOf
  <2> QED
    BY <1>3, <2>1, <2>2, <2>3
<1>8. ASSUME NEW j \in (o + 1)..k, ls[j].kind # "blank"
      PROVE  ~EndsBody(ls, o, j, p)
  <2>1. ow[j] = o /\ j \in 1..Len(ls) /\ j # o /\ o # 0
    BY <1>2, <1>3, <1>8 DEF AllOf
  <2>2. Follows(ls[j], p)
    BY <2>1 DEF LinesMeant, LineMeant
  <2>3. ~IsTrailer(ls[j], p) \/ j \in ContinuationLinesFor(ls, p)
    BY <2>1, <2>2, StartsAre DEF Follows
  <2> QED
    BY <2>3 DEF EndsBody
<1>9. k = o \/ k \in BodyLines(ls, o, m - 1, p)
  <2> SUFFICES ASSUME k # o PROVE k \in BodyLines(ls, o, m - 1, p)
    OBVIOUS
  <2>1. k \in (o + 1)..(m - 1) /\ k \in (o + 1)..k
    BY <1>3, <1>6, <1>7
  <2>2. ls[k].kind # "blank"
    <3>1. Follows(ls[k], p)
      BY <1>1 DEF LinesMeant, LineMeant
    <3> QED
      BY <3>1 DEF Follows
  <2>3. \A j \in (o + 1)..k : ~EndsBody(ls, o, j, p)
    BY <1>8 DEF EndsBody
  <2> QED
    BY <2>1, <2>2, <2>3 DEF BodyLines
<1>10. PICK e : e = SpanEnd(ls, o, m - 1, p)
  OBVIOUS
<1>11. o <= e /\ \A b \in BodyLines(ls, o, m - 1, p) : b <= e
  <2>1. o \in Nat /\ m - 1 \in Nat /\ o <= m - 1
    BY <1>3, <1>6
  <2> QED
    BY <1>10, <2>1, SpanEndIs
<1>12. k <= e
  BY <1>9, <1>11
<1> QED
  BY <1>1, <1>4, <1>5, <1>10, <1>12, SpansAre

LEMMA SpanTakes ==
    ASSUME NEW ls, NEW pa, NEW ow, NEW p, Texts(ls, pa, ow), LinesMeant(ls, pa, ow, p),
           p = "rocq" => \A k \in 1..Len(ls) : ls[k].kind # "scope",
           NEW i \in DeclStarts(ls, p), NEW k \in i..FindDeclSpans(ls, p)[i]
    PROVE  ls[k].kind = "blank" \/ ow[k] = i
<1>1. Len(ls) \in Nat
  BY TextsAre
<1>2. i \in 1..Len(ls) /\ Starts(ls[i], p)
  BY StartsAre
<1>3. ow[i] = i /\ ls[i].kind # "blank"
  BY <1>2 DEF LinesMeant, LineMeant
<1>4. PICK m : m = NextStart(ls, i, p)
  OBVIOUS
<1>5. m \in (i + 1)..(Len(ls) + 1) /\ \A j \in DeclStarts(ls, p) : j > i => m <= j
  BY <1>1, <1>2, <1>4, NextStartIs
<1>6. PICK e : e = SpanEnd(ls, i, m - 1, p)
  OBVIOUS
<1>7. k \in i..e
  BY <1>4, <1>6, SpansAre
<1>8. (e = i \/ e \in BodyLines(ls, i, m - 1, p)) /\ e <= m - 1 /\ e \in Nat
  <2>1. i \in Nat /\ m - 1 \in Nat /\ i <= m - 1
    BY <1>2, <1>5
  <2> QED
    BY <1>6, <2>1, SpanEndIs
<1> SUFFICES ASSUME ls[k].kind # "blank", ow[k] # i PROVE FALSE
  OBVIOUS
<1>9. k \in (i + 1)..e /\ e # i
  BY <1>2, <1>3, <1>7, <1>8
<1>10. ~EndsBody(ls, i, k, p)
  BY <1>8, <1>9 DEF BodyLines
<1>11. k \in 1..Len(ls) /\ i < k /\ k < m
  BY <1>1, <1>2, <1>5, <1>8, <1>9
<1>12. LineMeant(ls, pa, ow, p, k)
  BY <1>11 DEF LinesMeant
<1>13. CASE ow[k] = 0
  <2>1. Separates(ls[k], p)
    BY <1>12, <1>13 DEF LineMeant
  <2>2. ls[i].indent \in 0..1
    BY <1>2, TextsAre
  <2>3. ~(ls[k].indent > ls[i].indent) /\ ls[k].kind # "bar" /\ IsTrailer(ls[k], p)
    BY <1>11, <2>1, <2>2 DEF Separates
  <2>4. k \notin ContinuationLinesFor(ls, p)
    BY <2>1, StartsAre DEF Separates
  <2> QED
    BY <1>10, <2>3, <2>4 DEF EndsBody
<1>14. CASE ow[k] # 0
  <2>1. PICK o : o = ow[k]
    OBVIOUS
  <2>2. o \in 1..k /\ Starts(ls[o], p) /\ AllOf(ls, ow, o, k)
    BY <1>12, <1>14, <2>1 DEF LineMeant
  <2>3. o \in DeclStarts(ls, p)
    BY <1>1, <1>11, <2>2, StartsAre
  <2>4. ~(o > i)
    BY <1>5, <1>11, <2>2, <2>3
  <2>5. o < i
    BY <1>2, <2>1, <2>2, <2>4
  <2>6. i \in (o + 1)..k
    BY <1>2, <1>11, <2>2, <2>5
  <2> QED
    BY <1>3, <2>2, <2>5, <2>6 DEF AllOf
<1> QED
  BY <1>13, <1>14

-----------------------------------------------------------------------------
(* The walk over the scopes.  It is one function of the lines, and one     *)
(* more line is one more step of it.                                       *)

WalkStep(f, ls, i, p) ==
    IF i = 0 THEN [stack |-> << >>, pending |-> NoScope]
    ELSE IF i \in ContinuationLinesFor(ls, p) THEN f[i - 1]
    ELSE WalkLine(f[i - 1], ls[i], p)

\* f is the state of the walk after each line.
Walked(f, ls, p) == f = [i \in 0..Len(ls) |-> WalkStep(f, ls, i, p)]

LEMMA WalkIsOne ==
    ASSUME NEW ls, NEW p, NEW f, NEW h, Len(ls) \in Nat, Walked(f, ls, p), Walked(h, ls, p)
    PROVE  f = h
<1> DEFINE S == {i \in Nat : i <= Len(ls) => f[i] = h[i]}
<1>1. \A i \in 0..Len(ls) : f[i] = WalkStep(f, ls, i, p) /\ h[i] = WalkStep(h, ls, i, p)
  BY DEF Walked
<1>2. 0 \in S
  BY <1>1 DEF WalkStep
<1>3. ASSUME NEW n \in Nat, n \in S PROVE n + 1 \in S
  <2> SUFFICES ASSUME n + 1 <= Len(ls) PROVE f[n + 1] = h[n + 1]
    OBVIOUS
  <2>1. f[n] = h[n] /\ n + 1 \in 0..Len(ls) /\ (n + 1) - 1 = n /\ n + 1 # 0
    BY <1>3
  <2>2. WalkStep(f, ls, n + 1, p) = WalkStep(h, ls, n + 1, p)
    BY <2>1 DEF WalkStep
  <2> QED
    BY <1>1, <2>1, <2>2
<1> HIDE DEF S
<1>4. Nat \subseteq S
  BY <1>2, <1>3, SetInduction
<1>5. \A i \in 0..Len(ls) : f[i] = h[i]
  BY <1>4 DEF S
<1>6. /\ f = [i \in 0..Len(ls) |-> f[i]]
      /\ h = [i \in 0..Len(ls) |-> h[i]]
  BY DEF Walked
<1> QED
  BY <1>5, <1>6

\* The keys are those of the scopes in f.
KeysOf(keys, ls, p, f) ==
    keys = [i \in {k \in 1..Len(ls) : Starts(ls[k], p)} |->
                ScopePath(IF ls[i].declared THEN f[i - 1].stack ELSE f[i].stack, ls, i)]

LEMMA QualifyIs ==
    ASSUME NEW ls, NEW p, NEW f, Len(ls) \in Nat, Walked(f, ls, p)
    PROVE  KeysOf(QualifyDeclNames(ls, p), ls, p, f)
<1>1. PICK c : c = CHOOSE h : Walked(h, ls, p)
  OBVIOUS
<1>2. Walked(c, ls, p)
  BY <1>1
<1>3. c = f
  BY <1>2, WalkIsOne
<1>4. QualifyDeclNames(ls, p) =
        [i \in {k \in 1..Len(ls) : k \notin ContinuationLinesFor(ls, p) /\ IsDecl(ls[k])} |->
            ScopePath(IF ls[i].declared THEN c[i - 1].stack ELSE c[i].stack, ls, i)]
  BY <1>1 DEF QualifyDeclNames, Walked, WalkStep
<1>5. {k \in 1..Len(ls) : k \notin ContinuationLinesFor(ls, p) /\ IsDecl(ls[k])}
        = {k \in 1..Len(ls) : Starts(ls[k], p)}
  BY StartsAre DEF Starts
<1> QED
  BY <1>3, <1>4, <1>5 DEF KeysOf

LEMMA WalkExtends ==
    ASSUME NEW ls \in Seq(LineSet), NEW line \in LineSet, NEW p, NEW f, Walked(f, ls, p)
    PROVE  \E h : /\ Walked(h, Append(ls, line), p)
                  /\ \A i \in 0..Len(ls) : h[i] = f[i]
                  /\ h[Len(ls) + 1] = IF p = "isabelle" /\ line.quoted THEN f[Len(ls)]
                                      ELSE WalkLine(f[Len(ls)], line, p)
<1> DEFINE n == Len(ls)
           last == IF p = "isabelle" /\ line.quoted THEN f[n] ELSE WalkLine(f[n], line, p)
<1>1. PICK l : l = Append(ls, line)
  OBVIOUS
<1>2. n \in Nat /\ Len(l) = n + 1 /\ (\A k \in 1..n : l[k] = ls[k]) /\ l[n + 1] = line
  BY <1>1, AppendIs
<1> HIDE DEF n, last
<1>3. PICK h : h = [i \in 0..(n + 1) |-> IF i <= n THEN f[i] ELSE last]
  OBVIOUS
<1>4. (\A i \in 0..n : h[i] = f[i]) /\ h[n + 1] = last
  BY <1>2, <1>3
<1>5. \A i \in 1..n : i \in ContinuationLinesFor(l, p) <=> i \in ContinuationLinesFor(ls, p)
  BY <1>2 DEF ContinuationLinesFor, n
<1>6. n + 1 \in ContinuationLinesFor(l, p) <=> p = "isabelle" /\ line.quoted
  BY <1>2 DEF ContinuationLinesFor
<1>7. \A i \in 0..n : f[i] = WalkStep(f, ls, i, p)
  BY DEF Walked, n
<1>8. ASSUME NEW i \in 0..n PROVE h[i] = WalkStep(h, l, i, p)
  <2>1. CASE i = 0
    BY <1>4, <1>7, <2>1 DEF WalkStep
  <2>2. CASE i # 0
    <3>1. i \in 1..n /\ i - 1 \in 0..n
      BY <1>2, <2>2
    <3>2. h[i] = f[i] /\ h[i - 1] = f[i - 1] /\ l[i] = ls[i]
      BY <1>2, <1>4, <3>1
    <3> QED
      BY <1>5, <1>7, <2>2, <3>1, <3>2 DEF WalkStep
  <2> QED
    BY <2>1, <2>2
<1>9. h[n + 1] = WalkStep(h, l, n + 1, p)
  <2>1. n + 1 # 0 /\ (n + 1) - 1 = n /\ h[n] = f[n]
    BY <1>2, <1>4
  <2> QED
    BY <1>2, <1>4, <1>6, <2>1 DEF WalkStep, last
<1>10. Walked(h, l, p)
  <2>1. \A i \in 0..(n + 1) : i \in 0..n \/ i = n + 1
    BY <1>2
  <2>2. \A i \in 0..(n + 1) : h[i] = WalkStep(h, l, i, p)
    BY <1>8, <1>9, <2>1
  <2>3. h = [i \in 0..(n + 1) |-> h[i]]
    BY <1>3
  <2>4. h = [i \in 0..(n + 1) |-> WalkStep(h, l, i, p)]
    BY <2>2, <2>3
  <2> QED
    BY <1>2, <2>4 DEF Walked
<1> QED
  BY <1>1, <1>4, <1>10 DEF n, last

\* The prefix of a key, from the scopes that are open.
PrefixOf(stack, line) ==
    CASE line.target = NoTarget     -> Qualifiers(stack)
      [] line.target = GlobalTarget -> << >>
      [] OTHER                      -> <<<<line.target>>>>

LEMMA ScopePathIs ==
    ASSUME NEW stack, NEW ls, NEW i
    PROVE  ScopePath(stack, ls, i) = <<PrefixOf(stack, ls[i]), DeclNameFrom(ls, i)>>
BY DEF ScopePath, PrefixOf

\* The walk leaves `state`, and has found the prefixes that the author means.
WalkMeant(ls, pa, state, p) ==
    \E f : /\ Walked(f, ls, p) /\ f[Len(ls)] = state
           /\ \A i \in 1..Len(ls) : Starts(ls[i], p) =>
                pa[i][1] = PrefixOf(IF ls[i].declared THEN f[i - 1].stack ELSE f[i].stack, ls[i])

LEMMA OneMoreWalked ==
    ASSUME NEW ls, NEW pa, NEW ow, NEW p, NEW line \in LineSet, NEW path \in PathSet,
           NEW state, NEW next, Texts(ls, pa, ow), WalkMeant(ls, pa, state, p),
           next = IF p = "isabelle" /\ line.quoted THEN state ELSE WalkLine(state, line, p),
           Starts(line, p) =>
                path[1] = PrefixOf(IF line.declared THEN state.stack ELSE next.stack, line)
    PROVE  WalkMeant(Append(ls, line), Append(pa, path), next, p)
<1> DEFINE n == Len(ls)
<1>1. PICK l, q : l = Append(ls, line) /\ q = Append(pa, path)
  OBVIOUS
<1>2. n \in Nat /\ Len(l) = n + 1 /\ (\A k \in 1..n : l[k] = ls[k]) /\ l[n + 1] = line
  BY <1>1, AppendIs DEF Texts
<1>3. (\A k \in 1..n : q[k] = pa[k]) /\ q[n + 1] = path
  BY <1>1, AppendIs DEF Texts
<1>4. PICK f : /\ Walked(f, ls, p) /\ f[n] = state
               /\ \A i \in 1..n : Starts(ls[i], p) =>
                    pa[i][1] = PrefixOf(IF ls[i].declared THEN f[i - 1].stack ELSE f[i].stack, ls[i])
  BY DEF WalkMeant
<1>5. PICK h : /\ Walked(h, l, p) /\ (\A i \in 0..n : h[i] = f[i])
               /\ h[n + 1] = IF p = "isabelle" /\ line.quoted THEN f[n] ELSE WalkLine(f[n], line, p)
  BY <1>1, <1>4, WalkExtends DEF Texts
<1> HIDE DEF n
<1>6. h[n + 1] = next /\ h[n] = state
  BY <1>2, <1>4, <1>5
<1>7. ASSUME NEW i \in 1..n, Starts(l[i], p)
      PROVE  q[i][1] = PrefixOf(IF l[i].declared THEN h[i - 1].stack ELSE h[i].stack, l[i])
  <2>1. l[i] = ls[i] /\ q[i] = pa[i]
    BY <1>2, <1>3
  <2>2. h[i] = f[i] /\ h[i - 1] = f[i - 1]
    <3>1. i \in 0..n /\ i - 1 \in 0..n
      BY <1>2
    <3> QED
      BY <1>5, <3>1
  <2> QED
    BY <1>4, <1>7, <2>1, <2>2
<1>8. Starts(l[n + 1], p) =>
        q[n + 1][1] = PrefixOf(IF l[n + 1].declared THEN h[(n + 1) - 1].stack
                               ELSE h[n + 1].stack, l[n + 1])
  <2>1. (n + 1) - 1 = n
    BY <1>2
  <2>2. l[n + 1] = line /\ q[n + 1] = path
    BY <1>2, <1>3
  <2> QED
    BY <1>6, <2>1, <2>2
<1>9. \A i \in 1..(n + 1) : i \in 1..n \/ i = n + 1
  BY <1>2
<1>10. WalkMeant(l, q, next, p)
  <2>1. \A i \in 1..(n + 1) : Starts(l[i], p) =>
          q[i][1] = PrefixOf(IF l[i].declared THEN h[i - 1].stack ELSE h[i].stack, l[i])
    BY <1>7, <1>8, <1>9
  <2> QED
    BY <1>2, <1>5, <1>6, <2>1 DEF WalkMeant
<1> QED
  BY <1>1, <1>10

-----------------------------------------------------------------------------
(* The scopes that the walk sees.                                          *)

SeenAs(e, p) ==
    [contributes |-> e.contributes,
     name |-> IF e.contributes \/ p = "lean4" THEN e.name ELSE NoName]
Seen(sc, p) == [k \in 1..Len(sc) |-> SeenAs(sc[k], p)]

ScopesMeant(sc, p) ==
    /\ sc \in Seq(ScopeSet)
    /\ p # "isabelle" => \A k \in 1..Len(sc) : sc[k].name # NoName
    /\ p = "rocq" => \A j, k \in 1..Len(sc) : j < k => sc[j].name # sc[k].name

LEMMA SeenAsScope ==
    ASSUME NEW e \in ScopeSet, NEW p
    PROVE  SeenAs(e, p) \in ScopeSet
<1>1. e.contributes \in BOOLEAN /\ e.name \in Seq(Chars) /\ NoName \in Seq(Chars)
  BY NamesAreChars DEF ScopeSet
<1>2. PICK m : m = IF e.contributes \/ p = "lean4" THEN e.name ELSE NoName
  OBVIOUS
<1>3. m \in Seq(Chars)
  BY <1>1, <1>2
<1>4. [contributes |-> e.contributes, name |-> m] \in ScopeSet
  BY <1>1, <1>3 DEF ScopeSet
<1> QED
  BY <1>2, <1>4 DEF SeenAs

LEMMA SeenIs ==
    ASSUME NEW sc \in Seq(ScopeSet), NEW p
    PROVE  /\ Seen(sc, p) \in Seq(ScopeSet) /\ Len(Seen(sc, p)) = Len(sc)
           /\ \A k \in 1..Len(sc) : Seen(sc, p)[k] = SeenAs(sc[k], p)
<1>1. \A k \in 1..Len(sc) : SeenAs(sc[k], p) \in ScopeSet
  BY SeenAsScope
<1>2. Len(sc) \in Nat
  OBVIOUS
<1>3. PICK s : s = [k \in 1..Len(sc) |-> SeenAs(sc[k], p)]
  OBVIOUS
<1>4. \A k \in 1..Len(sc) : s[k] = SeenAs(sc[k], p)
  BY <1>3
<1>5. s \in [1..Len(sc) -> ScopeSet]
  BY <1>1, <1>3
<1>6. s \in Seq(ScopeSet) /\ Len(s) = Len(sc)
  BY <1>2, <1>5
<1> QED
  BY <1>3, <1>4, <1>6 DEF Seen

LEMMA SeenQualifies ==
    ASSUME NEW sc \in Seq(ScopeSet), NEW p
    PROVE  Qualifiers(Seen(sc, p)) = Qualifiers(sc)
<1>1. PICK s : s = Seen(sc, p)
  OBVIOUS
<1>2. s \in Seq(ScopeSet) /\ Len(s) = Len(sc) /\ \A k \in 1..Len(sc) : s[k] = SeenAs(sc[k], p)
  BY <1>1, SeenIs
<1>3. DOMAIN s = DOMAIN sc /\ DOMAIN sc = 1..Len(sc)
  BY <1>2
<1>4. \A k \in DOMAIN sc : (IF s[k].contributes THEN s[k].name ELSE NoName)
                             = (IF sc[k].contributes THEN sc[k].name ELSE NoName)
  BY <1>2, <1>3 DEF SeenAs
<1>5. [k \in DOMAIN s |-> IF s[k].contributes THEN s[k].name ELSE NoName]
        = [k \in DOMAIN sc |-> IF sc[k].contributes THEN sc[k].name ELSE NoName]
  BY <1>3, <1>4
<1> QED
  BY <1>1, <1>5 DEF Qualifiers

LEMMA SeenGrows ==
    ASSUME NEW sc \in Seq(ScopeSet), NEW e \in ScopeSet, NEW p
    PROVE  Append(Seen(sc, p), SeenAs(e, p)) = Seen(Append(sc, e), p)
<1>1. PICK s : s = Seen(sc, p)
  OBVIOUS
<1>2. s \in Seq(ScopeSet) /\ Len(s) = Len(sc) /\ \A k \in 1..Len(sc) : s[k] = SeenAs(sc[k], p)
  BY <1>1, SeenIs
<1>3. PICK t : t = Append(sc, e)
  OBVIOUS
<1>4. t \in Seq(ScopeSet) /\ Len(t) = Len(sc) + 1 /\ (\A k \in 1..Len(sc) : t[k] = sc[k])
      /\ t[Len(sc) + 1] = e
  BY <1>3, AppendIs
<1>5. PICK u : u = Seen(t, p)
  OBVIOUS
<1>6. u \in Seq(ScopeSet) /\ Len(u) = Len(t) /\ \A k \in 1..Len(t) : u[k] = SeenAs(t[k], p)
  BY <1>4, <1>5, SeenIs
<1>7. SeenAs(e, p) \in ScopeSet
  BY SeenAsScope
<1>8. PICK v : v = Append(s, SeenAs(e, p))
  OBVIOUS
<1>9. v \in Seq(ScopeSet) /\ Len(v) = Len(s) + 1 /\ (\A k \in 1..Len(s) : v[k] = s[k])
      /\ v[Len(s) + 1] = SeenAs(e, p)
  BY <1>2, <1>7, <1>8, AppendIs
<1>10. Len(sc) \in Nat
  OBVIOUS
<1>11. \A k \in 1..Len(v) : v[k] = u[k]
  BY <1>2, <1>4, <1>6, <1>9, <1>10
<1>12. v = u
  BY <1>2, <1>4, <1>6, <1>9, <1>11, SeqsEqual
<1> QED
  BY <1>1, <1>3, <1>5, <1>8, <1>12

LEMMA FrontIs ==
    ASSUME NEW S, NEW s \in Seq(S), Len(s) > 0
    PROVE  /\ Front(s) \in Seq(S) /\ Len(Front(s)) = Len(s) - 1
           /\ \A k \in 1..(Len(s) - 1) : Front(s)[k] = s[k]
<1>1. PICK m : m = Len(s) - 1
  OBVIOUS
<1>2. m \in Nat /\ Len(s) \in Nat /\ m <= Len(s)
  BY <1>1
<1>3. PICK t : t = SubSeq(s, 1, m)
  OBVIOUS
<1>4. t \in Seq(S)
  BY <1>2, <1>3
<1>5. Len(t) = m
  BY <1>2, <1>3
<1>6. \A k \in 1..m : t[k] = s[k]
  BY <1>2, <1>3
<1> QED
  BY <1>1, <1>3, <1>4, <1>5, <1>6 DEF Front

LEMMA SeenShrinks ==
    ASSUME NEW sc \in Seq(ScopeSet), NEW p, Len(sc) > 0
    PROVE  Front(Seen(sc, p)) = Seen(Front(sc), p)
<1>1. PICK s : s = Seen(sc, p)
  OBVIOUS
<1>2. s \in Seq(ScopeSet) /\ Len(s) = Len(sc) /\ \A k \in 1..Len(sc) : s[k] = SeenAs(sc[k], p)
  BY <1>1, SeenIs
<1>3. PICK t : t = Front(sc)
  OBVIOUS
<1>4. t \in Seq(ScopeSet) /\ Len(t) = Len(sc) - 1 /\ \A k \in 1..(Len(sc) - 1) : t[k] = sc[k]
  BY <1>3, FrontIs
<1>5. PICK u : u = Seen(t, p)
  OBVIOUS
<1>6. u \in Seq(ScopeSet) /\ Len(u) = Len(t) /\ \A k \in 1..Len(t) : u[k] = SeenAs(t[k], p)
  BY <1>4, <1>5, SeenIs
<1>7. PICK v : v = Front(s)
  OBVIOUS
<1>8. v \in Seq(ScopeSet) /\ Len(v) = Len(s) - 1 /\ \A k \in 1..(Len(s) - 1) : v[k] = s[k]
  BY <1>2, <1>7, FrontIs
<1>9. Len(sc) \in Nat
  OBVIOUS
<1>10. \A k \in 1..Len(v) : v[k] = u[k]
  BY <1>2, <1>4, <1>6, <1>8, <1>9
<1>11. v = u
  BY <1>2, <1>4, <1>6, <1>8, <1>10, SeqsEqual
<1> QED
  BY <1>1, <1>3, <1>5, <1>7, <1>11

LEMMA LastRemoved ==
    ASSUME NEW S, NEW s \in Seq(S), Len(s) > 0
    PROVE  RemoveAt(s, Len(s)) = Front(s)
<1>1. SubSeq(s, Len(s) + 1, Len(s)) = << >>
  OBVIOUS
<1>2. SubSeq(s, 1, Len(s) - 1) \in Seq(S)
  OBVIOUS
<1>3. SubSeq(s, 1, Len(s) - 1) \o << >> = SubSeq(s, 1, Len(s) - 1)
  BY <1>2
<1> QED
  BY <1>1, <1>3 DEF RemoveAt, Front

\* A closer closes the innermost scope, by name or without.
LEMMA PopsInnermost ==
    ASSUME NEW sc, NEW p \in {"lean4", "rocq", "isabelle"}, ScopesMeant(sc, p), Len(sc) > 0, NEW name,
           name = NoName \/ (p # "isabelle" /\ name = sc[Len(sc)].name)
    PROVE  PopScope(Seen(sc, p), name) = Seen(Front(sc), p)
<1>1. PICK s : s = Seen(sc, p)
  OBVIOUS
<1>2. PICK n : n = Len(sc)
  OBVIOUS
<1>3. sc \in Seq(ScopeSet) /\ n \in Nat /\ n \in 1..n
  BY <1>2 DEF ScopesMeant
<1>4. s \in Seq(ScopeSet) /\ Len(s) = n /\ \A k \in 1..n : s[k] = SeenAs(sc[k], p)
  BY <1>1, <1>2, <1>3, SeenIs
<1>5. Front(s) = Seen(Front(sc), p)
  BY <1>1, <1>3, SeenShrinks
<1>6. s # << >>
  BY <1>3, <1>4
<1> DEFINE matching == {i \in 1..Len(s) : name # NoName /\ s[i].name = name}
<1>7. PopScope(s, name) = IF matching = {} THEN Front(s) ELSE RemoveAt(s, Max(matching))
  BY <1>6 DEF PopScope
<1>8. CASE name = NoName
  <2>1. matching = {}
    BY <1>8
  <2> QED
    BY <1>1, <1>5, <1>7, <2>1
<1>9. CASE name # NoName /\ SeenAs(sc[n], p).name = name
  <2>1. n \in matching /\ matching \in SUBSET (0..n)
    BY <1>3, <1>4, <1>9
  <2>2. Max(matching) = n
    <3>1. PICK m : m = Max(matching)
      OBVIOUS
    <3>2. n \in matching /\ matching \in SUBSET (0..n) /\ matching # {}
      BY <2>1
    <3> HIDE DEF matching
    <3>3. m \in matching /\ \A y \in matching : y <= m
      BY <1>3, <3>1, <3>2, GreatestIs
    <3>4. m \in 0..n /\ n <= m
      BY <3>2, <3>3
    <3> QED
      BY <1>3, <3>1, <3>4
  <2>3. RemoveAt(s, n) = Front(s)
    BY <1>3, <1>4, LastRemoved
  <2> QED
    BY <1>1, <1>5, <1>7, <2>1, <2>2, <2>3
<1>10. CASE name # NoName /\ SeenAs(sc[n], p).name # name
  <2>1. p # "isabelle" /\ name = sc[n].name
    BY <1>2, <1>10
  <2>2. ~sc[n].contributes /\ p # "lean4"
    BY <1>10, <2>1 DEF SeenAs
  <2>3. matching = {}
    <3> SUFFICES ASSUME NEW i \in 1..n, s[i].name = name PROVE FALSE
      BY <1>4
    <3>1. SeenAs(sc[i], p).name = name
      BY <1>4
    <3>2. sc[i].contributes /\ sc[i].name = sc[n].name
      BY <1>10, <2>1, <2>2, <3>1 DEF SeenAs
    <3>3. i # n
      BY <2>2, <3>2
    <3>4. i < n
      BY <1>3, <3>3
    <3>5. p = "rocq"
      BY <2>1, <2>2
    <3>6. \A j, k \in 1..Len(sc) : j < k => sc[j].name # sc[k].name
      BY <3>5 DEF ScopesMeant
    <3> QED
      BY <1>2, <1>3, <3>2, <3>4, <3>6
  <2> QED
    BY <1>1, <1>5, <1>7, <2>3
<1> QED
  BY <1>8, <1>9, <1>10

-----------------------------------------------------------------------------
(* The names of declarations.                                              *)

LaterLines(ls, i) == {j \in (i + 1)..Len(ls) : ls[j].kind # "blank"}

\* Declaration i is named, by its line or by a later one, as the author means.
NameMeant(ls, pa, i) ==
    pa[i] # NoPath =>
        /\ pa[i][2] = DeclNameFrom(ls, i)
        /\ ls[i].name # NoName \/ LaterLines(ls, i) # {}

LEMMA NameFromIs ==
    ASSUME NEW ls, NEW i
    PROVE  DeclNameFrom(ls, i) =
             IF ls[i].name # NoName THEN NormalizeDeclName(ls[i].name)
             ELSE IF LaterLines(ls, i) = {} THEN <<"keyword">>
             ELSE NormalizeDeclName(ls[Min(LaterLines(ls, i))].name)
BY DEF DeclNameFrom, LaterLines

LEMMA NameStays ==
    ASSUME NEW ls \in Seq(LineSet), NEW pa \in Seq(PathSet), Len(pa) = Len(ls),
           NEW line \in LineSet, NEW path \in PathSet,
           NEW i \in 1..Len(ls), NameMeant(ls, pa, i)
    PROVE  NameMeant(Append(ls, line), Append(pa, path), i)
<1>1. PICK l, q, n : l = Append(ls, line) /\ q = Append(pa, path) /\ n = Len(ls)
  OBVIOUS
<1>2. n \in Nat /\ Len(l) = n + 1 /\ (\A k \in 1..n : l[k] = ls[k]) /\ l[n + 1] = line
  BY <1>1, AppendIs
<1>3. q[i] = pa[i] /\ l[i] = ls[i] /\ i \in 1..n
  BY <1>1, <1>2, AppendIs
<1> SUFFICES ASSUME pa[i] # NoPath PROVE q[i][2] = DeclNameFrom(l, i)
                                         /\ (l[i].name # NoName \/ LaterLines(l, i) # {})
  BY <1>1, <1>3 DEF NameMeant
<1>4. pa[i][2] = DeclNameFrom(ls, i) /\ (ls[i].name # NoName \/ LaterLines(ls, i) # {})
  BY DEF NameMeant
<1>5. CASE ls[i].name # NoName
  BY <1>3, <1>4, <1>5, NameFromIs
<1>6. CASE ls[i].name = NoName
  <2>1. LaterLines(ls, i) # {}
    BY <1>4, <1>6
  <2>2. PICK m : m = Min(LaterLines(ls, i))
    OBVIOUS
  <2>3. m \in LaterLines(ls, i) /\ \A y \in LaterLines(ls, i) : m <= y
    <3>1. LaterLines(ls, i) \in SUBSET Nat
      BY <1>1, <1>2, <1>3 DEF LaterLines
    <3> QED
      BY <2>1, <2>2, <3>1, LeastIs
  <2>4. m \in (i + 1)..n /\ l[m] = ls[m]
    BY <1>1, <1>2, <1>3, <2>3 DEF LaterLines
  <2>5. m \in LaterLines(l, i)
    BY <1>2, <1>3, <2>3, <2>4 DEF LaterLines
  <2>6. \A y \in LaterLines(l, i) : m <= y
    <3> SUFFICES ASSUME NEW y \in LaterLines(l, i) PROVE m <= y
      OBVIOUS
    <3>1. y \in (i + 1)..(n + 1) /\ l[y].kind # "blank"
      BY <1>2 DEF LaterLines
    <3>2. CASE y = n + 1
      BY <1>2, <1>3, <2>4, <3>2
    <3>3. CASE y # n + 1
      <4>1. y \in (i + 1)..n /\ y \in 1..n
        BY <1>2, <1>3, <3>1, <3>3
      <4>2. y \in LaterLines(ls, i)
        BY <1>1, <1>2, <3>1, <4>1 DEF LaterLines
      <4> QED
        BY <2>3, <4>2
    <3> QED
      BY <3>2, <3>3
  <2>7. PICK w : w = Min(LaterLines(l, i))
    OBVIOUS
  <2>8. w \in LaterLines(l, i) /\ \A y \in LaterLines(l, i) : w <= y
    <3>1. LaterLines(l, i) \in SUBSET Nat /\ LaterLines(l, i) # {}
      BY <1>2, <1>3, <2>5 DEF LaterLines
    <3> QED
      BY <2>7, <3>1, LeastIs
  <2>9. w = m
    <3>1. w <= m /\ m <= w
      BY <2>5, <2>6, <2>8
    <3>2. w \in Nat /\ m \in Nat
      BY <1>2, <1>3, <2>4, <2>8 DEF LaterLines
    <3> QED
      BY <3>1, <3>2
  <2>10. DeclNameFrom(ls, i) = NormalizeDeclName(ls[m].name)
    BY <1>6, <2>1, <2>2, NameFromIs
  <2>11. DeclNameFrom(l, i) = NormalizeDeclName(l[m].name)
    BY <1>3, <1>6, <2>5, <2>7, <2>9, NameFromIs
  <2> QED
    BY <1>3, <1>4, <2>4, <2>5, <2>10, <2>11
<1> QED
  BY <1>5, <1>6

\* What the author has typed, and where the walk over it has come to.
Typed(ls, pa, ow, cu, p, state) ==
    /\ Texts(ls, pa, ow) /\ LinesMeant(ls, pa, ow, p)
    /\ cu \in 0..Len(ls) /\ CurrentMeant(ls, ow, p, cu)
    /\ WalkMeant(ls, pa, state, p)

NamesMeant(ls, pa, n) == \A i \in 1..n : NameMeant(ls, pa, i)

LEMMA NamesStay ==
    ASSUME NEW ls, NEW pa, NEW ow, Texts(ls, pa, ow), NEW n \in 0..Len(ls),
           NamesMeant(ls, pa, n), NEW line \in LineSet, NEW path \in PathSet
    PROVE  NamesMeant(Append(ls, line), Append(pa, path), n)
<1>1. Len(ls) \in Nat
  BY TextsAre
<1>2. ASSUME NEW i \in 1..n PROVE NameMeant(Append(ls, line), Append(pa, path), i)
  <2>1. i \in 1..Len(ls) /\ NameMeant(ls, pa, i)
    BY <1>1 DEF NamesMeant
  <2>2. ls \in Seq(LineSet) /\ pa \in Seq(PathSet) /\ Len(pa) = Len(ls)
    BY DEF Texts
  <2> QED
    BY <2>1, <2>2, NameStays
<1> QED
  BY <1>2 DEF NamesMeant

LEMMA OneMoreTyped ==
    ASSUME NEW ls, NEW pa, NEW ow, NEW cu, NEW p, NEW state, NEW next,
           NEW line \in LineSet, NEW path \in PathSet, NEW owner \in Nat, NEW after \in Nat,
           Typed(ls, pa, ow, cu, p, state), Fits(line, path, owner, after, ls, cu, p),
           next = IF p = "isabelle" /\ line.quoted THEN state ELSE WalkLine(state, line, p),
           Starts(line, p) =>
                path[1] = PrefixOf(IF line.declared THEN state.stack ELSE next.stack, line)
    PROVE  Typed(Append(ls, line), Append(pa, path), Append(ow, owner), after, p, next)
<1>1. /\ Texts(ls, pa, ow) /\ LinesMeant(ls, pa, ow, p) /\ cu \in 0..Len(ls)
      /\ CurrentMeant(ls, ow, p, cu) /\ WalkMeant(ls, pa, state, p)
  BY DEF Typed
<1>2. WalkMeant(Append(ls, line), Append(pa, path), next, p)
  BY <1>1, OneMoreWalked
<1>3. /\ Texts(Append(ls, line), Append(pa, path), Append(ow, owner))
      /\ LinesMeant(Append(ls, line), Append(pa, path), Append(ow, owner), p)
      /\ after \in 0..(Len(ls) + 1) /\ Len(Append(ls, line)) = Len(ls) + 1
      /\ CurrentMeant(Append(ls, line), Append(ow, owner), p, after)
  BY <1>1, OneMoreLine
<1> QED
  BY <1>2, <1>3 DEF Typed

\* A line that names what it declares, or declares nothing.
LEMMA OneMoreNamed ==
    ASSUME NEW ls, NEW pa, NEW ow, Texts(ls, pa, ow), NamesMeant(ls, pa, Len(ls)),
           NEW line \in LineSet, NEW path \in PathSet,
           path # NoPath => line.name # NoName /\ path[2] = NormalizeDeclName(line.name)
    PROVE  NamesMeant(Append(ls, line), Append(pa, path), Len(Append(ls, line)))
<1>1. PICK l, q, n : l = Append(ls, line) /\ q = Append(pa, path) /\ n = Len(ls)
  OBVIOUS
<1>2. n \in Nat /\ Len(l) = n + 1 /\ l[n + 1] = line /\ q[n + 1] = path
  BY <1>1, AppendIs DEF Texts
<1>3. NamesMeant(l, q, n)
  <2>1. n \in 0..Len(ls)
    BY <1>1, <1>2
  <2> QED
    BY <1>1, <2>1, NamesStay
<1>4. NameMeant(l, q, n + 1)
  BY <1>2, NameFromIs DEF NameMeant
<1>5. \A i \in 1..(n + 1) : i \in 1..n \/ i = n + 1
  BY <1>2
<1> QED
  BY <1>1, <1>2, <1>3, <1>4, <1>5 DEF NamesMeant

-----------------------------------------------------------------------------
(* The author's steps.                                                     *)

Provers == {"lean4", "rocq", "isabelle"}

StateOf(sc, p, q) == [stack |-> Seen(sc, p), pending |-> q]

\* All that was typed is as it was meant, and the walk over it sees the scopes
\* that are open.
Core(ls, pa, ow, cu, p, sc, q) ==
    /\ p \in Provers /\ ScopesMeant(sc, p)
    /\ Typed(ls, pa, ow, cu, p, StateOf(sc, p, q))
    /\ NamesMeant(ls, pa, Len(ls))

\* The walk has armed the locale whose begin is still to come.
HeaderMeant(hd, sc, p, q) ==
    hd # NoScope => /\ p = "isabelle" /\ sc = << >> /\ q = hd
                    /\ hd \in ScopeSet /\ hd.contributes = TRUE

SpansInv ==
    \E q : /\ Core(lines, paths, owners, current, spanProver, scopes, q)
           /\ HeaderMeant(header, scopes, spanProver, q)

LEMMA PrefixSeen ==
    ASSUME NEW sc \in Seq(ScopeSet), NEW p, NEW line
    PROVE  PrefixOf(Seen(sc, p), line) = PrefixOf(sc, line)
BY SeenQualifies DEF PrefixOf

LEMMA OneMoreCore ==
    ASSUME NEW ls, NEW pa, NEW ow, NEW cu, NEW p, NEW sc, NEW q, NEW sc2, NEW q2,
           NEW line \in LineSet, NEW path \in PathSet, NEW owner \in Nat, NEW after \in Nat,
           Core(ls, pa, ow, cu, p, sc, q), Fits(line, path, owner, after, ls, cu, p),
           ScopesMeant(sc2, p),
           StateOf(sc2, p, q2) = IF p = "isabelle" /\ line.quoted THEN StateOf(sc, p, q)
                                 ELSE WalkLine(StateOf(sc, p, q), line, p),
           path # NoPath =>
             /\ path[1] = PrefixOf(IF line.declared THEN sc ELSE sc2, line)
             /\ line.name # NoName /\ path[2] = NormalizeDeclName(line.name)
    PROVE  Core(Append(ls, line), Append(pa, path), Append(ow, owner), after, p, sc2, q2)
<1>1. PICK state, next : state = StateOf(sc, p, q) /\ next = StateOf(sc2, p, q2)
  OBVIOUS
<1>2. Typed(ls, pa, ow, cu, p, state) /\ NamesMeant(ls, pa, Len(ls)) /\ p \in Provers
      /\ sc \in Seq(ScopeSet) /\ sc2 \in Seq(ScopeSet) /\ Texts(ls, pa, ow)
  BY <1>1 DEF Core, ScopesMeant, Typed
<1>3. state.stack = Seen(sc, p) /\ next.stack = Seen(sc2, p)
  BY <1>1 DEF StateOf
<1>4. Starts(line, p) => path # NoPath
  BY DEF Fits
<1>5. Starts(line, p) =>
        path[1] = PrefixOf(IF line.declared THEN state.stack ELSE next.stack, line)
  BY <1>2, <1>3, <1>4, PrefixSeen
<1>6. Typed(Append(ls, line), Append(pa, path), Append(ow, owner), after, p, next)
  BY <1>1, <1>2, <1>5, OneMoreTyped
<1>7. NamesMeant(Append(ls, line), Append(pa, path), Len(Append(ls, line)))
  BY <1>2, OneMoreNamed
<1> QED
  BY <1>1, <1>2, <1>6, <1>7 DEF Core

LEMMA WalkStays ==
    ASSUME NEW sc, NEW p, NEW q, NEW line, line.kind \notin {"scope", "plain", "close"},
           line.begins = FALSE
    PROVE  WalkLine(StateOf(sc, p, q), line, p) = StateOf(sc, p, q)
<1>1. PICK s : s = Seen(sc, p)
  OBVIOUS
<1>2. WalkLine([stack |-> s, pending |-> q], line, p) = [stack |-> s, pending |-> q]
  BY DEF WalkLine
<1> QED
  BY <1>1, <1>2 DEF StateOf

\* A line that leaves the scopes and the walk alone.
LEMMA OneMoreSteady ==
    ASSUME NEW ls, NEW pa, NEW ow, NEW cu, NEW p, NEW sc, NEW q,
           NEW line \in LineSet, NEW path \in PathSet, NEW owner \in Nat, NEW after \in Nat,
           Core(ls, pa, ow, cu, p, sc, q), Fits(line, path, owner, after, ls, cu, p),
           \/ p = "isabelle" /\ line.quoted
           \/ line.kind \notin {"scope", "plain", "close"} /\ line.begins = FALSE,
           path # NoPath =>
             /\ path[1] = PrefixOf(sc, line)
             /\ line.name # NoName /\ path[2] = NormalizeDeclName(line.name)
    PROVE  Core(Append(ls, line), Append(pa, path), Append(ow, owner), after, p, sc, q)
<1>1. ScopesMeant(sc, p)
  BY DEF Core
<1>2. StateOf(sc, p, q) = IF p = "isabelle" /\ line.quoted THEN StateOf(sc, p, q)
                          ELSE WalkLine(StateOf(sc, p, q), line, p)
  BY WalkStays
<1> QED
  BY <1>1, <1>2, OneMoreCore

LEMMA CoreIs ==
    ASSUME NEW ls, NEW pa, NEW ow, NEW cu, NEW p, NEW sc, NEW q,
           Core(ls, pa, ow, cu, p, sc, q)
    PROVE  /\ Len(ls) \in Nat /\ cu \in 0..Len(ls) /\ cu \in Nat /\ p \in Provers
           /\ ScopesMeant(sc, p) /\ sc \in Seq(ScopeSet) /\ Texts(ls, pa, ow)
           /\ cu # 0 => Starts(ls[cu], p) /\ ls[cu].indent \in 0..1
<1>1. /\ p \in Provers /\ ScopesMeant(sc, p) /\ Texts(ls, pa, ow) /\ cu \in 0..Len(ls)
      /\ CurrentMeant(ls, ow, p, cu)
  BY DEF Core, Typed
<1>2. Len(ls) \in Nat /\ \A k \in 1..Len(ls) : ls[k].indent \in 0..1
  BY <1>1, TextsAre
<1>3. sc \in Seq(ScopeSet)
  BY <1>1 DEF ScopesMeant
<1>4. cu \in Nat
  BY <1>1, <1>2
<1>5. cu # 0 => Starts(ls[cu], p)
  BY <1>1 DEF CurrentMeant
<1>6. cu # 0 => cu \in 1..Len(ls)
  BY <1>1, <1>2
<1> QED
  BY <1>1, <1>2, <1>3, <1>4, <1>5, <1>6

LEMMA PathsAre ==
    ASSUME NEW sc \in Seq(ScopeSet), NEW n \in Seq(Chars)
    PROVE  /\ NoPath \in PathSet
           /\ <<Qualifiers(sc), n>> \in PathSet /\ <<Qualifiers(sc), n>> # NoPath
<1>1. NoPath \in PathSet
  BY DEF PathSet
<1>2. Qualifiers(sc) \in PathPrefixes
  BY DEF PathPrefixes
<1> QED
  BY <1>1, <1>2, PathIsPath

LEMMA SpansBegin == SpansInit => SpansInv
<1> SUFFICES ASSUME SpansInit PROVE SpansInv
  OBVIOUS
<1>1. /\ spanProver \in Provers /\ lines = << >> /\ scopes = << >> /\ paths = << >>
      /\ owners = << >> /\ header = NoScope /\ current = 0
  BY DEF SpansInit, Provers
<1>2. PICK ls : ls = << >>
  OBVIOUS
<1>3. ls \in Seq(LineSet) /\ ls \in Seq(PathSet) /\ ls \in Seq(Nat) /\ ls \in Seq(ScopeSet)
      /\ Len(ls) = 0
  BY <1>2
<1>4. Texts(ls, ls, ls) /\ LinesMeant(ls, ls, ls, spanProver)
      /\ CurrentMeant(ls, ls, spanProver, 0) /\ NamesMeant(ls, ls, 0)
  BY <1>3 DEF Texts, LinesMeant, CurrentMeant, NamesMeant
<1>5. ScopesMeant(ls, spanProver)
  BY <1>3 DEF ScopesMeant
<1>6. Seen(ls, spanProver) = << >>
  <2>1. PICK t : t = Seen(ls, spanProver)
    OBVIOUS
  <2>2. t \in Seq(ScopeSet) /\ Len(t) = 0
    BY <1>3, <2>1, SeenIs
  <2>3. t = << >>
    BY <2>2
  <2> QED
    BY <2>1, <2>3
<1>7. WalkMeant(ls, ls, StateOf(ls, spanProver, NoScope), spanProver)
  <2>1. PICK f : f = [i \in 0..0 |-> [stack |-> << >>, pending |-> NoScope]]
    OBVIOUS
  <2>2. f = [i \in 0..0 |-> WalkStep(f, ls, i, spanProver)]
    BY <2>1 DEF WalkStep
  <2>3. Walked(f, ls, spanProver)
    BY <1>3, <2>2 DEF Walked
  <2>4. f[Len(ls)] = StateOf(ls, spanProver, NoScope)
    BY <1>3, <1>6, <2>1 DEF StateOf
  <2> QED
    BY <1>3, <2>3, <2>4 DEF WalkMeant
<1>8. Typed(ls, ls, ls, 0, spanProver, StateOf(ls, spanProver, NoScope))
  BY <1>3, <1>4, <1>7 DEF Typed
<1>9. Core(ls, ls, ls, 0, spanProver, ls, NoScope)
  BY <1>1, <1>3, <1>4, <1>5, <1>8 DEF Core
<1>10. HeaderMeant(NoScope, ls, spanProver, NoScope)
  BY DEF HeaderMeant
<1> QED
  BY <1>1, <1>2, <1>9, <1>10 DEF SpansInv

LEMMA BodyTyped ==
    ASSUME SpansInv, TypeBody PROVE SpansInv'
<1>1. PICK q : /\ Core(lines, paths, owners, current, spanProver, scopes, q)
               /\ HeaderMeant(header, scopes, spanProver, q)
  BY DEF SpansInv
<1>2. PICK kind \in {"text", "bar"}, indent \in 0..1 :
        TypeLine([PlainLine(kind) EXCEPT !.indent = indent], NoPath, current)
  BY DEF TypeBody
<1>3. PICK line : line = [PlainLine(kind) EXCEPT !.indent = indent]
  OBVIOUS
<1>4. line \in LineSet /\ line.kind \in {"text", "bar"} /\ line.begins = FALSE
      /\ line.declared = FALSE
  <2>1. line =
         [kind |-> kind, name |-> NoName, indent |-> indent, target |-> NoTarget,
          declared |-> FALSE, begins |-> FALSE, quoted |-> FALSE]
    BY <1>3 DEF PlainLine
  <2>2. kind \in Kinds /\ NoName \in Seq(Chars) /\ NoTarget \in Targets
    BY NamesAreChars DEF Targets, Kinds
  <2> QED
    BY <2>1, <2>2, LineIs, NamesAreChars
<1>5. /\ lines' = Append(lines, line) /\ paths' = Append(paths, NoPath)
      /\ owners' = Append(owners, current) /\ current' = current
      /\ spanProver' = spanProver
  BY <1>2, <1>3 DEF TypeLine
<1>6. scopes' = scopes /\ header' = header /\ current # 0
  BY DEF TypeBody
<1>7. ~Starts(line, spanProver) /\ Follows(line, spanProver)
  BY <1>4 DEF Starts, IsDecl, Follows, IsTrailer
<1>8. Fits(line, NoPath, current, current, lines, current, spanProver)
  BY <1>6, <1>7 DEF Fits
<1>9. NoPath \in PathSet /\ current \in Nat
  BY <1>1, CoreIs DEF PathSet
<1>10. Core(lines', paths', owners', current', spanProver', scopes', q)
  BY <1>1, <1>4, <1>5, <1>6, <1>8, <1>9, OneMoreSteady
<1> QED
  BY <1>1, <1>5, <1>6, <1>10 DEF SpansInv

LEMMA QuotedTyped ==
    ASSUME SpansInv, TypeQuoted PROVE SpansInv'
<1>1. PICK q : /\ Core(lines, paths, owners, current, spanProver, scopes, q)
               /\ HeaderMeant(header, scopes, spanProver, q)
  BY DEF SpansInv
<1>2. PICK kind \in {"decl", "close", "plain", "command"} :
        TypeLine([PlainLine(kind) EXCEPT !.name = DeclName, !.begins = kind = "plain",
                                     !.quoted = TRUE], NoPath, current)
  BY DEF TypeQuoted
<1>3. PICK line : line = [PlainLine(kind) EXCEPT !.name = DeclName, !.begins = kind = "plain",
                                             !.quoted = TRUE]
  OBVIOUS
<1>4. line \in LineSet /\ line.quoted = TRUE /\ line.kind # "blank"
  <2>1. line =
         [kind |-> kind, name |-> DeclName, indent |-> 0, target |-> NoTarget,
          declared |-> FALSE, begins |-> (kind = "plain"), quoted |-> TRUE]
    BY <1>3 DEF PlainLine
  <2>2. kind \in Kinds /\ NoName \in Seq(Chars) /\ NoTarget \in Targets
    BY NamesAreChars DEF Targets, Kinds
  <2>3. line \in LineSet
    BY <2>1, <2>2, NamesAreChars DEF LineSet
  <2> QED
    BY <2>1, <2>3
<1>5. /\ lines' = Append(lines, line) /\ paths' = Append(paths, NoPath)
      /\ owners' = Append(owners, current) /\ current' = current
      /\ spanProver' = spanProver
  BY <1>2, <1>3 DEF TypeLine
<1>6. scopes' = scopes /\ header' = header /\ current # 0 /\ spanProver = "isabelle"
  BY DEF TypeQuoted
<1>7. ~Starts(line, spanProver) /\ Follows(line, spanProver)
  BY <1>4, <1>6 DEF Starts, Follows
<1>8. Fits(line, NoPath, current, current, lines, current, spanProver)
  BY <1>6, <1>7 DEF Fits
<1>9. NoPath \in PathSet /\ current \in Nat
  BY <1>1, CoreIs DEF PathSet
<1>10. Core(lines', paths', owners', current', spanProver', scopes', q)
  BY <1>1, <1>4, <1>5, <1>6, <1>8, <1>9, OneMoreSteady
<1> QED
  BY <1>1, <1>5, <1>6, <1>10 DEF SpansInv

LEMMA EndWordTyped ==
    ASSUME SpansInv, TypeEndWord PROVE SpansInv'
<1>1. PICK q : /\ Core(lines, paths, owners, current, spanProver, scopes, q)
               /\ HeaderMeant(header, scopes, spanProver, q)
  BY DEF SpansInv
<1>2. PICK line : line = PlainLine("endword")
  OBVIOUS
<1>3. /\ line \in LineSet /\ line.kind = "endword" /\ line.begins = FALSE
      /\ line.declared = FALSE
  <2>1. "endword" \in Kinds
    BY DEF Kinds
  <2> QED
    BY <1>2, <2>1, PlainIsLine
<1>4. /\ lines' = Append(lines, line) /\ paths' = Append(paths, NoPath)
      /\ owners' = Append(owners, current) /\ current' = current
      /\ spanProver' = spanProver
  BY <1>2 DEF TypeEndWord, TypeLine
<1>5. scopes' = scopes /\ header' = header /\ current # 0
  BY DEF TypeEndWord
<1>6. ~Starts(line, spanProver) /\ Follows(line, spanProver)
  BY <1>3 DEF Starts, IsDecl, Follows
<1>7. Fits(line, NoPath, current, current, lines, current, spanProver)
  BY <1>5, <1>6 DEF Fits
<1>8. NoPath \in PathSet /\ current \in Nat
  BY <1>1, CoreIs DEF PathSet
<1>9. Core(lines', paths', owners', current', spanProver', scopes', q)
  BY <1>1, <1>3, <1>4, <1>5, <1>7, <1>8, OneMoreSteady
<1> QED
  BY <1>1, <1>4, <1>5, <1>9 DEF SpansInv

LEMMA BlankTyped ==
    ASSUME SpansInv, TypeBlank PROVE SpansInv'
<1>1. PICK q : /\ Core(lines, paths, owners, current, spanProver, scopes, q)
               /\ HeaderMeant(header, scopes, spanProver, q)
  BY DEF SpansInv
<1>2. PICK line : line = PlainLine("blank")
  OBVIOUS
<1>3. /\ line \in LineSet /\ line.kind = "blank" /\ line.begins = FALSE
      /\ line.declared = FALSE
  <2>1. "blank" \in Kinds
    BY DEF Kinds
  <2> QED
    BY <1>2, <2>1, PlainIsLine
<1>4. /\ lines' = Append(lines, line) /\ paths' = Append(paths, NoPath)
      /\ owners' = Append(owners, 0) /\ current' = current
      /\ spanProver' = spanProver
  BY <1>2 DEF TypeBlank
<1>5. scopes' = scopes /\ header' = header
  BY DEF TypeBlank
<1>6. ~Starts(line, spanProver)
  BY <1>3 DEF Starts, IsDecl
<1>7. Fits(line, NoPath, 0, current, lines, current, spanProver)
  BY <1>3, <1>6 DEF Fits
<1>8. NoPath \in PathSet /\ current \in Nat
  BY <1>1, CoreIs DEF PathSet
<1>9. Core(lines', paths', owners', current', spanProver', scopes', q)
  BY <1>1, <1>3, <1>4, <1>5, <1>7, <1>8, OneMoreSteady
<1> QED
  BY <1>1, <1>4, <1>5, <1>9 DEF SpansInv

LEMMA CommandTyped ==
    ASSUME SpansInv, TypeCommand PROVE SpansInv'
<1>1. PICK q : /\ Core(lines, paths, owners, current, spanProver, scopes, q)
               /\ HeaderMeant(header, scopes, spanProver, q)
  BY DEF SpansInv
<1>2. PICK kind \in {"command", "attribute"} :
        /\ kind = "attribute" => spanProver # "isabelle"
        /\ TypeLine(PlainLine(kind), NoPath, 0)
  BY DEF TypeCommand
<1>3. PICK line : line = PlainLine(kind)
  OBVIOUS
<1>4. /\ line \in LineSet /\ line.kind = kind /\ line.begins = FALSE /\ line.indent = 0
      /\ line.declared = FALSE /\ line.quoted = FALSE
  <2>1. line =
         [kind |-> kind, name |-> NoName, indent |-> 0, target |-> NoTarget,
          declared |-> FALSE, begins |-> FALSE, quoted |-> FALSE]
    BY <1>3 DEF PlainLine
  <2>2. kind \in Kinds /\ NoName \in Seq(Chars) /\ NoTarget \in Targets
    BY NamesAreChars DEF Targets, Kinds
  <2>3. line \in LineSet
    BY <2>1, <2>2, NamesAreChars DEF LineSet
  <2> QED
    BY <2>1, <2>3
<1>5. /\ lines' = Append(lines, line) /\ paths' = Append(paths, NoPath)
      /\ owners' = Append(owners, 0) /\ current' = 0 /\ spanProver' = spanProver
  BY <1>2, <1>3 DEF TypeLine
<1>6. scopes' = scopes /\ header' = NoScope
  BY DEF TypeCommand
<1>7. ~Starts(line, spanProver)
  BY <1>4 DEF Starts, IsDecl
<1>8. Separates(line, spanProver)
  BY <1>2, <1>4 DEF Separates, IsTrailer
<1>9. Fits(line, NoPath, 0, 0, lines, current, spanProver)
  BY <1>7, <1>8 DEF Fits
<1>10. NoPath \in PathSet /\ line.kind \notin {"scope", "plain", "close"} /\ 0 \in Nat
  BY <1>4 DEF PathSet
<1>11. Core(lines', paths', owners', current', spanProver', scopes', q)
  BY <1>1, <1>4, <1>5, <1>6, <1>9, <1>10, OneMoreSteady
<1>12. HeaderMeant(header', scopes', spanProver', q)
  BY <1>6 DEF HeaderMeant
<1> QED
  BY <1>11, <1>12 DEF SpansInv

LEMMA DeclTyped ==
    ASSUME SpansInv, TypeDecl PROVE SpansInv'
<1>1. PICK q : /\ Core(lines, paths, owners, current, spanProver, scopes, q)
               /\ HeaderMeant(header, scopes, spanProver, q)
  BY DEF SpansInv
<1>2. PICK surface \in {DeclName, NameGlued, NameWithList},
           target \in Names \cup {NoTarget, GlobalTarget}, indent \in 0..1 :
        TypeLine([PlainLine("decl") EXCEPT !.name = surface, !.target = target,
                                       !.indent = indent],
                 <<CASE target = NoTarget     -> Enclosing
                     [] target = GlobalTarget -> << >>
                     [] OTHER                 -> <<<<target>>>>, DeclName>>,
                 Len(lines) + 1)
  BY DEF TypeDecl
<1>3. PICK line : line = [PlainLine("decl") EXCEPT !.name = surface, !.target = target,
                                               !.indent = indent]
  OBVIOUS
<1>4. PICK prefix : prefix = CASE target = NoTarget     -> Enclosing
                               [] target = GlobalTarget -> << >>
                               [] OTHER                 -> <<<<target>>>>
  OBVIOUS
<1>5. surface \in Seq(Chars) /\ target \in Targets
  BY NamesAreChars DEF Targets
<1>6. /\ line \in LineSet /\ line.kind = "decl" /\ line.begins = FALSE /\ line.name = surface
      /\ line.quoted = FALSE /\ line.target = target
  <2>1. line =
         [kind |-> "decl", name |-> surface, indent |-> indent, target |-> target,
          declared |-> FALSE, begins |-> FALSE, quoted |-> FALSE]
    BY <1>3, <1>5 DEF PlainLine
  <2>2. "decl" \in Kinds /\ NoName \in Seq(Chars) /\ NoTarget \in Targets
    BY NamesAreChars DEF Targets, Kinds
  <2> QED
    BY <2>1, <2>2, LineIs, NamesAreChars, <1>5
<1>7. /\ lines' = Append(lines, line) /\ paths' = Append(paths, <<prefix, DeclName>>)
      /\ owners' = Append(owners, Len(lines) + 1) /\ current' = Len(lines) + 1
      /\ spanProver' = spanProver
  BY <1>2, <1>3, <1>4 DEF TypeLine
<1>8. scopes' = scopes /\ header' = NoScope
  BY DEF TypeDecl
<1>9. Starts(line, spanProver)
  BY <1>6 DEF Starts, IsDecl
<1>10. prefix = PrefixOf(scopes, line)
  BY <1>4, <1>6 DEF PrefixOf, Enclosing
<1>11. prefix \in PathPrefixes
  <2>1. Enclosing \in PathPrefixes
    BY <1>1, CoreIs DEF PathPrefixes, Enclosing
  <2>2. << >> \in PathPrefixes /\ <<<<target>>>> \in PathPrefixes
    BY <1>5 DEF PathPrefixes
  <2> QED
    BY <1>4, <2>1, <2>2
<1>12. <<prefix, DeclName>> \in PathSet /\ <<prefix, DeclName>> # NoPath
  BY <1>11, NamesAreChars, PathIsPath
<1>13. Len(lines) + 1 \in Nat
  BY <1>1, CoreIs
<1>14. PICK path, owner : path = <<prefix, DeclName>> /\ owner = Len(lines) + 1
  OBVIOUS
<1>15. Fits(line, path, owner, owner, lines, current, spanProver)
  BY <1>6, <1>9, <1>12, <1>13, <1>14 DEF Fits
<1>16. path[1] = prefix /\ path[2] = DeclName
  BY <1>14
<1>17. line.name # NoName /\ DeclName = NormalizeDeclName(line.name)
  BY <1>6, GluedNormal
<1>18. Core(Append(lines, line), Append(paths, path), Append(owners, owner), owner,
            spanProver, scopes, q)
  BY <1>1, <1>6, <1>10, <1>12, <1>13, <1>14, <1>15, <1>16, <1>17, OneMoreSteady
<1>19. HeaderMeant(header', scopes', spanProver', q)
  BY <1>8 DEF HeaderMeant
<1> QED
  BY <1>7, <1>8, <1>14, <1>18, <1>19 DEF SpansInv

\* A scope opens, for the author and for the walk.
LEMMA ScopesGrow ==
    ASSUME NEW sc, NEW p, ScopesMeant(sc, p), NEW e \in ScopeSet,
           p # "isabelle" => e.name # NoName,
           p = "rocq" => \A k \in 1..Len(sc) : sc[k].name # e.name
    PROVE  ScopesMeant(Append(sc, e), p)
<1>1. PICK t : t = Append(sc, e)
  OBVIOUS
<1>2. sc \in Seq(ScopeSet) /\ Len(sc) \in Nat
  BY DEF ScopesMeant
<1>3. t \in Seq(ScopeSet) /\ Len(t) = Len(sc) + 1 /\ (\A k \in 1..Len(sc) : t[k] = sc[k])
      /\ t[Len(sc) + 1] = e
  BY <1>1, <1>2, AppendIs
<1>4. \A k \in 1..Len(t) : k \in 1..Len(sc) \/ k = Len(sc) + 1
  BY <1>2, <1>3
<1>5. p # "isabelle" => \A k \in 1..Len(t) : t[k].name # NoName
  BY <1>3, <1>4 DEF ScopesMeant
<1>6. ASSUME p = "rocq", NEW j \in 1..Len(t), NEW k \in 1..Len(t), j < k
      PROVE  t[j].name # t[k].name
  <2>1. j \in 1..Len(sc) /\ t[j] = sc[j]
    BY <1>2, <1>3, <1>4, <1>6
  <2>2. CASE k = Len(sc) + 1
    BY <1>3, <1>6, <2>1, <2>2
  <2>3. CASE k \in 1..Len(sc)
    <3>1. \A a, b \in 1..Len(sc) : a < b => sc[a].name # sc[b].name
      BY <1>6 DEF ScopesMeant
    <3> QED
      BY <1>3, <1>6, <2>1, <2>3, <3>1
  <2> QED
    BY <1>4, <2>2, <2>3
<1> QED
  BY <1>1, <1>3, <1>5, <1>6 DEF ScopesMeant

LEMMA ScopesShrink ==
    ASSUME NEW sc, NEW p, ScopesMeant(sc, p), Len(sc) > 0
    PROVE  ScopesMeant(Front(sc), p)
<1>1. PICK t : t = Front(sc)
  OBVIOUS
<1>2. sc \in Seq(ScopeSet) /\ Len(sc) \in Nat
  BY DEF ScopesMeant
<1>3. t \in Seq(ScopeSet) /\ Len(t) = Len(sc) - 1 /\ \A k \in 1..(Len(sc) - 1) : t[k] = sc[k]
  BY <1>1, <1>2, FrontIs
<1>4. \A k \in 1..Len(t) : k \in 1..Len(sc) /\ t[k] = sc[k]
  BY <1>2, <1>3
<1>5. p # "isabelle" => \A k \in 1..Len(t) : t[k].name # NoName
  BY <1>4 DEF ScopesMeant
<1>6. ASSUME p = "rocq", NEW j \in 1..Len(t), NEW k \in 1..Len(t), j < k
      PROVE  t[j].name # t[k].name
  <2>1. \A a, b \in 1..Len(sc) : a < b => sc[a].name # sc[b].name
    BY <1>6 DEF ScopesMeant
  <2> QED
    BY <1>4, <1>6, <2>1
<1> QED
  BY <1>1, <1>3, <1>5, <1>6 DEF ScopesMeant

LEMMA ScopeOpened ==
    ASSUME SpansInv, OpenScope PROVE SpansInv'
<1>1. PICK q : /\ Core(lines, paths, owners, current, spanProver, scopes, q)
               /\ HeaderMeant(header, scopes, spanProver, q)
  BY DEF SpansInv
<1>2. PICK n \in Names, kind \in {"scope", "plain"} :
        /\ spanProver = "rocq" => \A k \in DOMAIN scopes : scopes[k].name # <<n>>
        /\ TypeLine([PlainLine(kind) EXCEPT !.name = <<n>>], NoPath, 0)
        /\ scopes' = Append(scopes, [contributes |-> kind = "scope", name |-> <<n>>])
  BY DEF OpenScope
<1>3. PICK line : line = [PlainLine(kind) EXCEPT !.name = <<n>>]
  OBVIOUS
<1>4. PICK name : name = <<n>>
  OBVIOUS
<1>5. name \in Seq(Chars) /\ name # NoName
  BY <1>4, NamesAreChars DEF NoName
<1>6. /\ line \in LineSet /\ line.kind = kind /\ line.name = name /\ line.indent = 0
      /\ line.declared = FALSE /\ line.quoted = FALSE
  <2>1. line = [kind |-> kind, name |-> name, indent |-> 0, target |-> NoTarget,
                declared |-> FALSE, begins |-> FALSE, quoted |-> FALSE]
    BY <1>3, <1>4 DEF PlainLine
  <2>2. kind \in Kinds /\ NoTarget \in Targets
    BY DEF Targets, Kinds
  <2>3. line \in LineSet
    BY <1>5, <2>1, <2>2 DEF LineSet
  <2> QED
    BY <2>1, <2>3
<1>7. PICK e : e = [contributes |-> kind = "scope", name |-> name]
  OBVIOUS
<1>8. e \in ScopeSet /\ e.name = name
  <2>1. (kind = "scope") \in BOOLEAN
    OBVIOUS
  <2> QED
    BY <1>5, <1>7, <2>1 DEF ScopeSet
<1>9. /\ lines' = Append(lines, line) /\ paths' = Append(paths, NoPath)
      /\ owners' = Append(owners, 0) /\ current' = 0 /\ spanProver' = spanProver
      /\ scopes' = Append(scopes, e)
  BY <1>2, <1>3, <1>4, <1>7 DEF TypeLine
<1>10. header' = NoScope /\ spanProver # "isabelle"
  BY DEF OpenScope
<1>11. ScopesMeant(scopes, spanProver) /\ scopes \in Seq(ScopeSet)
  BY <1>1, CoreIs
<1>12. ScopesMeant(scopes', spanProver)
  <2>1. spanProver = "rocq" => \A k \in 1..Len(scopes) : scopes[k].name # e.name
    <3>1. DOMAIN scopes = 1..Len(scopes)
      BY <1>11
    <3> QED
      BY <1>2, <1>4, <1>8, <3>1
  <2> QED
    BY <1>5, <1>8, <1>9, <1>11, <2>1, ScopesGrow
<1>13. Entry(line, spanProver) = SeenAs(e, spanProver)
  BY <1>6, <1>7 DEF Entry, SeenAs
<1>14. StateOf(scopes', spanProver, q) = WalkLine(StateOf(scopes, spanProver, q), line, spanProver)
  <2>1. PICK s : s = Seen(scopes, spanProver)
    OBVIOUS
  <2>2. PICK d : d = SeenAs(e, spanProver)
    OBVIOUS
  <2>3. Seen(scopes', spanProver) = Append(s, d)
    BY <1>8, <1>9, <1>11, <2>1, <2>2, SeenGrows
  <2>4. line.kind # "close" /\ line.kind \in {"scope", "plain"}
    BY <1>6
  <2>5. WalkLine([stack |-> s, pending |-> q], line, spanProver)
          = [stack |-> Append(s, d), pending |-> q]
    BY <1>10, <1>13, <2>2, <2>4 DEF WalkLine
  <2> QED
    BY <2>1, <2>3, <2>5 DEF StateOf
<1>15. ~Starts(line, spanProver)
  BY <1>6 DEF Starts, IsDecl
<1>16. Separates(line, spanProver)
  BY <1>6 DEF Separates, IsTrailer
<1>17. Fits(line, NoPath, 0, 0, lines, current, spanProver)
  BY <1>15, <1>16 DEF Fits
<1>18. NoPath \in PathSet /\ 0 \in Nat
  BY DEF PathSet
<1>19. StateOf(scopes', spanProver, q) = IF spanProver = "isabelle" /\ line.quoted
                                         THEN StateOf(scopes, spanProver, q)
                                         ELSE WalkLine(StateOf(scopes, spanProver, q), line, spanProver)
  BY <1>10, <1>14
<1>20. Core(Append(lines, line), Append(paths, NoPath), Append(owners, 0), 0, spanProver,
            scopes', q)
  BY <1>1, <1>6, <1>12, <1>17, <1>18, <1>19, OneMoreCore
<1>21. HeaderMeant(header', scopes', spanProver', q)
  BY <1>10 DEF HeaderMeant
<1> QED
  BY <1>9, <1>20, <1>21 DEF SpansInv

LEMMA ContextOpened ==
    ASSUME SpansInv, OpenContext PROVE SpansInv'
<1>1. PICK q : /\ Core(lines, paths, owners, current, spanProver, scopes, q)
               /\ HeaderMeant(header, scopes, spanProver, q)
  BY DEF SpansInv
<1>2. PICK line, e : /\ line = [PlainLine("plain") EXCEPT !.begins = TRUE]
                     /\ e = [contributes |-> FALSE, name |-> NoName]
  OBVIOUS
<1>3. /\ lines' = Append(lines, line) /\ paths' = Append(paths, NoPath)
      /\ owners' = Append(owners, 0) /\ current' = 0 /\ spanProver' = spanProver
      /\ scopes' = Append(scopes, e)
  BY <1>2 DEF OpenContext, TypeLine
<1>4. header' = NoScope /\ spanProver = "isabelle"
  BY DEF OpenContext
<1>5. /\ line \in LineSet /\ line.kind = "plain" /\ line.indent = 0 /\ line.begins = TRUE
      /\ line.declared = FALSE /\ line.quoted = FALSE
  <2>1. line = [kind |-> "plain", name |-> NoName, indent |-> 0, target |-> NoTarget,
                declared |-> FALSE, begins |-> TRUE, quoted |-> FALSE]
    BY <1>2 DEF PlainLine
  <2>2. "plain" \in Kinds /\ NoTarget \in Targets
    BY DEF Targets, Kinds
  <2>3. line \in LineSet
    BY <2>1, <2>2, NamesAreChars DEF LineSet
  <2> QED
    BY <2>1, <2>3
<1>6. e \in ScopeSet
  BY <1>2, NamesAreChars DEF ScopeSet
<1>7. ScopesMeant(scopes, spanProver) /\ scopes \in Seq(ScopeSet)
  BY <1>1, CoreIs
<1>8. ScopesMeant(scopes', spanProver)
  BY <1>3, <1>4, <1>6, <1>7, ScopesGrow
<1>9. Entry(line, spanProver) = e /\ SeenAs(e, spanProver) = e /\ e # NoScope
  <2>1. e # NoScope
    BY <1>2 DEF NoScope, NoName
  <2> QED
    BY <1>2, <1>4, <1>5, <2>1 DEF Entry, SeenAs
<1>10. StateOf(scopes', spanProver, NoScope)
         = WalkLine(StateOf(scopes, spanProver, q), line, spanProver)
  <2>1. PICK s : s = Seen(scopes, spanProver)
    OBVIOUS
  <2>2. Seen(scopes', spanProver) = Append(s, e)
    BY <1>3, <1>6, <1>7, <1>9, <2>1, SeenGrows
  <2>3. WalkLine([stack |-> s, pending |-> q], line, spanProver)
          = [stack |-> Append(s, e), pending |-> NoScope]
    BY <1>4, <1>5, <1>9 DEF WalkLine
  <2> QED
    BY <2>1, <2>2, <2>3 DEF StateOf
<1>11. ~Starts(line, spanProver)
  BY <1>5 DEF Starts, IsDecl
<1>12. Separates(line, spanProver)
  BY <1>5 DEF Separates, IsTrailer
<1>13. Fits(line, NoPath, 0, 0, lines, current, spanProver)
  BY <1>11, <1>12 DEF Fits
<1>14. NoPath \in PathSet /\ 0 \in Nat
  BY DEF PathSet
<1>15. StateOf(scopes', spanProver, NoScope)
         = IF spanProver = "isabelle" /\ line.quoted THEN StateOf(scopes, spanProver, q)
           ELSE WalkLine(StateOf(scopes, spanProver, q), line, spanProver)
  BY <1>5, <1>10
<1>16. Core(Append(lines, line), Append(paths, NoPath), Append(owners, 0), 0, spanProver,
            scopes', NoScope)
  BY <1>1, <1>5, <1>8, <1>13, <1>14, <1>15, OneMoreCore
<1>17. HeaderMeant(header', scopes', spanProver', NoScope)
  BY <1>4 DEF HeaderMeant
<1> QED
  BY <1>3, <1>16, <1>17 DEF SpansInv

LEMMA ScopeClosed ==
    ASSUME SpansInv, CloseScope PROVE SpansInv'
<1>1. PICK q : /\ Core(lines, paths, owners, current, spanProver, scopes, q)
               /\ HeaderMeant(header, scopes, spanProver, q)
  BY DEF SpansInv
<1>2. PICK named \in BOOLEAN :
        /\ spanProver = "rocq" => named
        /\ spanProver = "isabelle" => ~named
        /\ TypeLine([PlainLine("close") EXCEPT
                        !.name = IF named THEN Last(scopes).name ELSE NoName], NoPath, 0)
  BY DEF CloseScope
<1>3. PICK name : name = IF named THEN Last(scopes).name ELSE NoName
  OBVIOUS
<1>4. PICK line : line = [PlainLine("close") EXCEPT !.name = name]
  OBVIOUS
<1>5. /\ lines' = Append(lines, line) /\ paths' = Append(paths, NoPath)
      /\ owners' = Append(owners, 0) /\ current' = 0 /\ spanProver' = spanProver
  BY <1>2, <1>3, <1>4 DEF TypeLine
<1>6. header' = NoScope /\ scopes # << >> /\ scopes' = Front(scopes)
  BY DEF CloseScope
<1>7. ScopesMeant(scopes, spanProver) /\ scopes \in Seq(ScopeSet) /\ spanProver \in Provers
  BY <1>1, CoreIs
<1>8. Len(scopes) > 0 /\ Len(scopes) \in Nat
  BY <1>6, <1>7
<1>9. Last(scopes) = scopes[Len(scopes)] /\ scopes[Len(scopes)] \in ScopeSet
  BY <1>7, <1>8 DEF Last
<1>10. name \in Seq(Chars)
  BY <1>3, <1>9, NamesAreChars DEF ScopeSet
<1>11. /\ line \in LineSet /\ line.kind = "close" /\ line.indent = 0 /\ line.name = name
       /\ line.declared = FALSE /\ line.quoted = FALSE
  <2>1. line = [kind |-> "close", name |-> name, indent |-> 0, target |-> NoTarget,
                declared |-> FALSE, begins |-> FALSE, quoted |-> FALSE]
    BY <1>4 DEF PlainLine
  <2>2. "close" \in Kinds /\ NoTarget \in Targets
    BY DEF Targets, Kinds
  <2>3. line \in LineSet
    BY <1>10, <2>1, <2>2 DEF LineSet
  <2> QED
    BY <2>1, <2>3
<1>12. PopScope(Seen(scopes, spanProver), name) = Seen(scopes', spanProver)
  <2>1. name = NoName \/ (spanProver # "isabelle" /\ name = scopes[Len(scopes)].name)
    BY <1>2, <1>3, <1>9
  <2> QED
    BY <1>6, <1>7, <1>8, <2>1, PopsInnermost DEF Provers
<1>13. StateOf(scopes', spanProver, NoScope)
         = WalkLine(StateOf(scopes, spanProver, q), line, spanProver)
  <2>1. PICK s, t : s = Seen(scopes, spanProver) /\ t = Seen(scopes', spanProver)
    OBVIOUS
  <2>2. PopScope(s, name) = t
    BY <1>12, <2>1
  <2>3. WalkLine([stack |-> s, pending |-> q], line, spanProver)
          = [stack |-> t, pending |-> NoScope]
    BY <1>11, <2>2 DEF WalkLine
  <2> QED
    BY <2>1, <2>3 DEF StateOf
<1>14. ~Starts(line, spanProver)
  BY <1>11 DEF Starts, IsDecl
<1>15. Separates(line, spanProver)
  BY <1>11 DEF Separates, IsTrailer
<1>16. Fits(line, NoPath, 0, 0, lines, current, spanProver)
  BY <1>14, <1>15 DEF Fits
<1>17. NoPath \in PathSet /\ 0 \in Nat
  BY DEF PathSet
<1>18. StateOf(scopes', spanProver, NoScope)
         = IF spanProver = "isabelle" /\ line.quoted THEN StateOf(scopes, spanProver, q)
           ELSE WalkLine(StateOf(scopes, spanProver, q), line, spanProver)
  BY <1>11, <1>13
<1>19. ScopesMeant(scopes', spanProver)
  BY <1>6, <1>7, <1>8, ScopesShrink
<1>20. Core(Append(lines, line), Append(paths, NoPath), Append(owners, 0), 0, spanProver,
            scopes', NoScope)
  BY <1>1, <1>11, <1>16, <1>17, <1>18, <1>19, OneMoreCore
<1>21. HeaderMeant(header', scopes', spanProver', NoScope)
  BY <1>6 DEF HeaderMeant
<1> QED
  BY <1>5, <1>20, <1>21 DEF SpansInv

\* What the walk sees of a scope that contributes its name is the scope.
LEMMA SeenOne ==
    ASSUME NEW e \in ScopeSet, e.contributes = TRUE, NEW p
    PROVE  SeenAs(e, p) = e
<1>1. e = [contributes |-> e.contributes, name |-> e.name]
  BY DEF ScopeSet
<1> QED
  BY <1>1 DEF SeenAs

LEMMA FirstScope ==
    ASSUME NEW e \in ScopeSet, NEW p, p = "isabelle"
    PROVE  ScopesMeant(<<e>>, p)
<1>1. <<e>> \in Seq(ScopeSet)
  OBVIOUS
<1>2. p # "rocq"
  OBVIOUS
<1> QED
  BY <1>1, <1>2 DEF ScopesMeant

LEMMA FirstSeen ==
    ASSUME NEW e \in ScopeSet, e.contributes = TRUE, NEW p
    PROVE  Append(Seen(<< >>, p), e) = Seen(<<e>>, p)
<1>1. PICK none : none = << >>
  OBVIOUS
<1>2. none \in Seq(ScopeSet) /\ Append(none, e) = <<e>>
  BY <1>1
<1>3. Append(Seen(none, p), SeenAs(e, p)) = Seen(Append(none, e), p)
  BY <1>2, SeenGrows
<1>4. SeenAs(e, p) = e
  BY SeenOne
<1> QED
  BY <1>1, <1>2, <1>3, <1>4

LEMMA LocaleBegun ==
    ASSUME SpansInv, BeginLocale PROVE SpansInv'
<1>1. PICK q : /\ Core(lines, paths, owners, current, spanProver, scopes, q)
               /\ HeaderMeant(header, scopes, spanProver, q)
  BY DEF SpansInv
<1>2. PICK line : line = [PlainLine("begin") EXCEPT !.begins = TRUE]
  OBVIOUS
<1>3. /\ lines' = Append(lines, line) /\ paths' = Append(paths, NoPath)
      /\ owners' = Append(owners, current) /\ current' = current /\ spanProver' = spanProver
      /\ scopes' = <<header>> /\ header' = NoScope
  BY <1>2 DEF BeginLocale, TypeLine
<1>4. current # 0 /\ header # NoScope
  BY DEF BeginLocale
<1>5. spanProver = "isabelle" /\ scopes = << >> /\ q = header /\ header \in ScopeSet
      /\ header.contributes = TRUE
  BY <1>1, <1>4 DEF HeaderMeant
<1>6. /\ line \in LineSet /\ line.kind = "begin" /\ line.begins = TRUE
      /\ line.declared = FALSE /\ line.quoted = FALSE
  <2>1. line = [kind |-> "begin", name |-> NoName, indent |-> 0, target |-> NoTarget,
                declared |-> FALSE, begins |-> TRUE, quoted |-> FALSE]
    BY <1>2 DEF PlainLine
  <2>2. "begin" \in Kinds /\ NoTarget \in Targets
    BY DEF Targets, Kinds
  <2>3. line \in LineSet
    BY <2>1, <2>2, NamesAreChars DEF LineSet
  <2> QED
    BY <2>1, <2>3
<1>7. ScopesMeant(scopes', spanProver)
  BY <1>3, <1>5, FirstScope
<1>8. StateOf(scopes', spanProver, NoScope)
        = WalkLine(StateOf(scopes, spanProver, q), line, spanProver)
  <2>1. PICK s, h : s = Seen(scopes, spanProver) /\ h = header
    OBVIOUS
  <2>2. Seen(scopes', spanProver) = Append(s, h)
    BY <1>3, <1>5, <2>1, FirstSeen
  <2>3. WalkLine([stack |-> s, pending |-> h], line, spanProver)
          = [stack |-> Append(s, h), pending |-> NoScope]
    BY <1>4, <1>5, <1>6, <2>1 DEF WalkLine
  <2> QED
    BY <1>5, <2>1, <2>2, <2>3 DEF StateOf
<1>9. ~Starts(line, spanProver) /\ Follows(line, spanProver)
  BY <1>6 DEF Starts, IsDecl, Follows, IsTrailer
<1>10. Fits(line, NoPath, current, current, lines, current, spanProver)
  BY <1>4, <1>9 DEF Fits
<1>11. NoPath \in PathSet /\ current \in Nat
  BY <1>1, CoreIs DEF PathSet
<1>12. StateOf(scopes', spanProver, NoScope)
         = IF spanProver = "isabelle" /\ line.quoted THEN StateOf(scopes, spanProver, q)
           ELSE WalkLine(StateOf(scopes, spanProver, q), line, spanProver)
  BY <1>6, <1>8
<1>13. Core(Append(lines, line), Append(paths, NoPath), Append(owners, current), current,
            spanProver, scopes', NoScope)
  BY <1>1, <1>6, <1>7, <1>10, <1>11, <1>12, OneMoreCore
<1>14. HeaderMeant(header', scopes', spanProver', NoScope)
  BY <1>3 DEF HeaderMeant
<1> QED
  BY <1>3, <1>13, <1>14 DEF SpansInv

LEMMA LocaleOpened ==
    ASSUME SpansInv, OpenLocale PROVE SpansInv'
<1>1. PICK q : /\ Core(lines, paths, owners, current, spanProver, scopes, q)
               /\ HeaderMeant(header, scopes, spanProver, q)
  BY DEF SpansInv
<1>2. PICK n \in Names, declared \in BOOLEAN, begins \in BOOLEAN :
        /\ TypeLine([PlainLine("scope") EXCEPT !.name = <<n>>, !.declared = declared,
                                           !.begins = begins],
                    IF declared THEN <<Enclosing, <<n>>>> ELSE NoPath,
                    IF declared THEN Len(lines) + 1 ELSE 0)
        /\ begins \/ declared
        /\ scopes' = IF begins THEN <<[contributes |-> TRUE, name |-> <<n>>]>> ELSE << >>
        /\ header' = IF begins THEN NoScope ELSE [contributes |-> TRUE, name |-> <<n>>]
  BY DEF OpenLocale
<1>3. PICK name : name = <<n>>
  OBVIOUS
<1>4. name \in Seq(Chars) /\ name # NoName /\ NormalizeDeclName(name) = name
  BY <1>3, NamesAreChars, OneTokenNormal DEF NoName
<1>5. PICK line, e : /\ line = [PlainLine("scope") EXCEPT !.name = name, !.declared = declared,
                                                      !.begins = begins]
                     /\ e = [contributes |-> TRUE, name |-> name]
  OBVIOUS
<1>6. PICK path, owner : /\ path = IF declared THEN <<Enclosing, name>> ELSE NoPath
                         /\ owner = IF declared THEN Len(lines) + 1 ELSE 0
  OBVIOUS
<1>7. /\ lines' = Append(lines, line) /\ paths' = Append(paths, path)
      /\ owners' = Append(owners, owner) /\ current' = owner /\ spanProver' = spanProver
  BY <1>2, <1>3, <1>5, <1>6 DEF TypeLine
<1>8. /\ scopes' = IF begins THEN <<e>> ELSE << >>
      /\ header' = IF begins THEN NoScope ELSE e
  BY <1>2, <1>3, <1>5
<1>9. spanProver = "isabelle" /\ scopes = << >>
  BY DEF OpenLocale
<1>10. /\ line \in LineSet /\ line.kind = "scope" /\ line.name = name /\ line.indent = 0
       /\ line.declared = declared /\ line.begins = begins /\ line.quoted = FALSE
       /\ line.target = NoTarget
  <2>1. line = [kind |-> "scope", name |-> name, indent |-> 0, target |-> NoTarget,
                declared |-> declared, begins |-> begins, quoted |-> FALSE]
    BY <1>5 DEF PlainLine
  <2>2. "scope" \in Kinds /\ NoTarget \in Targets
    BY DEF Targets, Kinds
  <2>3. line \in LineSet
    BY <1>4, <2>1, <2>2 DEF LineSet
  <2> QED
    BY <2>1, <2>3
<1>11. e \in ScopeSet /\ e.contributes = TRUE /\ e # NoScope
  BY <1>4, <1>5 DEF ScopeSet, NoScope
<1>12. ScopesMeant(scopes', spanProver)
  <2>1. ScopesMeant(scopes, spanProver)
    BY <1>1, CoreIs
  <2> QED
    BY <1>8, <1>9, <1>11, <2>1, FirstScope
<1>13. Entry(line, spanProver) = e
  BY <1>5, <1>10 DEF Entry
<1>14. PICK q2 : q2 = IF begins THEN NoScope ELSE e
  OBVIOUS
<1>15. StateOf(scopes', spanProver, q2)
         = WalkLine(StateOf(scopes, spanProver, q), line, spanProver)
  <2>1. PICK s : s = Seen(scopes, spanProver)
    OBVIOUS
  <2>2. CASE begins
    <3>1. Seen(scopes', spanProver) = Append(s, e)
      BY <1>8, <1>9, <1>11, <2>1, <2>2, FirstSeen
    <3>2. WalkLine([stack |-> s, pending |-> q], line, spanProver)
            = [stack |-> Append(s, e), pending |-> NoScope]
      BY <1>9, <1>10, <1>11, <1>13, <2>2 DEF WalkLine
    <3> QED
      BY <1>14, <2>1, <2>2, <3>1, <3>2 DEF StateOf
  <2>3. CASE ~begins
    <3>1. Seen(scopes', spanProver) = s
      BY <1>8, <1>9, <2>1, <2>3
    <3>2. WalkLine([stack |-> s, pending |-> q], line, spanProver)
            = [stack |-> s, pending |-> e]
      BY <1>9, <1>10, <1>11, <1>13, <2>3 DEF WalkLine
    <3> QED
      BY <1>14, <2>1, <2>3, <3>1, <3>2 DEF StateOf
  <2> QED
    BY <2>2, <2>3
<1>16. Starts(line, spanProver) <=> declared
  BY <1>10 DEF Starts, IsDecl
<1>17. ~declared => Separates(line, spanProver)
  BY <1>9, <1>10 DEF Separates, IsTrailer
<1>18. Len(lines) \in Nat /\ scopes \in Seq(ScopeSet)
  BY <1>1, CoreIs
<1>19. path \in PathSet /\ owner \in Nat /\ (path # NoPath <=> declared)
  <2>1. NoPath \in PathSet /\ <<Enclosing, name>> \in PathSet /\ <<Enclosing, name>> # NoPath
    BY <1>4, <1>18, PathsAre DEF Enclosing
  <2> QED
    BY <1>6, <1>18, <2>1
<1>20. Fits(line, path, owner, owner, lines, current, spanProver)
  <2>1. declared => owner = Len(lines) + 1 /\ owner # 0
    BY <1>6, <1>18
  <2>2. ~declared => owner = 0
    BY <1>6
  <2> QED
    BY <1>10, <1>16, <1>17, <1>19, <2>1, <2>2 DEF Fits
<1>21. path # NoPath =>
         /\ path[1] = PrefixOf(IF line.declared THEN scopes ELSE scopes', line)
         /\ line.name # NoName /\ path[2] = NormalizeDeclName(line.name)
  <2> SUFFICES ASSUME declared
               PROVE  /\ path[1] = PrefixOf(scopes, line)
                      /\ line.name # NoName /\ path[2] = NormalizeDeclName(line.name)
    BY <1>10, <1>19
  <2>1. path[1] = Enclosing /\ path[2] = name
    BY <1>6
  <2>2. PrefixOf(scopes, line) = Enclosing
    BY <1>10 DEF PrefixOf, Enclosing, NoTarget, GlobalTarget
  <2> QED
    BY <1>4, <1>10, <2>1, <2>2
<1>22. StateOf(scopes', spanProver, q2)
         = IF spanProver = "isabelle" /\ line.quoted THEN StateOf(scopes, spanProver, q)
           ELSE WalkLine(StateOf(scopes, spanProver, q), line, spanProver)
  BY <1>10, <1>15
<1>23. Core(Append(lines, line), Append(paths, path), Append(owners, owner), owner,
            spanProver, scopes', q2)
  BY <1>1, <1>10, <1>12, <1>19, <1>20, <1>21, <1>22, OneMoreCore
<1>24. HeaderMeant(header', scopes', spanProver', q2)
  BY <1>7, <1>8, <1>9, <1>11, <1>14 DEF HeaderMeant
<1> QED
  BY <1>7, <1>23, <1>24 DEF SpansInv

\* A declaration whose keyword, at n + 1, is alone on its line and whose name is
\* still to come.
Keyword(l, q, o, p, sc, w, n) ==
    /\ p \in Provers /\ ScopesMeant(sc, p)
    /\ Typed(l, q, o, n + 1, p, StateOf(sc, p, w))
    /\ NamesMeant(l, q, n) /\ n \in Nat /\ n + 1 <= Len(l)
    /\ q[n + 1][2] = DeclName /\ l[n + 1].name = NoName
    /\ \A j \in (n + 2)..Len(l) : l[j].kind = "blank" /\ q[j] = NoPath

LEMMA KeywordTyped ==
    ASSUME NEW ls, NEW pa, NEW ow, NEW cu, NEW p, NEW sc, NEW w,
           Core(ls, pa, ow, cu, p, sc, w)
    PROVE  Keyword(Append(ls, PlainLine("decl")), Append(pa, <<Qualifiers(sc), DeclName>>),
                   Append(ow, Len(ls) + 1), p, sc, w, Len(ls))
<1>1. PICK line, path, n : /\ line = PlainLine("decl") /\ path = <<Qualifiers(sc), DeclName>>
                           /\ n = Len(ls)
  OBVIOUS
<1>2. /\ line \in LineSet /\ line.kind = "decl" /\ line.name = NoName /\ line.target = NoTarget
      /\ line.declared = FALSE /\ line.begins = FALSE /\ line.quoted = FALSE
  <2>1. "decl" \in Kinds
    BY DEF Kinds
  <2> QED
    BY <1>1, <2>1, PlainIsLine
<1>3. /\ n \in Nat /\ p \in Provers /\ ScopesMeant(sc, p) /\ sc \in Seq(ScopeSet)
      /\ Texts(ls, pa, ow)
  BY <1>1, CoreIs
<1>4. path \in PathSet /\ path # NoPath /\ path[1] = Qualifiers(sc) /\ path[2] = DeclName
  BY <1>1, <1>3, PathsAre, NamesAreChars
<1>5. Typed(ls, pa, ow, cu, p, StateOf(sc, p, w)) /\ NamesMeant(ls, pa, n)
  BY <1>1 DEF Core
<1>6. Starts(line, p)
  BY <1>2 DEF Starts, IsDecl
<1>7. PICK owner : owner = n + 1
  OBVIOUS
<1>8. Fits(line, path, owner, owner, ls, cu, p)
  BY <1>1, <1>2, <1>3, <1>4, <1>6, <1>7 DEF Fits
<1>9. PICK state : state = StateOf(sc, p, w)
  OBVIOUS
<1>10. state = IF p = "isabelle" /\ line.quoted THEN state ELSE WalkLine(state, line, p)
  BY <1>2, <1>9, WalkStays
<1>11. path[1] = PrefixOf(state.stack, line)
  <2>1. state.stack = Seen(sc, p)
    BY <1>9 DEF StateOf
  <2>2. PrefixOf(sc, line) = Qualifiers(sc)
    BY <1>2 DEF PrefixOf, NoTarget, GlobalTarget
  <2> QED
    BY <1>3, <1>4, <2>1, <2>2, PrefixSeen
<1>12. Typed(Append(ls, line), Append(pa, path), Append(ow, owner), owner, p, state)
  <2>1. owner \in Nat /\ Typed(ls, pa, ow, cu, p, state)
    BY <1>3, <1>5, <1>7, <1>9
  <2> QED
    BY <1>2, <1>4, <1>8, <1>10, <1>11, <2>1, OneMoreTyped
<1>13. NamesMeant(Append(ls, line), Append(pa, path), n)
  BY <1>1, <1>2, <1>3, <1>4, <1>5, NamesStay
<1>14. PICK l, q : l = Append(ls, line) /\ q = Append(pa, path)
  OBVIOUS
<1>15. Len(l) = n + 1 /\ l[n + 1] = line /\ q[n + 1] = path
  BY <1>1, <1>2, <1>3, <1>4, <1>14, AppendIs DEF Texts
<1>16. \A j \in (n + 2)..Len(l) : FALSE
  BY <1>3, <1>15
<1>17. Keyword(l, q, Append(ow, owner), p, sc, w, n)
  BY <1>2, <1>3, <1>4, <1>7, <1>9, <1>12, <1>13, <1>14, <1>15, <1>16 DEF Keyword
<1> QED
  BY <1>1, <1>7, <1>14, <1>17

\* The lines l and their names q, and one line that declares nothing.
Grown(m, r, l, q, line, n) ==
    /\ Len(m) = Len(l) + 1 /\ Len(l) \in Nat /\ n \in Nat /\ n + 1 <= Len(l)
    /\ \A j \in 1..Len(l) : m[j] = l[j] /\ r[j] = q[j]
    /\ m[Len(l) + 1] = line /\ r[Len(l) + 1] = NoPath

\* A line after the keyword that declares nothing.
LEMMA AfterKeyword ==
    ASSUME NEW l, NEW q, NEW o, NEW p, NEW sc, NEW w, NEW n, Keyword(l, q, o, p, sc, w, n),
           NEW line \in LineSet, NEW owner \in Nat, line.declared = FALSE,
           line.begins = FALSE,
           (line.kind = "blank" /\ owner = 0) \/ (line.kind = "text" /\ owner = n + 1)
    PROVE  /\ Typed(Append(l, line), Append(q, NoPath), Append(o, owner), n + 1, p,
                    StateOf(sc, p, w))
           /\ NamesMeant(Append(l, line), Append(q, NoPath), n)
           /\ Grown(Append(l, line), Append(q, NoPath), l, q, line, n)
<1>1. /\ Typed(l, q, o, n + 1, p, StateOf(sc, p, w)) /\ NamesMeant(l, q, n) /\ n \in Nat
      /\ n + 1 <= Len(l) /\ Texts(l, q, o)
  BY DEF Keyword, Typed
<1>2. Len(l) \in Nat
  BY <1>1, TextsAre
<1>3. PICK cu : cu = n + 1
  OBVIOUS
<1>4. cu \in Nat /\ cu # 0 /\ NoPath \in PathSet
  BY <1>1, <1>3 DEF PathSet
<1>5. ~Starts(line, p)
  BY DEF Starts, IsDecl
<1>6. line.kind = "text" => Follows(line, p)
  BY DEF Follows, IsTrailer
<1>7. Fits(line, NoPath, owner, cu, l, cu, p)
  BY <1>3, <1>4, <1>5, <1>6 DEF Fits
<1>8. PICK state : state = StateOf(sc, p, w)
  OBVIOUS
<1>9. state = IF p = "isabelle" /\ line.quoted THEN state ELSE WalkLine(state, line, p)
  <2>1. line.kind \notin {"scope", "plain", "close"}
    OBVIOUS
  <2> QED
    BY <1>8, <2>1, WalkStays
<1>10. Typed(Append(l, line), Append(q, NoPath), Append(o, owner), cu, p, state)
  BY <1>1, <1>3, <1>4, <1>5, <1>7, <1>8, <1>9, OneMoreTyped
<1>11. NamesMeant(Append(l, line), Append(q, NoPath), n)
  <2>1. n \in 0..Len(l)
    BY <1>1, <1>2
  <2> QED
    BY <1>1, <1>4, <2>1, NamesStay
<1>12. /\ Len(Append(l, line)) = Len(l) + 1
       /\ \A j \in 1..Len(l) : Append(l, line)[j] = l[j]
       /\ Append(l, line)[Len(l) + 1] = line
  BY <1>1, AppendIs DEF Texts
<1>13. /\ \A j \in 1..Len(l) : Append(q, NoPath)[j] = q[j]
       /\ Append(q, NoPath)[Len(l) + 1] = NoPath
  <2>1. q \in Seq(PathSet) /\ Len(q) = Len(l)
    BY <1>1 DEF Texts
  <2>2. /\ \A j \in 1..Len(q) : Append(q, NoPath)[j] = q[j]
        /\ Append(q, NoPath)[Len(q) + 1] = NoPath
    BY <1>4, <2>1, AppendIs
  <2> QED
    BY <2>1, <2>2
<1>14. Grown(Append(l, line), Append(q, NoPath), l, q, line, n)
  BY <1>1, <1>2, <1>12, <1>13 DEF Grown
<1> QED
  BY <1>3, <1>8, <1>10, <1>11, <1>14

LEMMA GapTyped ==
    ASSUME NEW l, NEW q, NEW o, NEW p, NEW sc, NEW w, NEW n, Keyword(l, q, o, p, sc, w, n)
    PROVE  Keyword(Append(l, PlainLine("blank")), Append(q, NoPath), Append(o, 0), p, sc, w, n)
<1>1. PICK line, m, k, r : /\ line = PlainLine("blank") /\ m = Append(l, line) /\ k = Len(l)
                           /\ r = Append(q, NoPath)
  OBVIOUS
<1>o. PICK owner : owner = 0
  OBVIOUS
<1>2. line \in LineSet /\ line.kind = "blank" /\ line.declared = FALSE /\ line.begins = FALSE
  <2>1. "blank" \in Kinds
    BY DEF Kinds
  <2> QED
    BY <1>1, <2>1, PlainIsLine
<1>3. /\ Typed(m, r, Append(o, owner), n + 1, p, StateOf(sc, p, w)) /\ NamesMeant(m, r, n)
      /\ Len(m) = k + 1 /\ k \in Nat /\ n \in Nat /\ n + 1 <= k
      /\ \A j \in 1..k : m[j] = l[j] /\ r[j] = q[j]
      /\ m[k + 1] = line /\ r[k + 1] = NoPath
  <2>1. (line.kind = "blank" /\ owner = 0) \/ (line.kind = "text" /\ owner = n + 1)
    BY <1>2, <1>o
  <2>2. Typed(Append(l, line), Append(q, NoPath), Append(o, owner), n + 1, p,
              StateOf(sc, p, w))
    BY <1>2, <1>o, <2>1, AfterKeyword
  <2>3. NamesMeant(Append(l, line), Append(q, NoPath), n)
    BY <1>2, <1>o, <2>1, AfterKeyword
  <2>4. Grown(Append(l, line), Append(q, NoPath), l, q, line, n)
    BY <1>2, <1>o, <2>1, AfterKeyword
  <2> QED
    BY <1>1, <2>2, <2>3, <2>4 DEF Grown
<1>4. /\ p \in Provers /\ ScopesMeant(sc, p)
      /\ q[n + 1][2] = DeclName /\ l[n + 1].name = NoName
      /\ \A j \in (n + 2)..k : l[j].kind = "blank" /\ q[j] = NoPath
  BY <1>1 DEF Keyword
<1>5. r[n + 1] = q[n + 1] /\ m[n + 1] = l[n + 1]
  BY <1>3
<1>6. ASSUME NEW j \in (n + 2)..(k + 1) PROVE m[j].kind = "blank" /\ r[j] = NoPath
  <2>1. CASE j = k + 1
    BY <1>2, <1>3, <2>1
  <2>2. CASE j # k + 1
    <3>1. j \in (n + 2)..k /\ j \in 1..k
      BY <1>3, <2>2
    <3> QED
      BY <1>3, <1>4, <3>1
  <2> QED
    BY <2>1, <2>2
<1>7. Keyword(m, r, Append(o, owner), p, sc, w, n)
  BY <1>3, <1>4, <1>5, <1>6 DEF Keyword
<1> QED
  BY <1>1, <1>o, <1>7

LEMMA NameTyped ==
    ASSUME NEW l, NEW q, NEW o, NEW p, NEW sc, NEW w, NEW n, Keyword(l, q, o, p, sc, w, n),
           NEW line \in LineSet, line.kind = "text", line.declared = FALSE,
           line.begins = FALSE, line.name = NameGlued
    PROVE  Core(Append(l, line), Append(q, NoPath), Append(o, n + 1), n + 1, p, sc, w)
<1>1. PICK m, k, r : m = Append(l, line) /\ k = Len(l) /\ r = Append(q, NoPath)
  OBVIOUS
<1>2. PICK owner : owner = n + 1
  OBVIOUS
<1>3. owner \in Nat
  BY <1>2 DEF Keyword
<1>4. /\ Typed(m, r, Append(o, owner), n + 1, p, StateOf(sc, p, w)) /\ NamesMeant(m, r, n)
      /\ Len(m) = k + 1 /\ k \in Nat /\ n \in Nat /\ n + 1 <= k
      /\ \A j \in 1..k : m[j] = l[j] /\ r[j] = q[j]
      /\ m[k + 1] = line /\ r[k + 1] = NoPath
  <2>1. (line.kind = "blank" /\ owner = 0) \/ (line.kind = "text" /\ owner = n + 1)
    BY <1>2
  <2>2. Typed(Append(l, line), Append(q, NoPath), Append(o, owner), n + 1, p,
              StateOf(sc, p, w))
    BY <1>3, <2>1, AfterKeyword
  <2>3. NamesMeant(Append(l, line), Append(q, NoPath), n)
    BY <1>3, <2>1, AfterKeyword
  <2>4. Grown(Append(l, line), Append(q, NoPath), l, q, line, n)
    BY <1>3, <2>1, AfterKeyword
  <2> QED
    BY <1>1, <2>2, <2>3, <2>4 DEF Grown
<1>5. /\ p \in Provers /\ ScopesMeant(sc, p)
      /\ q[n + 1][2] = DeclName /\ l[n + 1].name = NoName
      /\ \A j \in (n + 2)..k : l[j].kind = "blank" /\ q[j] = NoPath
  BY <1>1 DEF Keyword
<1>6. r[n + 1] = q[n + 1] /\ m[n + 1] = l[n + 1]
  BY <1>4
<1>7. \A j \in LaterLines(m, n + 1) : j = k + 1
  <2> SUFFICES ASSUME NEW j \in LaterLines(m, n + 1), j # k + 1 PROVE FALSE
    OBVIOUS
  <2>1. j \in (n + 2)..(k + 1) /\ m[j].kind # "blank"
    BY <1>4 DEF LaterLines
  <2>2. j \in (n + 2)..k /\ j \in 1..k
    BY <1>4, <2>1
  <2> QED
    BY <1>4, <1>5, <2>1, <2>2
<1>8. k + 1 \in LaterLines(m, n + 1)
  BY <1>4 DEF LaterLines
<1>9. LaterLines(m, n + 1) = {k + 1}
  BY <1>7, <1>8
<1>10. Min(LaterLines(m, n + 1)) = k + 1
  BY <1>4, <1>9, OnlyElement
<1>11. DeclNameFrom(m, n + 1) = DeclName
  BY <1>4, <1>5, <1>6, <1>8, <1>10, NameFromIs, GluedNormal
<1>12. NameMeant(m, r, n + 1)
  BY <1>5, <1>6, <1>8, <1>11 DEF NameMeant
<1>13. ASSUME NEW i \in 1..(k + 1) PROVE NameMeant(m, r, i)
  <2>1. CASE i \in 1..n
    BY <1>4, <2>1 DEF NamesMeant
  <2>2. CASE i = n + 1
    BY <1>12, <2>2
  <2>3. CASE i \in (n + 2)..k
    <3>1. i \in 1..k
      BY <1>4, <2>3
    <3>2. r[i] = NoPath
      BY <1>4, <1>5, <2>3, <3>1
    <3> QED
      BY <3>2 DEF NameMeant
  <2>4. CASE i = k + 1
    BY <1>4, <2>4 DEF NameMeant
  <2> QED
    BY <1>4, <2>1, <2>2, <2>3, <2>4
<1>14. NamesMeant(m, r, Len(m))
  BY <1>4, <1>13 DEF NamesMeant
<1>15. Core(m, r, Append(o, owner), n + 1, p, sc, w)
  BY <1>4, <1>5, <1>14 DEF Core
<1> QED
  BY <1>1, <1>2, <1>15

LEMMA TwoMore ==
    ASSUME NEW S, NEW s \in Seq(S), NEW t \in Seq(S), Len(t) = 2
    PROVE  s \o t = Append(Append(s, t[1]), t[2])
<1>1. PICK n, x, y : n = Len(s) /\ x = t[1] /\ y = t[2]
  OBVIOUS
<1>2. n \in Nat /\ x \in S /\ y \in S
  <2>1. 1 \in 1..Len(t) /\ 2 \in 1..Len(t)
    OBVIOUS
  <2> QED
    BY <1>1, <2>1, SeqIs
<1>3. PICK a : a = Append(s, x)
  OBVIOUS
<1>4. a \in Seq(S) /\ Len(a) = n + 1 /\ (\A k \in 1..n : a[k] = s[k]) /\ a[n + 1] = x
  BY <1>1, <1>2, <1>3, AppendIs
<1>5. PICK b : b = Append(a, y)
  OBVIOUS
<1>6. b \in Seq(S) /\ Len(b) = Len(a) + 1 /\ (\A k \in 1..Len(a) : b[k] = a[k])
      /\ b[Len(a) + 1] = y
  BY <1>2, <1>4, <1>5, AppendIs
<1>7. Len(b) = n + 2 /\ (\A k \in 1..n : b[k] = s[k]) /\ b[n + 1] = x /\ b[n + 2] = y
  <2>1. n + 1 \in 1..Len(a) /\ (n + 1) + 1 = n + 2 /\ \A k \in 1..n : k \in 1..Len(a)
    BY <1>2, <1>4
  <2> QED
    BY <1>4, <1>6, <2>1
<1>8. PICK c : c = s \o t
  OBVIOUS
<1>c. c \in Seq(S) /\ Concatenates(c, s, t)
  BY <1>8, ConcatIs
<1>9. c \in Seq(S) /\ Len(c) = n + 2 /\ \A k \in 1..n : c[k] = s[k]
  BY <1>1, <1>c DEF Concatenates
<1>10. c[n + 1] = x /\ c[n + 2] = y
  <2>1. \A k \in 1..Len(t) : c[n + k] = t[k]
    BY <1>1, <1>c DEF Concatenates
  <2>2. 1 \in 1..Len(t) /\ 2 \in 1..Len(t)
    OBVIOUS
  <2> QED
    BY <1>1, <2>1, <2>2
<1>11. \A k \in 1..Len(c) : k \in 1..n \/ k = n + 1 \/ k = n + 2
  BY <1>2, <1>9
<1>12. \A k \in 1..Len(c) : c[k] = b[k]
  BY <1>7, <1>9, <1>10, <1>11
<1>13. c = b
  BY <1>6, <1>7, <1>9, <1>12, SeqsEqual
<1> QED
  BY <1>1, <1>3, <1>5, <1>8, <1>13

LEMMA ThreeMore ==
    ASSUME NEW S, NEW s \in Seq(S), NEW t \in Seq(S), Len(t) = 3
    PROVE  s \o t = Append(Append(Append(s, t[1]), t[2]), t[3])
<1>1. PICK n, x, y, z : n = Len(s) /\ x = t[1] /\ y = t[2] /\ z = t[3]
  OBVIOUS
<1>2. n \in Nat /\ x \in S /\ y \in S /\ z \in S
  <2>1. 1 \in 1..Len(t) /\ 2 \in 1..Len(t) /\ 3 \in 1..Len(t)
    OBVIOUS
  <2> QED
    BY <1>1, <2>1, SeqIs
<1>3. PICK u : u = <<x, y>>
  OBVIOUS
<1>4. u \in Seq(S) /\ Len(u) = 2 /\ u[1] = x /\ u[2] = y
  BY <1>2, <1>3
<1>5. PICK b : b = s \o u
  OBVIOUS
<1>6. b = Append(Append(s, x), y)
  BY <1>4, <1>5, TwoMore
<1>c. b \in Seq(S) /\ Concatenates(b, s, u)
  BY <1>4, <1>5, ConcatIs
<1>7. b \in Seq(S) /\ Len(b) = n + 2 /\ \A k \in 1..n : b[k] = s[k]
  BY <1>1, <1>4, <1>c DEF Concatenates
<1>8. b[n + 1] = x /\ b[n + 2] = y
  <2>1. \A k \in 1..Len(u) : b[n + k] = u[k]
    BY <1>1, <1>4, <1>c DEF Concatenates
  <2>2. 1 \in 1..Len(u) /\ 2 \in 1..Len(u)
    BY <1>4
  <2> QED
    BY <1>4, <2>1, <2>2
<1>9. PICK d : d = Append(b, z)
  OBVIOUS
<1>10. d \in Seq(S) /\ Len(d) = Len(b) + 1 /\ (\A k \in 1..Len(b) : d[k] = b[k])
       /\ d[Len(b) + 1] = z
  BY <1>2, <1>7, <1>9, AppendIs
<1>11. Len(d) = n + 3 /\ (\A k \in 1..n : d[k] = s[k]) /\ d[n + 1] = x /\ d[n + 2] = y
       /\ d[n + 3] = z
  <2>1. /\ n + 1 \in 1..Len(b) /\ n + 2 \in 1..Len(b) /\ (n + 2) + 1 = n + 3
        /\ \A k \in 1..n : k \in 1..Len(b)
    BY <1>2, <1>7
  <2> QED
    BY <1>7, <1>8, <1>10, <2>1
<1>12. PICK c : c = s \o t
  OBVIOUS
<1>d. c \in Seq(S) /\ Concatenates(c, s, t)
  BY <1>12, ConcatIs
<1>13. c \in Seq(S) /\ Len(c) = n + 3 /\ \A k \in 1..n : c[k] = s[k]
  BY <1>1, <1>d DEF Concatenates
<1>14. c[n + 1] = x /\ c[n + 2] = y /\ c[n + 3] = z
  <2>1. \A k \in 1..Len(t) : c[n + k] = t[k]
    BY <1>1, <1>d DEF Concatenates
  <2>2. 1 \in 1..Len(t) /\ 2 \in 1..Len(t) /\ 3 \in 1..Len(t)
    OBVIOUS
  <2> QED
    BY <1>1, <2>1, <2>2
<1>15. \A k \in 1..Len(c) : k \in 1..n \/ k = n + 1 \/ k = n + 2 \/ k = n + 3
  BY <1>2, <1>13
<1>16. \A k \in 1..Len(c) : c[k] = d[k]
  BY <1>11, <1>13, <1>14, <1>15
<1>17. c = d
  BY <1>10, <1>11, <1>13, <1>16, SeqsEqual
<1> QED
  BY <1>1, <1>6, <1>9, <1>12, <1>17

LEMMA SplitDeclTyped ==
    ASSUME SpansInv, TypeSplitDecl PROVE SpansInv'
<1>1. PICK w : /\ Core(lines, paths, owners, current, spanProver, scopes, w)
               /\ HeaderMeant(header, scopes, spanProver, w)
  BY DEF SpansInv
<1>2. PICK name : name = [PlainLine("text") EXCEPT !.name = NameGlued, !.indent = 1]
  OBVIOUS
<1>3. /\ name \in LineSet /\ name.kind = "text" /\ name.declared = FALSE
      /\ name.begins = FALSE /\ name.name = NameGlued
  <2>1. name = [kind |-> "text", name |-> NameGlued, indent |-> 1, target |-> NoTarget,
                declared |-> FALSE, begins |-> FALSE, quoted |-> FALSE]
    BY <1>2 DEF PlainLine
  <2>2. "text" \in Kinds /\ NoTarget \in Targets
    BY DEF Targets, Kinds
  <2>3. name \in LineSet
    BY <2>1, <2>2, NamesAreChars DEF LineSet
  <2> QED
    BY <2>1, <2>3
<1>4. PICK first, blank : first = PlainLine("decl") /\ blank = PlainLine("blank")
  OBVIOUS
<1>5. first \in LineSet /\ blank \in LineSet /\ first.kind = "decl" /\ blank.kind = "blank"
  <2>1. "decl" \in Kinds /\ "blank" \in Kinds
    BY DEF Kinds
  <2> QED
    BY <1>4, <2>1, PlainIsLine
<1>6. PICK path, n : path = <<Enclosing, DeclName>> /\ n = Len(lines)
  OBVIOUS
<1>7. /\ lines \in Seq(LineSet) /\ paths \in Seq(PathSet) /\ owners \in Seq(Nat) /\ n \in Nat
      /\ scopes \in Seq(ScopeSet)
  BY <1>1, <1>6, CoreIs DEF Texts
<1>8. path \in PathSet /\ NoPath \in PathSet
  BY <1>6, <1>7, PathsAre, NamesAreChars DEF Enclosing
<1>9. PICK gap \in BOOLEAN : \E added :
        /\ added = IF gap THEN <<first, blank, name>> ELSE <<first, name>>
        /\ lines' = lines \o added
        /\ paths' = paths \o [k \in DOMAIN added |-> IF k = 1 THEN path ELSE NoPath]
        /\ owners' = owners \o [k \in DOMAIN added |->
                                   IF added[k].kind = "blank" THEN 0 ELSE n + 1]
        /\ current' = n + 1
  BY <1>2, <1>4, <1>6 DEF TypeSplitDecl
<1>g. PICK added :
        /\ added = IF gap THEN <<first, blank, name>> ELSE <<first, name>>
        /\ lines' = lines \o added
        /\ paths' = paths \o [k \in DOMAIN added |-> IF k = 1 THEN path ELSE NoPath]
        /\ owners' = owners \o [k \in DOMAIN added |->
                                   IF added[k].kind = "blank" THEN 0 ELSE n + 1]
        /\ current' = n + 1
  BY <1>9
<1>10. header' = NoScope /\ spanProver' = spanProver /\ scopes' = scopes
  BY DEF TypeSplitDecl
<1>11. PICK l, q, o : /\ l = Append(lines, first) /\ q = Append(paths, path)
                      /\ o = Append(owners, n + 1)
  OBVIOUS
<1>12. Keyword(l, q, o, spanProver, scopes, w, n)
  BY <1>1, <1>4, <1>6, <1>11, KeywordTyped DEF Enclosing
<1>13. ASSUME ~gap PROVE Core(lines', paths', owners', current', spanProver, scopes, w)
  <2>1. PICK t : t = <<first, name>>
    OBVIOUS
  <2>2. t \in Seq(LineSet) /\ Len(t) = 2 /\ t[1] = first /\ t[2] = name /\ DOMAIN t = 1..2
    BY <1>3, <1>5, <2>1
  <2>3. PICK u, v : /\ u = [k \in 1..2 |-> IF k = 1 THEN path ELSE NoPath]
                    /\ v = [k \in 1..2 |-> IF t[k].kind = "blank" THEN 0 ELSE n + 1]
    OBVIOUS
  <2>a. added = t
    BY <1>g, <1>13, <2>1
  <2>4. lines' = lines \o t /\ paths' = paths \o u /\ owners' = owners \o v
    BY <1>g, <2>a, <2>2, <2>3
  <2>5. u \in Seq(PathSet) /\ Len(u) = 2 /\ u[1] = path /\ u[2] = NoPath
    <3>1. u \in [1..2 -> PathSet]
      BY <1>8, <2>3
    <3> QED
      BY <2>3, <3>1
  <2>6. v \in Seq(Nat) /\ Len(v) = 2 /\ v[1] = n + 1 /\ v[2] = n + 1
    <3>1. v \in [1..2 -> Nat]
      BY <1>7, <2>3
    <3> QED
      BY <1>3, <1>5, <2>2, <2>3, <3>1
  <2>7. lines' = Append(l, name)
    BY <1>7, <1>11, <2>2, <2>4, TwoMore
  <2>8. paths' = Append(q, NoPath)
    BY <1>7, <1>11, <2>4, <2>5, TwoMore
  <2>9. owners' = Append(o, n + 1)
    BY <1>7, <1>11, <2>4, <2>6, TwoMore
  <2> QED
    BY <1>3, <1>g, <1>12, <2>7, <2>8, <2>9, NameTyped
<1>14. ASSUME gap PROVE Core(lines', paths', owners', current', spanProver, scopes, w)
  <2>1. PICK t : t = <<first, blank, name>>
    OBVIOUS
  <2>2. t \in Seq(LineSet) /\ Len(t) = 3 /\ t[1] = first /\ t[2] = blank /\ t[3] = name
        /\ DOMAIN t = 1..3
    BY <1>3, <1>5, <2>1
  <2>3. PICK u, v : /\ u = [k \in 1..3 |-> IF k = 1 THEN path ELSE NoPath]
                    /\ v = [k \in 1..3 |-> IF t[k].kind = "blank" THEN 0 ELSE n + 1]
    OBVIOUS
  <2>a. added = t
    BY <1>g, <1>14, <2>1
  <2>4. lines' = lines \o t /\ paths' = paths \o u /\ owners' = owners \o v
    BY <1>g, <2>a, <2>2, <2>3
  <2>5. u \in Seq(PathSet) /\ Len(u) = 3 /\ u[1] = path /\ u[2] = NoPath /\ u[3] = NoPath
    <3>1. u \in [1..3 -> PathSet]
      BY <1>8, <2>3
    <3> QED
      BY <2>3, <3>1
  <2>6. v \in Seq(Nat) /\ Len(v) = 3 /\ v[1] = n + 1 /\ v[2] = 0 /\ v[3] = n + 1
    <3>1. v \in [1..3 -> Nat]
      BY <1>7, <2>3
    <3> QED
      BY <1>3, <1>5, <2>2, <2>3, <3>1
  <2>7. lines' = Append(Append(l, blank), name)
    BY <1>7, <1>11, <2>2, <2>4, ThreeMore
  <2>8. paths' = Append(Append(q, NoPath), NoPath)
    BY <1>7, <1>11, <2>4, <2>5, ThreeMore
  <2>9. owners' = Append(Append(o, 0), n + 1)
    BY <1>7, <1>11, <2>4, <2>6, ThreeMore
  <2>10. PICK l2, q2, o2 : /\ l2 = Append(l, blank) /\ q2 = Append(q, NoPath)
                           /\ o2 = Append(o, 0)
    OBVIOUS
  <2>11. Keyword(l2, q2, o2, spanProver, scopes, w, n)
    BY <1>4, <1>12, <2>10, GapTyped
  <2>12. Core(Append(l2, name), Append(q2, NoPath), Append(o2, n + 1), n + 1, spanProver,
              scopes, w)
    BY <1>3, <2>11, NameTyped
  <2> QED
    BY <1>g, <2>7, <2>8, <2>9, <2>10, <2>12
<1>15. Core(lines', paths', owners', current', spanProver', scopes', w)
  BY <1>10, <1>13, <1>14
<1>16. HeaderMeant(header', scopes', spanProver', w)
  BY <1>10 DEF HeaderMeant
<1> QED
  BY <1>15, <1>16 DEF SpansInv

LEMMA SpansStay ==
    ASSUME SpansInv, UNCHANGED spansVars PROVE SpansInv'
BY DEF SpansInv, spansVars

LEMMA SpansStep == SpansInv /\ [SpansNext]_spansVars => SpansInv'
<1> SUFFICES ASSUME SpansInv, [SpansNext]_spansVars PROVE SpansInv'
  OBVIOUS
<1>1. CASE OpenScope
  BY <1>1, ScopeOpened
<1>2. CASE OpenLocale
  BY <1>2, LocaleOpened
<1>3. CASE BeginLocale
  BY <1>3, LocaleBegun
<1>4. CASE OpenContext
  BY <1>4, ContextOpened
<1>5. CASE CloseScope
  BY <1>5, ScopeClosed
<1>6. CASE TypeDecl
  BY <1>6, DeclTyped
<1>7. CASE TypeSplitDecl
  BY <1>7, SplitDeclTyped
<1>8. CASE TypeBody
  BY <1>8, BodyTyped
<1>9. CASE TypeQuoted
  BY <1>9, QuotedTyped
<1>10. CASE TypeEndWord
  BY <1>10, EndWordTyped
<1>11. CASE TypeCommand
  BY <1>11, CommandTyped
<1>12. CASE TypeBlank
  BY <1>12, BlankTyped
<1>13. CASE UNCHANGED spansVars
  BY <1>13, SpansStay
<1> QED
  BY <1>1, <1>2, <1>3, <1>4, <1>5, <1>6, <1>7, <1>8, <1>9, <1>10, <1>11, <1>12, <1>13
     DEF SpansNext

LEMMA SpansInvHolds == SpansSpec => []SpansInv
<1> QED
  BY SpansBegin, SpansStep, PTL DEF SpansSpec

-----------------------------------------------------------------------------
(* The keys and the spans are true.                                        *)

LEMMA KeysTrue == SpansInv => KeysAreTrueNames /\ WalksAgree
<1> SUFFICES ASSUME SpansInv PROVE KeysAreTrueNames /\ WalksAgree
  OBVIOUS
<1>1. PICK w : Core(lines, paths, owners, current, spanProver, scopes, w)
  BY DEF SpansInv
<1>2. /\ Len(lines) \in Nat /\ lines \in Seq(LineSet) /\ paths \in Seq(PathSet)
      /\ Len(paths) = Len(lines)
  BY <1>1, CoreIs DEF Texts
<1>3. DOMAIN lines = 1..Len(lines)
  BY <1>2
<1>4. /\ LinesMeant(lines, paths, owners, spanProver)
      /\ WalkMeant(lines, paths, StateOf(scopes, spanProver, w), spanProver)
      /\ NamesMeant(lines, paths, Len(lines))
  BY <1>1 DEF Core, Typed
<1>5. PICK f : /\ Walked(f, lines, spanProver)
               /\ \A i \in 1..Len(lines) : Starts(lines[i], spanProver) =>
                    paths[i][1] = PrefixOf(IF lines[i].declared THEN f[i - 1].stack
                                           ELSE f[i].stack, lines[i])
  BY <1>4 DEF WalkMeant
<1>a. KeysOf(QualifyDeclNames(lines, spanProver), lines, spanProver, f)
  BY <1>2, <1>5, QualifyIs
<1>6. QualifyDeclNames(lines, spanProver) =
        [i \in {k \in 1..Len(lines) : Starts(lines[k], spanProver)} |->
            ScopePath(IF lines[i].declared THEN f[i - 1].stack ELSE f[i].stack, lines, i)]
  BY <1>a DEF KeysOf
<1>7. \A k \in 1..Len(lines) : paths[k] # NoPath <=> Starts(lines[k], spanProver)
  BY <1>4 DEF LinesMeant, LineMeant
<1>8. ASSUME NEW i \in 1..Len(lines), Starts(lines[i], spanProver)
      PROVE  paths[i] = ScopePath(IF lines[i].declared THEN f[i - 1].stack ELSE f[i].stack,
                                  lines, i)
  <2>1. PICK stack : stack = IF lines[i].declared THEN f[i - 1].stack ELSE f[i].stack
    OBVIOUS
  <2>2. paths[i] # NoPath /\ paths[i] \in PathSet
    BY <1>2, <1>7, <1>8
  <2>3. paths[i] = <<paths[i][1], paths[i][2]>>
    BY <2>2 DEF PathSet
  <2>4. paths[i][1] = PrefixOf(stack, lines[i])
    BY <1>5, <1>8, <2>1
  <2>5. paths[i][2] = DeclNameFrom(lines, i)
    BY <1>4, <2>2 DEF NamesMeant, NameMeant
  <2> QED
    BY <2>1, <2>3, <2>4, <2>5, ScopePathIs
<1>9. {k \in 1..Len(lines) : Starts(lines[k], spanProver)}
        = {k \in DOMAIN lines : paths[k] # NoPath}
  BY <1>3, <1>7
<1>10. QualifyDeclNames(lines, spanProver)
         = [i \in {k \in 1..Len(lines) : Starts(lines[k], spanProver)} |-> paths[i]]
  BY <1>6, <1>8
<1>11. KeysAreTrueNames
  BY <1>9, <1>10 DEF KeysAreTrueNames
<1>12. DOMAIN QualifyDeclNames(lines, spanProver)
         = {k \in 1..Len(lines) : Starts(lines[k], spanProver)}
  BY <1>6
<1>13. WalksAgree
  <2>1. DOMAIN FindDeclSpans(lines, spanProver) = DeclStarts(lines, spanProver)
    BY SpansAre
  <2>2. DeclStarts(lines, spanProver) = {k \in 1..Len(lines) : Starts(lines[k], spanProver)}
    BY StartsAre
  <2> QED
    BY <1>12, <2>1, <2>2 DEF WalksAgree
<1> QED
  BY <1>11, <1>13

LEMMA SpansTrue == SpansInv => SpansCoverBodies /\ SpansTakeNothingElse
<1> SUFFICES ASSUME SpansInv PROVE SpansCoverBodies /\ SpansTakeNothingElse
  OBVIOUS
<1>1. PICK w : Core(lines, paths, owners, current, spanProver, scopes, w)
  BY DEF SpansInv
<1>2. /\ Texts(lines, paths, owners) /\ LinesMeant(lines, paths, owners, spanProver)
      /\ lines \in Seq(LineSet)
  BY <1>1 DEF Core, Typed, Texts
<1>3. DOMAIN lines = 1..Len(lines)
  BY <1>2
<1>4. PICK spans : spans = FindDeclSpans(lines, spanProver)
  OBVIOUS
<1>5. DOMAIN spans = DeclStarts(lines, spanProver)
  BY <1>4, SpansAre
<1>6. ASSUME \A k \in 1..Len(lines) : lines[k].kind # "endword",
             NEW k \in 1..Len(lines), owners[k] # 0
      PROVE  owners[k] \in DOMAIN spans /\ k <= spans[owners[k]]
  BY <1>2, <1>4, <1>5, <1>6, SpanCovers
<1>7. SpansCoverBodies
  BY <1>3, <1>4, <1>6 DEF SpansCoverBodies
<1>8. ASSUME spanProver = "rocq" => \A k \in 1..Len(lines) : lines[k].kind # "scope",
             NEW i \in DOMAIN spans, NEW k \in i..spans[i]
      PROVE  lines[k].kind = "blank" \/ owners[k] = i
  BY <1>2, <1>4, <1>5, <1>8, SpanTakes
<1>9. SpansTakeNothingElse
  BY <1>3, <1>4, <1>8 DEF SpansTakeNothingElse
<1> QED
  BY <1>7, <1>9

\* Whatever its author types, a file's declarations are found under their true
\* names and with all of their lines, and with none of another's.
THEOREM SpansAlwaysTrue == SpansSpec => []SpansAreTrue
<1>1. SpansInv => SpansAreTrue
  BY KeysTrue, SpansTrue DEF SpansAreTrue
<1> QED
  BY <1>1, SpansInvHolds, PTL
=============================================================================
