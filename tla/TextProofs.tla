------------------------------ MODULE TextProofs ------------------------------
(***************************************************************************)
(* A text has one reading.  The provers' syntax has nested comments,       *)
(* strings with escapes, verbatim spans and line comments; the gate skips  *)
(* them in two ways, once by blanking every comment of a file and once by  *)
(* jumping from the start of a span to its end.  Both read, for a text of  *)
(* any length, what a lexer that takes one symbol at a time reads.         *)
(***************************************************************************)
EXTENDS IsabelleStatement, RocqStatement, FoldLemmas

-----------------------------------------------------------------------------
(* The lexer.                                                              *)

At(m, d) == [mode |-> m, depth |-> d]
Code == At("code", 0)
Modes == {"code", "line", "block", "verbatim", "string", "escaped"}

\* Only comments and verbatim spans have a depth.
LexStateSet ==
    {At(m, d) : m \in {"block", "verbatim"}, d \in Nat \ {0}}
    \cup {At(m, 0) : m \in Modes \ {"block", "verbatim"}}

LEMMA InCode ==
    ASSUME NEW s, NEW x
    PROVE  Lex(Code, s, x) = CASE s = BlockOpen -> At("block", 1)
                               [] s = LineMarker /\ x.line -> At("line", 0)
                               [] s = Open /\ x.verbatim -> At("verbatim", 1)
                               [] s = Quote -> At("string", 0)
                               [] OTHER -> Code
BY DEF Lex, Code, At, BlockOpen, LineMarker, Open, Quote

LEMMA InBlock ==
    ASSUME NEW s, NEW x, NEW d \in Nat \ {0}
    PROVE  Lex(At("block", d), s, x) =
             CASE s = BlockOpen -> At("block", d + 1)
               [] s = BlockClose -> IF d = 1 THEN Code ELSE At("block", d - 1)
               [] OTHER -> At("block", d)
BY DEF Lex, Code, At, BlockOpen, BlockClose

LEMMA InVerbatim ==
    ASSUME NEW s, NEW x, NEW d \in Nat \ {0}
    PROVE  Lex(At("verbatim", d), s, x) =
             CASE s = Open -> At("verbatim", d + 1)
               [] s = Close -> IF d = 1 THEN Code ELSE At("verbatim", d - 1)
               [] OTHER -> At("verbatim", d)
BY DEF Lex, Code, At, Open, Close

LEMMA InLine ==
    ASSUME NEW s, NEW x
    PROVE  Lex(At("line", 0), s, x) = IF s = NewLine THEN Code ELSE At("line", 0)
BY DEF Lex, Code, At

LEMMA InString ==
    ASSUME NEW s, NEW x
    PROVE  /\ Lex(At("string", 0), s, x) = CASE s = Quote -> Code
                                             [] s = Escape -> At("escaped", 0)
                                             [] OTHER -> At("string", 0)
           /\ Lex(At("escaped", 0), s, x) = At("string", 0)
BY DEF Lex, Code, At, Quote, Escape

LEMMA LexStaysInStates ==
    ASSUME NEW state \in LexStateSet, NEW s, NEW x
    PROVE  Lex(state, s, x) \in LexStateSet
<1>1. Code \in LexStateSet /\ \A m \in {"line", "string", "escaped"} : At(m, 0) \in LexStateSet
  BY DEF LexStateSet, Code, Modes
<1>2. \A m \in {"block", "verbatim"}, d \in Nat \ {0} :
        At(m, d) \in LexStateSet /\ (d # 1 => At(m, d - 1) \in LexStateSet)
        /\ At(m, d + 1) \in LexStateSet
  <2>1. \A d \in Nat \ {0} : d + 1 \in Nat \ {0} /\ (d # 1 => d - 1 \in Nat \ {0})
    OBVIOUS
  <2> QED
    BY <2>1 DEF LexStateSet
<1>3. CASE \E d \in Nat \ {0} : state = At("block", d)
  BY <1>1, <1>2, <1>3, InBlock
<1>4. CASE \E d \in Nat \ {0} : state = At("verbatim", d)
  BY <1>1, <1>2, <1>4, InVerbatim
<1>5. CASE state = Code
  <2>1. At("block", 1) \in LexStateSet /\ At("verbatim", 1) \in LexStateSet
    BY <1>2
  <2> QED
    BY <1>1, <2>1, <1>5, InCode
<1>6. CASE state = At("line", 0)
  BY <1>1, <1>6, InLine
<1>7. CASE state \in {At("string", 0), At("escaped", 0)}
  BY <1>1, <1>7, InString
<1> QED
  BY <1>3, <1>4, <1>5, <1>6, <1>7 DEF LexStateSet, Modes, Code

\* L is the run of the lexer over t.
IsRun(L, t, x) ==
    /\ L \in Seq(LexStateSet) /\ Len(L) = Len(t) + 1
    /\ L[1] = Code
    /\ \A k \in 1..Len(t) : L[k + 1] = Lex(L[k], t[k], x)

IsStates(f, t, x) ==
    f = [k \in Nat |->
            IF k = 0 THEN <<[mode |-> "code", depth |-> 0]>>
            ELSE LET before == f[k - 1]
                 IN  Append(before, Lex(before[k], t[k], x))]

LEMMA StatesExist ==
    ASSUME NEW t, NEW x
    PROVE  \E f : IsStates(f, t, x)
<1> DEFINE V == Seq(LexStateSet)
           base == [k \in Nat |-> <<[mode |-> "code", depth |-> 0]>>]
           next == [k \in Nat |-> IF k = 0 THEN 0 ELSE k - 1]
           more(k, b) == IF k \in 1..Len(b) THEN Append(b, Lex(b[k], t[k], x)) ELSE b
           g == [k \in Nat |-> [b \in V |-> more(k, b)]]
           rank == [k \in Nat |-> k]
<1>1. base \in [Nat -> V]
  <2>1. [mode |-> "code", depth |-> 0] \in LexStateSet
    BY DEF LexStateSet, At, Modes
  <2> QED
    BY <2>1
<1>2. \A k \in Nat, b \in V : more(k, b) \in V
  <2>1. \A k \in Nat, b \in V : k \in 1..Len(b) => Lex(b[k], t[k], x) \in LexStateSet
    BY LexStaysInStates
  <2> QED
    BY <2>1
<1>3. g \in [Nat -> [V -> V]]
  <2> HIDE DEF more, V
  <2> QED BY <1>2
<1>4. PICK f : IsWalk(f, Nat, V, {0}, base, next, g)
  <2>1. next \in [Nat -> Nat] /\ rank \in [Nat -> Nat]
        /\ \A k \in Nat : k \notin {0} => rank[next[k]] < rank[k]
    OBVIOUS
  <2> HIDE DEF V, base, next, g, rank
  <2> QED
    BY <1>1, <1>3, <2>1, WalkExists
<1>5. f \in [Nat -> V] /\ f[0] = <<[mode |-> "code", depth |-> 0]>>
  BY <1>4 DEF IsWalk
<1>6. ASSUME NEW k \in Nat, k # 0 PROVE f[k] = more(k, f[k - 1])
  <2>1. f[k] = g[k][f[next[k]]]
    <3> HIDE DEF g, next, base, V
    <3> QED BY <1>4, <1>6 DEF IsWalk
  <2>2. next[k] = k - 1 /\ k - 1 \in Nat
    BY <1>6
  <2>3. f[k - 1] \in V
    BY <1>5, <2>2
  <2> HIDE DEF next, more, V
  <2> QED
    BY <2>1, <2>2, <2>3
<1> DEFINE Right == {k \in Nat : Len(f[k]) = k + 1}
<1>7. 0 \in Right
  <2>1. \A a : Len(<<a>>) = 1
    OBVIOUS
  <2>2. Len(f[0]) = 1
    BY <1>5, <2>1, Zenon
  <2> QED
    BY <2>2
<1>8. ASSUME NEW k \in Nat, k \in Right PROVE k + 1 \in Right
  <2>1. k + 1 \in Nat /\ (k + 1) - 1 = k /\ k + 1 # 0
    OBVIOUS
  <2>2. f[k + 1] = more(k + 1, f[k])
    <3> HIDE DEF more
    <3> QED BY <1>6, <2>1
  <2>3. f[k] \in V /\ Len(f[k]) = k + 1
    BY <1>5, <1>8
  <2>4. more(k + 1, f[k]) = Append(f[k], Lex(f[k][k + 1], t[k + 1], x))
    BY <2>3
  <2>5. \A a : Len(Append(f[k], a)) = k + 2
    BY <2>3
  <2> HIDE DEF more
  <2> QED
    BY <2>1, <2>2, <2>4, <2>5
<1>9. Nat \subseteq Right
  <2> HIDE DEF Right
  <2> QED BY <1>7, <1>8, SetInduction
<1>10. ASSUME NEW k \in Nat, k # 0 PROVE f[k] = Append(f[k - 1], Lex(f[k - 1][k], t[k], x))
  <2>1. k - 1 \in Nat /\ Len(f[k - 1]) = k
    BY <1>9, <1>10
  <2>2. k \in 1..Len(f[k - 1])
    BY <1>10, <2>1
  <2> QED
    BY <1>6, <1>10, <2>2
<1>11. IsStates(f, t, x)
  BY <1>5, <1>10 DEF IsStates
<1> QED
  BY <1>11

\* The states after k symbols.
RunUpTo(b, k, t, x) ==
    /\ b \in Seq(LexStateSet) /\ Len(b) = k + 1
    /\ b[1] = Code
    /\ \A j \in 1..k : b[j + 1] = Lex(b[j], t[j], x)

LEMMA RunGoesOn ==
    ASSUME NEW t, NEW x, NEW k \in Nat, NEW b, RunUpTo(b, k, t, x)
    PROVE  RunUpTo(Append(b, Lex(b[k + 1], t[k + 1], x)), k + 1, t, x)
<1> USE DEF RunUpTo
<1>1. PICK c : c = Append(b, Lex(b[k + 1], t[k + 1], x))
  OBVIOUS
<1>2. b[k + 1] \in LexStateSet
  OBVIOUS
<1>3. Lex(b[k + 1], t[k + 1], x) \in LexStateSet
  BY <1>2, LexStaysInStates
<1>4. c \in Seq(LexStateSet) /\ Len(c) = k + 2
  BY <1>1, <1>3
<1>5. c[k + 2] = Lex(b[k + 1], t[k + 1], x) /\ \A j \in 1..(k + 1) : c[j] = b[j]
  BY <1>1, <1>3
<1>6. ASSUME NEW j \in 1..(k + 1) PROVE c[j + 1] = Lex(c[j], t[j], x)
  <2>1. CASE j = k + 1
    BY <1>5, <2>1
  <2>2. CASE j # k + 1
    <3>1. j \in 1..k /\ j + 1 \in 1..(k + 1)
      BY <2>2
    <3>2. b[j + 1] = Lex(b[j], t[j], x)
      BY <3>1
    <3> QED
      BY <1>5, <3>1, <3>2
  <2> QED
    BY <2>1, <2>2
<1>7. c[1] = Code
  BY <1>5
<1> QED
  BY <1>1, <1>4, <1>6, <1>7

LEMMA LexStatesRun ==
    ASSUME NEW t \in Seq(Symbols), NEW x
    PROVE  IsRun(LexStates(t, x), t, x)
<1>1. PICK f : f = CHOOSE h : IsStates(h, t, x)
  OBVIOUS
<1>2. IsStates(f, t, x)
  BY <1>1, StatesExist
<1>3. LexStates(t, x) = f[Len(t)]
  BY <1>1 DEF LexStates, IsStates
<1> DEFINE Right == {k \in Nat : RunUpTo(f[k], k, t, x)}
<1>4. 0 \in Right
  <2>1. f[0] = <<Code>>
    BY <1>2 DEF IsStates, Code, At
  <2>2. Code \in LexStateSet
    BY DEF LexStateSet, Code, Modes
  <2>3. <<Code>> \in Seq(LexStateSet) /\ Len(<<Code>>) = 1 /\ <<Code>>[1] = Code
    BY <2>2
  <2>4. f[0] \in Seq(LexStateSet) /\ Len(f[0]) = 1 /\ f[0][1] = Code
    BY <2>1, <2>3, Zenon
  <2> QED
    BY <2>4 DEF RunUpTo
<1>5. ASSUME NEW k \in Nat, k \in Right PROVE k + 1 \in Right
  <2>1. k + 1 \in Nat /\ (k + 1) - 1 = k /\ k + 1 # 0
    OBVIOUS
  <2>2. f[k + 1] = Append(f[k], Lex(f[k][k + 1], t[k + 1], x))
    BY <1>2, <2>1 DEF IsStates
  <2> QED
    BY <1>5, <2>1, <2>2, RunGoesOn
<1>6. Nat \subseteq Right
  <2> HIDE DEF Right
  <2> QED BY <1>4, <1>5, SetInduction
<1>7. Len(t) \in Nat
  OBVIOUS
<1>8. RunUpTo(f[Len(t)], Len(t), t, x)
  BY <1>6, <1>7
<1> QED
  BY <1>3, <1>8 DEF IsRun, RunUpTo

-----------------------------------------------------------------------------
(* Spans of the text: where the walks of the blankers end, by the lexer.   *)

\* From i to before e the lexer is in one of the modes M, and at e in code,
\* unless the text, of n symbols, ends first.
SpanOf(L, n, i, e, M) ==
    /\ e \in Nat /\ i <= e
    /\ \A k \in i..(e - 1) : k <= n => L[k].mode \in M
    /\ e <= n => L[e] = Code

LEMMA EmptySpan ==
    ASSUME NEW L, NEW n \in Nat, NEW i \in Nat, NEW M, i <= n => L[i] = Code
    PROVE  SpanOf(L, n, i, i, M)
BY DEF SpanOf

LEMMA LongerSpan ==
    ASSUME NEW L, NEW n \in Nat, NEW i \in Nat, NEW j \in Nat, NEW e, NEW M,
           i < j, \A k \in i..(j - 1) : k <= n => L[k].mode \in M, SpanOf(L, n, j, e, M)
    PROVE  SpanOf(L, n, i, e, M)
<1>1. ASSUME NEW k \in i..(e - 1), k <= n PROVE L[k].mode \in M
  <2>1. k \in i..(j - 1) \/ k \in j..(e - 1)
    BY DEF SpanOf
  <2> QED
    BY <1>1, <2>1 DEF SpanOf
<1> QED
  BY <1>1 DEF SpanOf

IsNestEnds(f, t, open, close) ==
    f = [at \in Nat \X Nat |->
            LET i == at[1]  depth == at[2]
            IN  IF depth = 0 \/ i > Len(t) THEN i
                ELSE f[<<i + 1, CASE t[i] = open  -> depth + 1
                                  [] t[i] = close -> depth - 1
                                  [] OTHER        -> depth>>]]

LEMMA NestEndsExist ==
    ASSUME NEW t \in Seq(Symbols), NEW open, NEW close
    PROVE  \E f : IsNestEnds(f, t, open, close)
<1> DEFINE D == Nat \X Nat
           Stop == {x \in D : x[2] = 0 \/ x[1] > Len(t)}
           base == [x \in D |-> x[1]]
           next == [x \in D |-> IF x \in Stop THEN x
                      ELSE <<x[1] + 1, CASE t[x[1]] = open  -> x[2] + 1
                                         [] t[x[1]] = close -> x[2] - 1
                                         [] OTHER           -> x[2]>>]
           g == [x \in D |-> [v \in Nat |-> v]]
           rank == [x \in D |-> IF x[1] > Len(t) THEN 0 ELSE Len(t) + 1 - x[1]]
<1>0. Len(t) \in Nat
  OBVIOUS
<1>1. base \in [D -> Nat] /\ g \in [D -> [Nat -> Nat]]
  OBVIOUS
<1>2. next \in [D -> D]
  OBVIOUS
<1>3. rank \in [D -> Nat]
  BY <1>0
<1>4. \A x \in D : x \notin Stop => rank[next[x]] < rank[x]
  BY <1>0
<1>5. PICK f : IsWalk(f, D, Nat, Stop, base, next, g)
  <2> HIDE DEF D, Stop, base, next, g, rank
  <2> QED BY <1>1, <1>2, <1>3, <1>4, WalkExists
<1>6. \A x \in D : f[x] = IF x \in Stop THEN base[x] ELSE f[next[x]]
  <2> HIDE DEF Stop, base
  <2> QED BY <1>2, <1>5 DEF IsWalk
<1>7. IsNestEnds(f, t, open, close)
  BY <1>5, <1>6 DEF IsNestEnds, IsWalk
<1> QED
  BY <1>7

LEMMA NestEndWalks ==
    ASSUME NEW t \in Seq(Symbols), NEW open, NEW close
    PROVE  \E f : /\ IsNestEnds(f, t, open, close)
                  /\ \A first : NestEnd(t, first, open, close) = f[<<first, 1>>]
<1>1. PICK f : f = CHOOSE h : IsNestEnds(h, t, open, close)
  OBVIOUS
<1>2. IsNestEnds(f, t, open, close)
  BY <1>1, NestEndsExist
<1>3. \A first : NestEnd(t, first, open, close) = f[<<first, 1>>]
  BY <1>1 DEF NestEnd, IsNestEnds
<1> QED
  BY <1>2, <1>3

\* In mode m the lexer counts these delimiters.
Nests(L, t, m, open, close) ==
    \A k \in 1..Len(t), d \in Nat \ {0} : L[k] = At(m, d) =>
        L[k + 1] = CASE t[k] = open -> At(m, d + 1)
                     [] t[k] = close -> IF d = 1 THEN Code ELSE At(m, d - 1)
                     [] OTHER -> At(m, d)

Within(m, d) == IF d = 0 THEN Code ELSE At(m, d)

LEMMA NestEndSpans ==
    ASSUME NEW t \in Seq(Symbols), NEW L, NEW m, NEW open, NEW close,
           open # close, Nests(L, t, m, open, close),
           NEW f, IsNestEnds(f, t, open, close)
    PROVE  \A i \in Nat \ {0}, d \in Nat :
             /\ f[<<i, d>>] \in Nat /\ i <= f[<<i, d>>]
             /\ (i <= Len(t) => L[i] = Within(m, d)) =>
                    SpanOf(L, Len(t), i, f[<<i, d>>], {m})
<1> DEFINE n == Len(t)
           Grows(i, d) == f[<<i, d>>] \in Nat /\ i <= f[<<i, d>>]
           Spans(i, d) == (i <= n => L[i] = Within(m, d)) => SpanOf(L, n, i, f[<<i, d>>], {m})
           S == {i \in Nat : i = 0 \/ \A d \in Nat : Grows(i, d) /\ Spans(i, d)}
<1>0. n \in Nat
  OBVIOUS
<1>1. \A i, d \in Nat :
        f[<<i, d>>] = IF d = 0 \/ i > n THEN i
                      ELSE f[<<i + 1, CASE t[i] = open  -> d + 1
                                        [] t[i] = close -> d - 1
                                        [] OTHER        -> d>>]
  BY DEF IsNestEnds
<1> HIDE DEF n
<1>2. ASSUME NEW i \in Nat, NEW d \in Nat, d = 0 \/ i > n
      PROVE  Grows(i, d) /\ Spans(i, d)
  <2>1. f[<<i, d>>] = i
    BY <1>1, <1>2
  <2>2. (i <= n => L[i] = Within(m, d)) => (i <= n => L[i] = Code)
    BY <1>0, <1>2 DEF Within
  <2>3. ASSUME i <= n => L[i] = Within(m, d) PROVE SpanOf(L, n, i, i, {m})
    BY <1>0, <2>2, <2>3, EmptySpan
  <2> QED
    BY <2>1, <2>3
<1>3. \A i \in Nat : i > n => i \in S
  <2> HIDE DEF Grows, Spans
  <2> QED BY <1>2
<1>4. ASSUME NEW i \in Nat, i <= n, \A j \in Nat : i < j => j \in S
      PROVE  i \in S
  <2> SUFFICES ASSUME i # 0, NEW d \in Nat PROVE Grows(i, d) /\ Spans(i, d)
    OBVIOUS
  <2>1. CASE d = 0
    BY <1>2, <2>1
  <2>2. CASE d # 0
    <3>1. PICK e \in Nat : e = CASE t[i] = open  -> d + 1
                                 [] t[i] = close -> d - 1
                                 [] OTHER        -> d
      BY <2>2
    <3>2. f[<<i, d>>] = f[<<i + 1, e>>]
      BY <1>0, <1>1, <1>4, <2>2, <3>1
    <3>3. Grows(i + 1, e) /\ Spans(i + 1, e)
      <4>1. i + 1 \in Nat /\ i < i + 1 /\ i + 1 # 0
        OBVIOUS
      <4> HIDE DEF Grows, Spans
      <4> QED BY <1>4, <4>1
    <3>4. Grows(i, d)
      BY <3>2, <3>3
    <3>5. ASSUME L[i] = Within(m, d) PROVE SpanOf(L, n, i, f[<<i, d>>], {m})
      <4>1. i \in 1..Len(t) /\ L[i] = At(m, d)
        BY <1>4, <2>2, <3>5 DEF n, Within
      <4>2. L[i + 1] = Within(m, e)
        BY <2>2, <3>1, <4>1 DEF Nests, Within
      <4>3. SpanOf(L, n, i + 1, f[<<i + 1, e>>], {m})
        BY <3>3, <4>2
      <4>4. L[i].mode \in {m}
        BY <4>1 DEF At
      <4>5. \A k \in i..((i + 1) - 1) : k = i
        OBVIOUS
      <4> QED
        BY <1>0, <3>2, <4>3, <4>4, <4>5, LongerSpan
    <3> QED
      BY <1>4, <3>4, <3>5
  <2> QED
    BY <2>1, <2>2
<1>5. Nat \subseteq S
  <2> HIDE DEF S
  <2> QED BY <1>0, <1>3, <1>4, Backwards
<1> QED
  BY <1>5 DEF n

\* A run nests as NestEnd counts.
LEMMA RunNests ==
    ASSUME NEW t \in Seq(Symbols), NEW x, NEW L, IsRun(L, t, x)
    PROVE  /\ Nests(L, t, "block", BlockOpen, BlockClose)
           /\ Nests(L, t, "verbatim", Open, Close)
BY InBlock, InVerbatim DEF Nests, IsRun

LEMMA BlockCommentSpans ==
    ASSUME NEW t \in Seq(Symbols), NEW x, NEW L, IsRun(L, t, x), NEW start \in Nat
    PROVE  /\ BlockCommentEnd(t, start) \in Nat /\ start < BlockCommentEnd(t, start)
           /\ (start < Len(t) => L[start + 1] = At("block", 1)) =>
                SpanOf(L, Len(t), start + 1, BlockCommentEnd(t, start), {"block"})
<1>1. PICK f : /\ IsNestEnds(f, t, BlockOpen, BlockClose)
               /\ \A first : NestEnd(t, first, BlockOpen, BlockClose) = f[<<first, 1>>]
  BY NestEndWalks
<1>2. BlockOpen # BlockClose /\ Nests(L, t, "block", BlockOpen, BlockClose)
  BY RunNests DEF BlockOpen, BlockClose
<1>3. start + 1 \in Nat \ {0} /\ 1 \in Nat /\ Within("block", 1) = At("block", 1) /\ Len(t) \in Nat
  BY DEF Within
<1>4. /\ f[<<start + 1, 1>>] \in Nat /\ start + 1 <= f[<<start + 1, 1>>]
      /\ (start + 1 <= Len(t) => L[start + 1] = At("block", 1)) =>
            SpanOf(L, Len(t), start + 1, f[<<start + 1, 1>>], {"block"})
  BY <1>1, <1>2, <1>3, NestEndSpans
<1> QED
  BY <1>1, <1>3, <1>4 DEF BlockCommentEnd

LEMMA VerbatimSpans ==
    ASSUME NEW t \in Seq(Symbols), NEW x, NEW L, IsRun(L, t, x), NEW start \in Nat
    PROVE  /\ SkipVerbatimSpan(t, start) \in Nat /\ start < SkipVerbatimSpan(t, start)
           /\ (start < Len(t) => L[start + 1] = At("verbatim", 1)) =>
                SpanOf(L, Len(t), start + 1, SkipVerbatimSpan(t, start), {"verbatim"})
<1>1. PICK f : /\ IsNestEnds(f, t, Open, Close)
               /\ \A first : NestEnd(t, first, Open, Close) = f[<<first, 1>>]
  BY NestEndWalks
<1>2. Open # Close /\ Nests(L, t, "verbatim", Open, Close)
  BY RunNests DEF Open, Close
<1>3. start + 1 \in Nat \ {0} /\ 1 \in Nat /\ Within("verbatim", 1) = At("verbatim", 1)
      /\ Len(t) \in Nat
  BY DEF Within
<1>4. /\ f[<<start + 1, 1>>] \in Nat /\ start + 1 <= f[<<start + 1, 1>>]
      /\ (start + 1 <= Len(t) => L[start + 1] = At("verbatim", 1)) =>
            SpanOf(L, Len(t), start + 1, f[<<start + 1, 1>>], {"verbatim"})
  BY <1>1, <1>2, <1>3, NestEndSpans
<1> QED
  BY <1>1, <1>3, <1>4 DEF SkipVerbatimSpan

IsStringCloses(f, t) ==
    f = [i \in Nat |->
            IF i > Len(t) \/ t[i] = Quote THEN i
            ELSE f[IF t[i] = Escape /\ i < Len(t) THEN i + 2 ELSE i + 1]]

LEMMA StringCloses ==
    ASSUME NEW t \in Seq(Symbols)
    PROVE  \E f : /\ IsStringCloses(f, t)
                  /\ \A start : SkipStringLiteral(t, start) = f[start + 1] + 1
<1> DEFINE Stop == {i \in Nat : i > Len(t) \/ t[i] = Quote}
           base == [i \in Nat |-> i]
           next == [i \in Nat |-> IF t[i] = Escape /\ i < Len(t) THEN i + 2 ELSE i + 1]
           g == [i \in Nat |-> [v \in Nat |-> v]]
           rank == [i \in Nat |-> IF i > Len(t) THEN 0 ELSE Len(t) + 1 - i]
<1>0. Len(t) \in Nat
  OBVIOUS
<1>1. base \in [Nat -> Nat] /\ g \in [Nat -> [Nat -> Nat]] /\ next \in [Nat -> Nat]
  OBVIOUS
<1>2. rank \in [Nat -> Nat]
  BY <1>0
<1>3. \A i \in Nat : i \notin Stop => rank[next[i]] < rank[i]
  BY <1>0
<1>4. PICK h : IsWalk(h, Nat, Nat, Stop, base, next, g)
  <2> HIDE DEF Stop, base, next, g, rank
  <2> QED BY <1>1, <1>2, <1>3, WalkExists
<1>5. \A i \in Nat : h[i] = IF i \in Stop THEN base[i] ELSE h[next[i]]
  <2> HIDE DEF Stop, base
  <2> QED BY <1>1, <1>4 DEF IsWalk
<1>6. IsStringCloses(h, t)
  BY <1>4, <1>5 DEF IsStringCloses, IsWalk
<1>7. PICK f : f = CHOOSE k : IsStringCloses(k, t)
  OBVIOUS
<1>8. IsStringCloses(f, t)
  BY <1>6, <1>7
<1>9. \A start : SkipStringLiteral(t, start) = f[start + 1] + 1
  BY <1>7 DEF SkipStringLiteral, IsStringCloses
<1> QED
  BY <1>8, <1>9

InLiteral == {"string", "escaped"}

\* Within a string the lexer goes as SkipStringLiteral counts.
LEMMA StringSteps ==
    ASSUME NEW t \in Seq(Symbols), NEW x, NEW L, IsRun(L, t, x),
           NEW i \in 1..Len(t)
    PROVE  /\ L[i] = At("string", 0) =>
                /\ L[i].mode \in InLiteral
                /\ t[i] = Quote => L[i + 1] = Code
                /\ t[i] = Escape => L[i + 1] = At("escaped", 0)
                /\ t[i] \notin {Quote, Escape} => L[i + 1] = At("string", 0)
           /\ L[i] = At("escaped", 0) =>
                L[i].mode \in InLiteral /\ L[i + 1] = At("string", 0)
<1>1. Quote # Escape
  BY DEF Quote, Escape
<1>2. L[i + 1] = Lex(L[i], t[i], x)
  BY DEF IsRun
<1> QED
  BY <1>1, <1>2, InString DEF At, InLiteral

LEMMA StringSpans ==
    ASSUME NEW t \in Seq(Symbols), NEW x, NEW L, IsRun(L, t, x), NEW start \in Nat
    PROVE  /\ SkipStringLiteral(t, start) \in Nat /\ start < SkipStringLiteral(t, start)
           /\ (start < Len(t) => L[start + 1] = At("string", 0)) =>
                SpanOf(L, Len(t), start + 1, SkipStringLiteral(t, start), InLiteral)
<1> DEFINE n == Len(t)
<1>0. n \in Nat
  OBVIOUS
<1>1. PICK f : /\ IsStringCloses(f, t)
               /\ \A k : SkipStringLiteral(t, k) = f[k + 1] + 1
  BY StringCloses
<1> DEFINE Grows(i) == f[i] \in Nat /\ i <= f[i]
           Spans(i) == (i <= n => L[i] = At("string", 0)) => SpanOf(L, n, i, f[i] + 1, InLiteral)
           S == {i \in Nat : i = 0 \/ (Grows(i) /\ Spans(i))}
<1>2. \A i \in Nat :
        f[i] = IF i > n \/ t[i] = Quote THEN i
               ELSE f[IF t[i] = Escape /\ i < n THEN i + 2 ELSE i + 1]
  BY <1>1 DEF IsStringCloses
<1> HIDE DEF n
<1>3. ASSUME NEW i \in Nat, i > n PROVE Grows(i) /\ Spans(i)
  <2>1. f[i] = i
    BY <1>2, <1>3
  <2>2. SpanOf(L, n, i, i + 1, InLiteral)
    BY <1>0, <1>3 DEF SpanOf
  <2> QED
    BY <2>1, <2>2
<1>4. ASSUME NEW i \in Nat, i <= n, \A j \in Nat : i < j => j \in S
      PROVE  i \in S
  <2> SUFFICES ASSUME i # 0 PROVE Grows(i) /\ Spans(i)
    OBVIOUS
  <2>0. i \in 1..Len(t)
    BY <1>4 DEF n
  <2>1. CASE t[i] = Quote
    <3>1. f[i] = i
      BY <1>2, <2>1
    <3>2. ASSUME L[i] = At("string", 0) PROVE SpanOf(L, n, i, i + 1, InLiteral)
      <4>1. L[i].mode \in InLiteral /\ L[i + 1] = Code
        BY <2>0, <2>1, <3>2, StringSteps
      <4> QED
        BY <4>1 DEF SpanOf
    <3> QED
      BY <1>4, <3>1, <3>2
  <2>2. CASE t[i] # Quote
    <3>1. PICK j \in Nat : j = IF t[i] = Escape /\ i < n THEN i + 2 ELSE i + 1
      OBVIOUS
    <3>2. f[i] = f[j]
      BY <1>2, <1>4, <1>0, <2>2, <3>1
    <3>3. Grows(j) /\ Spans(j)
      <4>1. i < j /\ j # 0
        BY <3>1
      <4> HIDE DEF Grows, Spans
      <4> QED BY <1>4, <4>1
    <3>4. Grows(i)
      BY <3>1, <3>2, <3>3
    <3>5. ASSUME L[i] = At("string", 0) PROVE SpanOf(L, n, i, f[i] + 1, InLiteral)
      <4>1. CASE t[i] = Escape /\ i < n
        <5>1. i + 1 \in 1..Len(t)
          BY <1>0, <4>1 DEF n
        <5>2. L[i].mode \in InLiteral /\ L[i + 1] = At("escaped", 0)
          BY <2>0, <3>5, <4>1, StringSteps
        <5>3. L[i + 1].mode \in InLiteral /\ L[(i + 1) + 1] = At("string", 0)
          BY <5>1, <5>2, StringSteps
        <5>4. j = i + 2 /\ L[j] = At("string", 0)
          BY <3>1, <4>1, <5>3
        <5>5. SpanOf(L, n, j, f[j] + 1, InLiteral)
          BY <3>3, <5>4
        <5>6. \A k \in i..(j - 1) : L[k].mode \in InLiteral
          BY <5>2, <5>3, <5>4
        <5> QED
          BY <1>0, <3>2, <5>4, <5>5, <5>6, LongerSpan
      <4>2. CASE ~(t[i] = Escape /\ i < n)
        <5>1. j = i + 1
          BY <3>1, <4>2
        <5>2. L[i].mode \in InLiteral /\ (j <= n => L[j] = At("string", 0))
          BY <1>0, <1>4, <2>0, <2>2, <3>5, <4>2, <5>1, StringSteps
        <5>3. SpanOf(L, n, j, f[j] + 1, InLiteral)
          BY <3>3, <5>2
        <5>4. \A k \in i..(j - 1) : L[k].mode \in InLiteral
          BY <5>1, <5>2
        <5> QED
          BY <1>0, <3>2, <5>1, <5>3, <5>4, LongerSpan
      <4> QED
        BY <4>1, <4>2
    <3> QED
      BY <1>4, <3>4, <3>5
  <2> QED
    BY <2>1, <2>2
<1>5. Nat \subseteq S
  <2>1. \A i \in Nat : i > n => i \in S
    <3> HIDE DEF Grows, Spans
    <3> QED BY <1>3
  <2> HIDE DEF S
  <2> QED BY <1>0, <1>4, <2>1, Backwards
<1>6. start + 1 \in Nat /\ start + 1 # 0 /\ (start + 1 <= n <=> start < n)
  BY <1>0
<1>7. Grows(start + 1) /\ Spans(start + 1)
  <2> HIDE DEF Grows, Spans
  <2> QED BY <1>5, <1>6
<1> QED
  BY <1>1, <1>6, <1>7 DEF n

IsLineEnds(f, t) == f = [i \in Nat |-> IF i > Len(t) \/ t[i] = NewLine THEN i ELSE f[i + 1]]

LEMMA LineEndWalks ==
    ASSUME NEW t, Len(t) \in Nat
    PROVE  \E f : IsLineEnds(f, t) /\ \A start : LineEnd(t, start) = f[start]
<1> DEFINE Stop == {i \in Nat : i > Len(t) \/ t[i] = NewLine}
           base == [i \in Nat |-> i]
           next == [i \in Nat |-> i + 1]
           g == [i \in Nat |-> [v \in Nat |-> v]]
           rank == [i \in Nat |-> IF i > Len(t) THEN 0 ELSE Len(t) + 1 - i]
<1>1. base \in [Nat -> Nat] /\ g \in [Nat -> [Nat -> Nat]] /\ next \in [Nat -> Nat]
  OBVIOUS
<1>2. rank \in [Nat -> Nat]
  OBVIOUS
<1>3. \A i \in Nat : i \notin Stop => rank[next[i]] < rank[i]
  OBVIOUS
<1>4. PICK h : IsWalk(h, Nat, Nat, Stop, base, next, g)
  <2> HIDE DEF Stop, base, next, g, rank
  <2> QED BY <1>1, <1>2, <1>3, WalkExists
<1>5. \A i \in Nat : h[i] = IF i \in Stop THEN base[i] ELSE h[next[i]]
  <2> HIDE DEF Stop, base
  <2> QED BY <1>1, <1>4 DEF IsWalk
<1>6. IsLineEnds(h, t)
  BY <1>4, <1>5 DEF IsLineEnds, IsWalk
<1>7. PICK f : f = CHOOSE k : IsLineEnds(k, t)
  OBVIOUS
<1>8. IsLineEnds(f, t)
  BY <1>6, <1>7
<1>9. \A start : LineEnd(t, start) = f[start]
  BY <1>7 DEF LineEnd, IsLineEnds
<1> QED
  BY <1>8, <1>9

\* e is at the first newline from i on, or past the text.
EndsLine(t, i, e) ==
    /\ e \in Nat /\ i <= e
    /\ i <= Len(t) + 1 => e <= Len(t) + 1
    /\ \A k \in i..(e - 1) : k <= Len(t) /\ t[k] # NewLine
    /\ e <= Len(t) => t[e] = NewLine

LEMMA LineEndIs ==
    ASSUME NEW t, Len(t) \in Nat, NEW start \in Nat
    PROVE  EndsLine(t, start, LineEnd(t, start))
<1>1. PICK f : IsLineEnds(f, t) /\ \A k : LineEnd(t, k) = f[k]
  BY LineEndWalks
<1> DEFINE n == Len(t)
           Ends(i) == EndsLine(t, i, f[i])
           S == {i \in Nat : Ends(i)}
<1>0. n \in Nat
  OBVIOUS
<1>2. \A i \in Nat : f[i] = IF i > n \/ t[i] = NewLine THEN i ELSE f[i + 1]
  BY <1>1 DEF IsLineEnds
<1>3. \A i \in Nat : i > n => i \in S
  BY <1>2 DEF EndsLine
<1>4. ASSUME NEW i \in Nat, i <= n, \A j \in Nat : i < j => j \in S
      PROVE  i \in S
  <2>1. CASE t[i] = NewLine
    BY <1>2, <1>4, <2>1 DEF EndsLine
  <2>2. CASE t[i] # NewLine
    <3>1. f[i] = f[i + 1]
      BY <1>2, <1>4, <2>2
    <3>2. Ends(i + 1)
      <4> HIDE DEF Ends
      <4> QED BY <1>4
    <3>3. \A k \in i..(f[i] - 1) : k = i \/ k \in (i + 1)..(f[i + 1] - 1)
      BY <3>1, <3>2 DEF EndsLine
    <3> QED
      BY <1>4, <2>2, <3>1, <3>2, <3>3 DEF EndsLine
  <2> QED
    BY <2>1, <2>2
<1>5. Nat \subseteq S
  <2> HIDE DEF S
  <2> QED BY <1>0, <1>3, <1>4, Backwards
<1> QED
  BY <1>1, <1>5

-----------------------------------------------------------------------------
(* strip_comments.                                                         *)

LEMMA CommentIs ==
    ASSUME NEW t \in Seq(Symbols), NEW x, NEW L, L = LexStates(t, x)
    PROVE  Comment(t, x) = {k \in 1..Len(t) : t[k] # NewLine /\
                               (L[k].mode \in {"line", "block"} \/ L[k + 1].mode \in {"line", "block"})}
BY DEF Comment

\* The comment positions from i on.
CommentFrom(L, t, i) ==
    {k \in 1..Len(t) : i <= k /\ t[k] # NewLine /\
        (L[k].mode \in {"line", "block"} \/ L[k + 1].mode \in {"line", "block"})}

IsStrips(f, t, x) ==
    f = [i \in Nat |->
            IF i > Len(t) THEN {}
            ELSE CASE t[i] = BlockOpen ->
                        BlankRange(t, i, BlockCommentEnd(t, i))
                            \cup f[BlockCommentEnd(t, i)]
                   [] t[i] = LineMarker /\ x.line ->
                        BlankRange(t, i, LineEnd(t, i)) \cup f[LineEnd(t, i)]
                   [] t[i] = Open /\ x.verbatim -> f[SkipVerbatimSpan(t, i)]
                   [] t[i] = Quote -> f[SkipStringLiteral(t, i)]
                   [] OTHER -> f[i + 1]]

StripNext(t, x, i) ==
    CASE t[i] = BlockOpen -> BlockCommentEnd(t, i)
      [] t[i] = LineMarker /\ x.line -> LineEnd(t, i)
      [] t[i] = Open /\ x.verbatim -> SkipVerbatimSpan(t, i)
      [] t[i] = Quote -> SkipStringLiteral(t, i)
      [] OTHER -> i + 1

StripBlanks(t, x, i) ==
    IF t[i] = BlockOpen \/ (t[i] = LineMarker /\ x.line)
    THEN BlankRange(t, i, StripNext(t, x, i)) ELSE {}

SymbolsDiffer ==
    /\ BlockOpen \notin {LineMarker, Open, Quote, NewLine}
    /\ LineMarker \notin {Open, Quote, NewLine}
    /\ Open \notin {Quote, NewLine} /\ Quote # NewLine

LEMMA TheyDiffer == SymbolsDiffer
BY DEF SymbolsDiffer, BlockOpen, LineMarker, Open, Quote, NewLine

LEMMA StripNextGrows ==
    ASSUME NEW t \in Seq(Symbols), NEW x, NEW i \in Nat, i <= Len(t)
    PROVE  StripNext(t, x, i) \in Nat /\ i < StripNext(t, x, i)
<1>1. PICK L : IsRun(L, t, x)
  BY LexStatesRun
<1>2. BlockCommentEnd(t, i) \in Nat /\ i < BlockCommentEnd(t, i)
  BY <1>1, BlockCommentSpans
<1>3. SkipVerbatimSpan(t, i) \in Nat /\ i < SkipVerbatimSpan(t, i)
  BY <1>1, VerbatimSpans
<1>4. SkipStringLiteral(t, i) \in Nat /\ i < SkipStringLiteral(t, i)
  BY <1>1, StringSpans
<1>5. t[i] # NewLine => LineEnd(t, i) \in Nat /\ i < LineEnd(t, i)
  <2>1. EndsLine(t, i, LineEnd(t, i))
    BY LineEndIs
  <2> QED
    BY <2>1 DEF EndsLine
<1> QED
  BY <1>2, <1>3, <1>4, <1>5, TheyDiffer DEF StripNext, SymbolsDiffer

\* strip_comments blanks at a place, and goes on from the next.
LEMMA StripsWalk ==
    ASSUME NEW t \in Seq(Symbols), NEW x
    PROVE  \E f : /\ StripComments(t, x) = f[1]
                  /\ \A i \in Nat : f[i] = IF i > Len(t) THEN {}
                                           ELSE StripBlanks(t, x, i) \cup f[StripNext(t, x, i)]
<1> DEFINE V == SUBSET Nat
           Stop == {i \in Nat : i > Len(t)}
           base == [i \in Nat |-> {}]
           next == [i \in Nat |-> IF i <= Len(t) THEN StripNext(t, x, i) ELSE i]
           g == [i \in Nat |-> [v \in V |-> StripBlanks(t, x, i) \cup v]]
           rank == [i \in Nat |-> IF i > Len(t) THEN 0 ELSE Len(t) + 1 - i]
<1>0. Len(t) \in Nat
  OBVIOUS
<1>1. base \in [Nat -> V] /\ rank \in [Nat -> Nat]
  BY <1>0
<1>2. next \in [Nat -> Nat]
  BY StripNextGrows
<1>3. \A i \in Nat : i \notin Stop => rank[next[i]] < rank[i]
  <2> SUFFICES ASSUME NEW i \in Nat, i <= Len(t) PROVE rank[next[i]] < rank[i]
    <3> HIDE DEF rank, next
    <3> QED BY <1>0
  <2>1. PICK j \in Nat : j = StripNext(t, x, i) /\ i < j
    BY StripNextGrows
  <2>2. next[i] = j
    BY <2>1
  <2>3. rank[j] < rank[i]
    BY <1>0, <2>1
  <2> QED
    BY <2>2, <2>3
<1>4. g \in [Nat -> [V -> V]]
  <2>1. \A i \in Nat : StripBlanks(t, x, i) \in V
    <3> SUFFICES ASSUME NEW i \in Nat PROVE StripBlanks(t, x, i) \in V
      OBVIOUS
    <3>1. \A e : BlankRange(t, i, e) \in V
      BY DEF BlankRange
    <3> QED
      BY <3>1 DEF StripBlanks
  <2>2. \A a, b \in V : a \cup b \in V
    OBVIOUS
  <2> HIDE DEF V
  <2> QED BY <2>1, <2>2
<1>5. PICK h : IsWalk(h, Nat, V, Stop, base, next, g)
  <2> HIDE DEF V, Stop, base, next, g, rank
  <2> QED BY <1>1, <1>2, <1>3, <1>4, WalkExists
<1>6. \A i \in Nat : h[i] = IF i > Len(t) THEN {}
                           ELSE StripBlanks(t, x, i) \cup h[StripNext(t, x, i)]
  <2> SUFFICES ASSUME NEW i \in Nat
               PROVE  h[i] = IF i > Len(t) THEN {}
                             ELSE StripBlanks(t, x, i) \cup h[StripNext(t, x, i)]
    OBVIOUS
  <2>1. h[i] = IF i \in Stop THEN base[i] ELSE g[i][h[next[i]]]
    <3> HIDE DEF Stop, base, next, g, V
    <3> QED BY <1>5 DEF IsWalk
  <2>2. h[next[i]] \in V
    <3> HIDE DEF Stop, base, next, g, V
    <3> QED BY <1>2, <1>5 DEF IsWalk
  <2>3. CASE i > Len(t)
    BY <2>1, <2>3
  <2>4. CASE ~(i > Len(t))
    <3>1. h[i] = g[i][h[next[i]]] /\ next[i] = StripNext(t, x, i)
      <4> HIDE DEF g, V
      <4> QED BY <1>0, <2>1, <2>4
    <3>2. \A v \in V : g[i][v] = StripBlanks(t, x, i) \cup v
      <4> HIDE DEF V
      <4> QED OBVIOUS
    <3> HIDE DEF g, V, next
    <3> QED
      BY <2>2, <2>4, <3>1, <3>2
  <2> QED
    BY <2>3, <2>4
<1> DEFINE Answer(f, i) == IF i > Len(t) THEN {}
                           ELSE StripBlanks(t, x, i) \cup f[StripNext(t, x, i)]
           Body(f, i) == IF i > Len(t) THEN {}
                         ELSE CASE t[i] = BlockOpen ->
                                     BlankRange(t, i, BlockCommentEnd(t, i))
                                         \cup f[BlockCommentEnd(t, i)]
                                [] t[i] = LineMarker /\ x.line ->
                                     BlankRange(t, i, LineEnd(t, i)) \cup f[LineEnd(t, i)]
                                [] t[i] = Open /\ x.verbatim -> f[SkipVerbatimSpan(t, i)]
                                [] t[i] = Quote -> f[SkipStringLiteral(t, i)]
                                [] OTHER -> f[i + 1]
<1>7. \A f, i : Body(f, i) = Answer(f, i)
  BY TheyDiffer, ZenonT(60) DEF StripNext, StripBlanks, SymbolsDiffer
<1>8. \A f : IsStrips(f, t, x) <=> f = [i \in Nat |-> Body(f, i)]
  BY DEF IsStrips
<1>9. IsStrips(h, t, x)
  <2>1. h = [i \in Nat |-> h[i]]
    BY <1>5 DEF IsWalk
  <2>2. \A i \in Nat : h[i] = Body(h, i)
    <3> HIDE DEF Body
    <3> QED BY <1>6, <1>7
  <2> HIDE DEF Body
  <2> QED
    BY <1>8, <2>1, <2>2
<1>10. PICK f : f = CHOOSE k : IsStrips(k, t, x)
  OBVIOUS
<1>11. IsStrips(f, t, x)
  BY <1>9, <1>10
<1>12. StripComments(t, x) = f[1]
  BY <1>10 DEF StripComments, IsStrips
<1>13. \A i \in Nat : f[i] = Answer(f, i)
  <2> HIDE DEF Body, Answer
  <2> QED BY <1>7, <1>8, <1>11
<1> QED
  BY <1>12, <1>13

\* The lexer reads position k inside a comment, or enters one there.
InComment(L, k) == L[k].mode \in {"line", "block"} \/ L[k + 1].mode \in {"line", "block"}

LEMMA CommentSplits ==
    ASSUME NEW t, Len(t) \in Nat, NEW L, NEW i \in Nat \ {0}, NEW e \in Nat, i <= e
    PROVE  /\ (\A k \in i..(e - 1) : k <= Len(t) /\ t[k] # NewLine => InComment(L, k)) =>
                CommentFrom(L, t, i) = BlankRange(t, i, e) \cup CommentFrom(L, t, e)
           /\ (\A k \in i..(e - 1) : k <= Len(t) /\ t[k] # NewLine => ~InComment(L, k)) =>
                CommentFrom(L, t, i) = CommentFrom(L, t, e)
<1>1. \A k \in 1..Len(t) : i <= k <=> k \in i..(e - 1) \/ e <= k
  OBVIOUS
<1>2. \A j : CommentFrom(L, t, j) = {k \in 1..Len(t) : j <= k /\ t[k] # NewLine /\ InComment(L, k)}
  BY DEF CommentFrom, InComment
<1>3. ASSUME \A k \in i..(e - 1) : k <= Len(t) /\ t[k] # NewLine => InComment(L, k)
      PROVE  CommentFrom(L, t, i) = BlankRange(t, i, e) \cup CommentFrom(L, t, e)
  <2>1. ASSUME NEW k PROVE k \in CommentFrom(L, t, i) <=> k \in BlankRange(t, i, e) \cup CommentFrom(L, t, e)
    <3>1. k \in BlankRange(t, i, e) <=> k \in 1..Len(t) /\ k \in i..(e - 1) /\ t[k] # NewLine
      BY DEF BlankRange
    <3> QED
      BY <1>1, <1>2, <1>3, <3>1
  <2> QED
    BY <2>1
<1>4. ASSUME \A k \in i..(e - 1) : k <= Len(t) /\ t[k] # NewLine => ~InComment(L, k)
      PROVE  CommentFrom(L, t, i) = CommentFrom(L, t, e)
  <2>1. ASSUME NEW k PROVE k \in CommentFrom(L, t, i) <=> k \in CommentFrom(L, t, e)
    BY <1>1, <1>2, <1>4
  <2> QED
    BY <2>1
<1> QED
  BY <1>3, <1>4

\* Out of a string or a verbatim span the lexer goes to no comment.
LEMMA NoCommentFollows ==
    ASSUME NEW t \in Seq(Symbols), NEW x, NEW L, IsRun(L, t, x), NEW k \in 1..Len(t),
           L[k].mode \in {"verbatim", "string", "escaped"}
    PROVE  ~InComment(L, k)
<1>1. L[k + 1] = Lex(L[k], t[k], x) /\ L[k] \in LexStateSet
  BY DEF IsRun
<1>2. CASE \E d \in Nat \ {0} : L[k] = At("verbatim", d)
  <2>1. PICK d \in Nat \ {0} : L[k] = At("verbatim", d)
    BY <1>2
  <2>2. L[k + 1] \in {At("verbatim", d + 1), At("verbatim", d - 1), At("verbatim", d), Code}
    BY <1>1, <2>1, InVerbatim
  <2> QED
    BY <2>1, <2>2 DEF InComment, At, Code
<1>3. CASE L[k] \in {At("string", 0), At("escaped", 0)}
  <2>1. L[k + 1].mode \in {"string", "escaped", "code"}
    BY <1>1, <1>3, InString DEF At, Code
  <2> QED
    BY <2>1 DEF InComment
<1>4. (\E d \in Nat \ {0} : L[k] = At("verbatim", d)) \/ L[k] \in {At("string", 0), At("escaped", 0)}
  BY <1>1 DEF LexStateSet, At, Modes
<1> QED
  BY <1>2, <1>3, <1>4

LEMMA LineSpans ==
    ASSUME NEW t \in Seq(Symbols), NEW x, NEW L, IsRun(L, t, x), NEW i \in 1..Len(t),
           L[i + 1] = At("line", 0), NEW e, EndsLine(t, i, e), i < e
    PROVE  \A k \in (i + 1)..e : L[k] = At("line", 0)
<1> DEFINE S == {k \in Nat : i + 1 <= k /\ k <= e => L[k] = At("line", 0)}
<1>1. 0 \in S
  OBVIOUS
<1>2. ASSUME NEW k \in Nat, k \in S PROVE k + 1 \in S
  <2>1. CASE k = i
    BY <2>1
  <2>2. CASE i + 1 <= k /\ k + 1 <= e
    <3>1. L[k] = At("line", 0)
      BY <1>2, <2>2 DEF EndsLine
    <3>2. k \in 1..Len(t) /\ t[k] # NewLine
      BY <2>2 DEF EndsLine
    <3>3. L[k + 1] = Lex(L[k], t[k], x)
      BY <3>2 DEF IsRun
    <3> QED
      BY <3>1, <3>2, <3>3, InLine
  <2>3. ~(i + 1 <= k + 1 /\ k + 1 <= e) \/ k = i \/ (i + 1 <= k /\ k + 1 <= e)
    OBVIOUS
  <2> QED
    BY <2>1, <2>2, <2>3
<1>3. Nat \subseteq S
  <2> HIDE DEF S
  <2> QED BY <1>1, <1>2, SetInduction
<1>4. \A k \in (i + 1)..e : k \in Nat
  BY DEF EndsLine
<1> QED
  BY <1>3, <1>4

\* The places strip_comments comes to: code, and the newline of a line comment.
AtRead(L, t, i) == L[i] = Code \/ (L[i] = At("line", 0) /\ t[i] = NewLine)

\* What strip_comments blanks at a place is the comment there, and the next
\* place is one it comes to.
LEMMA StripStep ==
    ASSUME NEW t \in Seq(Symbols), NEW x, NEW L, IsRun(L, t, x), NEW i \in 1..Len(t),
           AtRead(L, t, i)
    PROVE  LET e == StripNext(t, x, i)
           IN  /\ e \in Nat /\ i < e /\ (e <= Len(t) => AtRead(L, t, e))
               /\ CommentFrom(L, t, i) = StripBlanks(t, x, i) \cup CommentFrom(L, t, e)
<1> DEFINE n == Len(t)
<1>0. n \in Nat /\ i \in Nat \ {0}
  OBVIOUS
<1>1. PICK e : e = StripNext(t, x, i)
  OBVIOUS
<1>2. e \in Nat /\ i < e
  BY <1>1, StripNextGrows
<1> SUFFICES /\ e <= n => AtRead(L, t, e)
             /\ CommentFrom(L, t, i) = StripBlanks(t, x, i) \cup CommentFrom(L, t, e)
  BY <1>1, <1>2
<1>3. L[i + 1] = Lex(L[i], t[i], x)
  BY DEF IsRun
<1>4. /\ (\A k \in i..(e - 1) : k <= n /\ t[k] # NewLine => InComment(L, k)) =>
            CommentFrom(L, t, i) = BlankRange(t, i, e) \cup CommentFrom(L, t, e)
      /\ (\A k \in i..(e - 1) : k <= n /\ t[k] # NewLine => ~InComment(L, k)) =>
            CommentFrom(L, t, i) = CommentFrom(L, t, e)
  BY <1>0, <1>2, CommentSplits
<1>5. \A M : SpanOf(L, n, i + 1, e, M) =>
        /\ e <= n => AtRead(L, t, e)
        /\ \A k \in i..(e - 1) : k <= n => k = i \/ (k \in 1..n /\ L[k].mode \in M)
  BY <1>0 DEF SpanOf, AtRead
<1>6. CASE t[i] = BlockOpen
  <2>1. e = BlockCommentEnd(t, i) /\ StripBlanks(t, x, i) = BlankRange(t, i, e) /\ L[i] = Code
    BY <1>1, <1>6, TheyDiffer DEF StripNext, StripBlanks, SymbolsDiffer, AtRead
  <2>2. L[i + 1] = At("block", 1)
    BY <1>3, <1>6, <2>1, InCode, TheyDiffer DEF SymbolsDiffer
  <2>3. SpanOf(L, n, i + 1, e, {"block"})
    BY <1>0, <2>1, <2>2, BlockCommentSpans
  <2>4. \A k \in i..(e - 1) : k <= n /\ t[k] # NewLine => InComment(L, k)
    BY <1>5, <2>2, <2>3 DEF InComment, At
  <2> QED
    BY <1>4, <1>5, <2>1, <2>3, <2>4
<1>7. CASE t[i] = LineMarker /\ x.line
  <2>1. e = LineEnd(t, i) /\ StripBlanks(t, x, i) = BlankRange(t, i, e) /\ L[i] = Code
    BY <1>1, <1>7, TheyDiffer DEF StripNext, StripBlanks, SymbolsDiffer, AtRead
  <2>2. L[i + 1] = At("line", 0)
    BY <1>3, <1>7, <2>1, InCode, TheyDiffer DEF SymbolsDiffer
  <2>3. EndsLine(t, i, e)
    BY <1>0, <2>1, LineEndIs
  <2>4. \A k \in (i + 1)..e : L[k] = At("line", 0)
    BY <1>2, <2>2, <2>3, LineSpans
  <2>5. \A k \in i..(e - 1) : k + 1 \in (i + 1)..e
    BY <1>2
  <2>6. \A k \in i..(e - 1) : InComment(L, k)
    BY <2>4, <2>5 DEF InComment, At
  <2>7. e <= n => AtRead(L, t, e)
    BY <1>2, <2>3, <2>4 DEF EndsLine, AtRead
  <2> QED
    BY <1>4, <2>1, <2>6, <2>7
<1>8. CASE t[i] = Open /\ x.verbatim
  <2>1. e = SkipVerbatimSpan(t, i) /\ StripBlanks(t, x, i) = {} /\ L[i] = Code
    BY <1>1, <1>8, TheyDiffer DEF StripNext, StripBlanks, SymbolsDiffer, AtRead
  <2>2. L[i + 1] = At("verbatim", 1)
    BY <1>3, <1>8, <2>1, InCode, TheyDiffer DEF SymbolsDiffer
  <2>3. SpanOf(L, n, i + 1, e, {"verbatim"})
    BY <1>0, <2>1, <2>2, VerbatimSpans
  <2>4. \A k \in i..(e - 1) : k <= n => k = i \/ ~InComment(L, k)
    BY <1>5, <2>3, NoCommentFollows
  <2>5. ~InComment(L, i)
    BY <2>1, <2>2 DEF InComment, At, Code
  <2> QED
    BY <1>4, <1>5, <2>1, <2>3, <2>4, <2>5
<1>9. CASE t[i] = Quote
  <2>1. e = SkipStringLiteral(t, i) /\ StripBlanks(t, x, i) = {} /\ L[i] = Code
    BY <1>1, <1>9, TheyDiffer DEF StripNext, StripBlanks, SymbolsDiffer, AtRead
  <2>2. L[i + 1] = At("string", 0)
    BY <1>3, <1>9, <2>1, InCode, TheyDiffer DEF SymbolsDiffer
  <2>3. SpanOf(L, n, i + 1, e, InLiteral)
    BY <1>0, <2>1, <2>2, StringSpans
  <2>4. \A k \in i..(e - 1) : k <= n => k = i \/ ~InComment(L, k)
    BY <1>5, <2>3, NoCommentFollows DEF InLiteral
  <2>5. ~InComment(L, i)
    BY <2>1, <2>2 DEF InComment, At, Code
  <2> QED
    BY <1>4, <1>5, <2>1, <2>3, <2>4, <2>5
<1>10. CASE ~(t[i] = BlockOpen \/ (t[i] = LineMarker /\ x.line)
              \/ (t[i] = Open /\ x.verbatim) \/ t[i] = Quote)
  <2>1. e = i + 1 /\ StripBlanks(t, x, i) = {} /\ \A k \in i..(e - 1) : k = i
    BY <1>1, <1>10 DEF StripNext, StripBlanks
  <2>2. L[i + 1] = Code
    BY <1>3, <1>10, InCode, InLine DEF AtRead
  <2>3. L[i] = Code => ~InComment(L, i)
    BY <2>2 DEF InComment, At, Code
  <2> QED
    BY <1>4, <2>1, <2>2, <2>3 DEF AtRead
<1> QED
  BY <1>6, <1>7, <1>8, <1>9, <1>10

\* strip_comments blanks what the lexer calls a comment, whatever the text and
\* the comment syntax.
LEMMA StripsComments ==
    ASSUME NEW t \in Seq(Symbols), NEW x
    PROVE  StripComments(t, x) = Comment(t, x)
<1>1. PICK f : /\ StripComments(t, x) = f[1]
               /\ \A i \in Nat : f[i] = IF i > Len(t) THEN {}
                                        ELSE StripBlanks(t, x, i) \cup f[StripNext(t, x, i)]
  BY StripsWalk
<1>2. PICK L : L = LexStates(t, x) /\ IsRun(L, t, x)
  BY LexStatesRun
<1> DEFINE n == Len(t)
           Right(i) == (i <= n => AtRead(L, t, i)) => f[i] = CommentFrom(L, t, i)
           S == {i \in Nat : i = 0 \/ Right(i)}
<1>0. n \in Nat
  OBVIOUS
<1>3. \A i \in Nat : i > n => i \in S
  <2> SUFFICES ASSUME NEW i \in Nat, i > n PROVE f[i] = CommentFrom(L, t, i)
    OBVIOUS
  <2>1. f[i] = {}
    BY <1>1
  <2>2. CommentFrom(L, t, i) = {}
    BY <1>0 DEF CommentFrom
  <2> QED
    BY <2>1, <2>2
<1>4. ASSUME NEW i \in Nat, i <= n, \A j \in Nat : i < j => j \in S
      PROVE  i \in S
  <2> SUFFICES ASSUME i # 0, AtRead(L, t, i) PROVE f[i] = CommentFrom(L, t, i)
    BY <1>4
  <2>1. PICK e : e = StripNext(t, x, i)
    OBVIOUS
  <2>2. /\ e \in Nat /\ i < e /\ (e <= n => AtRead(L, t, e))
        /\ CommentFrom(L, t, i) = StripBlanks(t, x, i) \cup CommentFrom(L, t, e)
    BY <1>2, <1>4, <2>1, StripStep
  <2>3. f[i] = StripBlanks(t, x, i) \cup f[e]
    <3>1. ~(i > Len(t))
      BY <1>0, <1>4
    <3> HIDE DEF S
    <3> QED
      BY <1>1, <2>1, <3>1
  <2>4. e # 0 /\ Right(e)
    <3> HIDE DEF Right
    <3> QED BY <1>4, <2>2
  <2> QED
    BY <2>2, <2>3, <2>4
<1>5. Nat \subseteq S
  <2> HIDE DEF S
  <2> QED BY <1>0, <1>3, <1>4, Backwards
<1>6. L[1] = Code
  BY <1>2 DEF IsRun
<1>7. f[1] = CommentFrom(L, t, 1)
  BY <1>5, <1>6 DEF AtRead
<1>8. Comment(t, x) = CommentFrom(L, t, 1)
  BY <1>2, CommentIs DEF CommentFrom
<1> QED
  BY <1>1, <1>7, <1>8
-----------------------------------------------------------------------------
(* _blank_isabelle_comments.                                               *)

IsOpeners(f, t) ==
    f = [i \in Nat |-> IF i <= Len(t) /\ t[i] \in Whitespace THEN f[i + 1] ELSE i]

LEMMA OpenersGrow ==
    ASSUME NEW t, Len(t) \in Nat, NEW f, f = CHOOSE h : IsOpeners(h, t)
    PROVE  \A i \in Nat : f[i] \in Nat /\ i <= f[i]
<1> DEFINE n == Len(t)
           Stop == {i \in Nat : ~(i <= n /\ t[i] \in Whitespace)}
           base == [i \in Nat |-> i]
           next == [i \in Nat |-> i + 1]
           g == [i \in Nat |-> [v \in Nat |-> v]]
           rank == [i \in Nat |-> IF i > n THEN 0 ELSE n + 1 - i]
<1>0. n \in Nat
  OBVIOUS
<1>1. base \in [Nat -> Nat] /\ g \in [Nat -> [Nat -> Nat]] /\ next \in [Nat -> Nat]
      /\ rank \in [Nat -> Nat] /\ \A i \in Nat : i \notin Stop => rank[next[i]] < rank[i]
  OBVIOUS
<1>2. PICK h : IsWalk(h, Nat, Nat, Stop, base, next, g)
  <2> HIDE DEF Stop, base, next, g, rank
  <2> QED BY <1>1, WalkExists
<1>3. \A i \in Nat : h[i] = IF i \in Stop THEN base[i] ELSE h[next[i]]
  <2> HIDE DEF Stop, base
  <2> QED BY <1>1, <1>2 DEF IsWalk
<1>4. IsOpeners(h, t)
  BY <1>2, <1>3 DEF IsOpeners, IsWalk
<1>5. IsOpeners(f, t)
  BY <1>4
<1>6. \A i \in Nat : f[i] = IF i <= n /\ t[i] \in Whitespace THEN f[i + 1] ELSE i
  BY <1>5 DEF IsOpeners
<1> DEFINE S == {i \in Nat : f[i] \in Nat /\ i <= f[i]}
<1>7. \A i \in Nat : i > n => i \in S
  BY <1>6
<1>8. \A i \in Nat : i <= n /\ (\A j \in Nat : i < j => j \in S) => i \in S
  BY <1>6
<1>9. Nat \subseteq S
  <2> HIDE DEF S
  <2> QED BY <1>0, <1>7, <1>8, Backwards
<1> QED
  BY <1>9

\* A marginal comment ends past its mark.
LEMMA MarginalGrows ==
    ASSUME NEW t \in Seq(Symbols), NEW start \in Nat
    PROVE  MarginalCommentEnd(t, start) \in Nat
           /\ (MarginalCommentEnd(t, start) # 0 => start < MarginalCommentEnd(t, start))
<1>1. PICK f : f = CHOOSE h : IsOpeners(h, t)
  OBVIOUS
<1>2. PICK at : at = f[start + 1]
  OBVIOUS
<1>3. at \in Nat /\ start < at
  <2>1. Len(t) \in Nat /\ start + 1 \in Nat
    OBVIOUS
  <2> QED
    BY <1>1, <1>2, <2>1, OpenersGrow
<1>4. MarginalCommentEnd(t, start) =
        IF at <= Len(t) /\ t[at] = Open THEN SkipVerbatimSpan(t, at) ELSE 0
  BY <1>1, <1>2 DEF MarginalCommentEnd, IsOpeners, SkipVerbatimSpan
<1>5. PICK L : IsRun(L, t, IsabelleComments)
  BY LexStatesRun
<1>6. SkipVerbatimSpan(t, at) \in Nat /\ at < SkipVerbatimSpan(t, at)
  BY <1>3, <1>5, VerbatimSpans
<1> QED
  BY <1>3, <1>4, <1>6

IsIsaEnds(f, t) ==
    f = [at \in Nat \X Nat |->
            LET i == at[1]  open == at[2]
            IN  IF i > Len(t) THEN i
                ELSE CASE t[i] = BlockOpen               -> f[<<i + 1, open + 1>>]
                       [] t[i] = BlockClose /\ open = 1  -> i + 1
                       [] t[i] = BlockClose /\ open > 1  -> f[<<i + 1, open - 1>>]
                       [] OTHER                          -> f[<<i + 1, open>>]]

LEMMA IsaEndsExist ==
    ASSUME NEW t \in Seq(Symbols)
    PROVE  \E f : IsIsaEnds(f, t)
<1> DEFINE D == Nat \X Nat
           Stop == {x \in D : x[1] > Len(t) \/ (t[x[1]] = BlockClose /\ x[2] = 1)}
           base == [x \in D |-> IF x[1] > Len(t) THEN x[1] ELSE x[1] + 1]
           next == [x \in D |-> <<x[1] + 1, CASE t[x[1]] = BlockOpen -> x[2] + 1
                                              [] t[x[1]] = BlockClose /\ x[2] > 1 -> x[2] - 1
                                              [] OTHER -> x[2]>>]
           g == [x \in D |-> [v \in Nat |-> v]]
           rank == [x \in D |-> IF x[1] > Len(t) THEN 0 ELSE Len(t) + 1 - x[1]]
<1>0. Len(t) \in Nat /\ BlockOpen # BlockClose
  BY DEF BlockOpen, BlockClose
<1>1. base \in [D -> Nat] /\ g \in [D -> [Nat -> Nat]]
  OBVIOUS
<1>2. next \in [D -> D]
  OBVIOUS
<1>3. rank \in [D -> Nat]
  BY <1>0
<1>4. \A x \in D : x \notin Stop => rank[next[x]] < rank[x]
  BY <1>0
<1>5. PICK f : IsWalk(f, D, Nat, Stop, base, next, g)
  <2> HIDE DEF D, Stop, base, next, g, rank
  <2> QED BY <1>1, <1>2, <1>3, <1>4, WalkExists
<1>6. \A x \in D : f[x] = IF x \in Stop THEN base[x] ELSE f[next[x]]
  <2> HIDE DEF Stop, base
  <2> QED BY <1>2, <1>5 DEF IsWalk
<1>7. IsIsaEnds(f, t)
  BY <1>0, <1>5, <1>6 DEF IsIsaEnds, IsWalk
<1> QED
  BY <1>7

\* The module's own block-comment end is the shared one.
LEMMA IsaBlockEnds ==
    ASSUME NEW t \in Seq(Symbols), NEW start \in Nat
    PROVE  IsaBlockCommentEnd(t, start) = BlockCommentEnd(t, start)
<1> DEFINE n == Len(t)
<1>0. n \in Nat /\ BlockOpen # BlockClose
  BY DEF BlockOpen, BlockClose
<1>1. PICK f : /\ IsNestEnds(f, t, BlockOpen, BlockClose)
               /\ \A first : NestEnd(t, first, BlockOpen, BlockClose) = f[<<first, 1>>]
  BY NestEndWalks
<1>2. PICK e : e = CHOOSE h : IsIsaEnds(h, t)
  OBVIOUS
<1>3. IsIsaEnds(e, t)
  BY <1>2, IsaEndsExist
<1>4. IsaBlockCommentEnd(t, start) = e[<<start + 1, 1>>]
  BY <1>2 DEF IsaBlockCommentEnd, IsIsaEnds
<1>5. \A i, d \in Nat :
        e[<<i, d>>] = IF i > n THEN i
                      ELSE CASE t[i] = BlockOpen            -> e[<<i + 1, d + 1>>]
                             [] t[i] = BlockClose /\ d = 1  -> i + 1
                             [] t[i] = BlockClose /\ d > 1  -> e[<<i + 1, d - 1>>]
                             [] OTHER                       -> e[<<i + 1, d>>]
  BY <1>3, ZenonT(60) DEF IsIsaEnds
<1>6. \A i, d \in Nat :
        f[<<i, d>>] = IF d = 0 \/ i > n THEN i
                      ELSE f[<<i + 1, CASE t[i] = BlockOpen  -> d + 1
                                        [] t[i] = BlockClose -> d - 1
                                        [] OTHER             -> d>>]
  BY <1>1, ZenonT(60) DEF IsNestEnds
<1> DEFINE S == {i \in Nat : \A d \in Nat \ {0} : e[<<i, d>>] = f[<<i, d>>]}
<1> HIDE DEF n
<1>7. ASSUME NEW i \in Nat, i > n PROVE i \in S
  <2> SUFFICES ASSUME NEW d \in Nat \ {0} PROVE e[<<i, d>>] = f[<<i, d>>]
    OBVIOUS
  <2>1. e[<<i, d>>] = i
    BY <1>5, <1>7
  <2>2. f[<<i, d>>] = i
    BY <1>6, <1>7
  <2> QED
    BY <2>1, <2>2
<1>8. ASSUME NEW i \in Nat, i <= n, \A j \in Nat : i < j => j \in S
      PROVE  i \in S
  <2> SUFFICES ASSUME NEW d \in Nat \ {0} PROVE e[<<i, d>>] = f[<<i, d>>]
    OBVIOUS
  <2>0. /\ e[<<i, d>>] = CASE t[i] = BlockOpen           -> e[<<i + 1, d + 1>>]
                          [] t[i] = BlockClose /\ d = 1 -> i + 1
                          [] t[i] = BlockClose /\ d > 1 -> e[<<i + 1, d - 1>>]
                          [] OTHER                      -> e[<<i + 1, d>>]
        /\ f[<<i, d>>] = f[<<i + 1, CASE t[i] = BlockOpen  -> d + 1
                                       [] t[i] = BlockClose -> d - 1
                                       [] OTHER             -> d>>]
    <3>1. ~(i > n) /\ ~(d = 0 \/ i > n) /\ d \in Nat
      BY <1>0, <1>8
    <3> HIDE DEF S
    <3> QED
      BY <1>5, <1>6, <3>1, Zenon
  <2>1. ~(i > n) /\ i + 1 \in Nat /\ d \in Nat /\ d + 1 \in Nat /\ d - 1 \in Nat
    BY <1>0, <1>8
  <2>2. \A c \in Nat \ {0} : e[<<i + 1, c>>] = f[<<i + 1, c>>]
    BY <1>8, <2>1
  <2>3. CASE t[i] = BlockOpen
    <3>1. e[<<i, d>>] = e[<<i + 1, d + 1>>]
      BY <1>0, <2>0, <2>3
    <3>2. f[<<i, d>>] = f[<<i + 1, d + 1>>]
      BY <1>0, <2>0, <2>3
    <3> QED
      BY <2>2, <3>1, <3>2
  <2>4. CASE t[i] = BlockClose /\ d = 1
    <3>1. e[<<i, d>>] = i + 1
      BY <1>0, <2>0, <2>4
    <3>2. f[<<i, d>>] = f[<<i + 1, 0>>]
      BY <1>0, <2>0, <2>4
    <3>3. f[<<i + 1, 0>>] = i + 1
      BY <1>6, <2>1
    <3> QED
      BY <3>1, <3>2, <3>3
  <2>5. CASE t[i] = BlockClose /\ d # 1
    <3>1. e[<<i, d>>] = e[<<i + 1, d - 1>>]
      BY <1>0, <2>0, <2>5
    <3>2. f[<<i, d>>] = f[<<i + 1, d - 1>>]
      BY <1>0, <2>0, <2>5
    <3>3. d - 1 \in Nat \ {0}
      BY <2>5
    <3> QED
      BY <2>2, <3>1, <3>2, <3>3
  <2>6. CASE t[i] \notin {BlockOpen, BlockClose}
    <3>1. e[<<i, d>>] = e[<<i + 1, d>>]
      BY <2>0, <2>6
    <3>2. f[<<i, d>>] = f[<<i + 1, d>>]
      BY <2>0, <2>6
    <3> QED
      BY <2>2, <3>1, <3>2
  <2> QED
    BY <2>3, <2>4, <2>5, <2>6
<1>9. Nat \subseteq S
  <2> HIDE DEF S
  <2> QED BY <1>0, <1>7, <1>8, Backwards
<1>10. e[<<start + 1, 1>>] = f[<<start + 1, 1>>]
  BY <1>9
<1> QED
  BY <1>1, <1>4, <1>10 DEF BlockCommentEnd

IsLiteralEnds(f, t) ==
    f = [at \in Nat \X BOOLEAN |->
            LET i == at[1]  escaped == at[2]
            IN  IF i > Len(t) \/ (t[i] = Quote /\ ~escaped) THEN i + 1
                ELSE f[<<i + 1, t[i] = Escape /\ ~escaped>>]]

LEMMA LiteralEndsExist ==
    ASSUME NEW t \in Seq(Symbols)
    PROVE  \E f : IsLiteralEnds(f, t)
<1> DEFINE D == Nat \X BOOLEAN
           Stop == {x \in D : x[1] > Len(t) \/ (t[x[1]] = Quote /\ ~x[2])}
           base == [x \in D |-> x[1] + 1]
           next == [x \in D |-> <<x[1] + 1, t[x[1]] = Escape /\ ~x[2]>>]
           g == [x \in D |-> [v \in Nat |-> v]]
           rank == [x \in D |-> IF x[1] > Len(t) THEN 0 ELSE Len(t) + 1 - x[1]]
<1>0. Len(t) \in Nat
  OBVIOUS
<1>1. base \in [D -> Nat] /\ g \in [D -> [Nat -> Nat]]
  OBVIOUS
<1>2. next \in [D -> D]
  <2>1. ASSUME NEW x \in D PROVE <<x[1] + 1, t[x[1]] = Escape /\ ~x[2]>> \in D
    <3>1. x[1] + 1 \in Nat
      OBVIOUS
    <3>2. (t[x[1]] = Escape /\ ~x[2]) \in BOOLEAN
      BY Zenon
    <3> QED
      BY <3>1, <3>2
  <2> HIDE DEF D
  <2> QED
    BY <2>1
<1>3. rank \in [D -> Nat]
  BY <1>0
<1>4. ASSUME NEW x \in D, x \notin Stop PROVE rank[next[x]] < rank[x]
  <2>1. next[x] \in D /\ next[x][1] = x[1] + 1 /\ x[1] \in Nat
    <3> HIDE DEF next
    <3>1. next[x] \in D
      BY <1>2
    <3>2. next[x] = <<x[1] + 1, t[x[1]] = Escape /\ ~x[2]>>
      BY DEF next
    <3> QED
      BY <3>1, <3>2
  <2>2. ~(x[1] > Len(t))
    BY <1>4
  <2> HIDE DEF next
  <2> QED
    BY <1>0, <2>1, <2>2
<1>5. PICK f : IsWalk(f, D, Nat, Stop, base, next, g)
  <2> HIDE DEF D, Stop, base, next, g, rank
  <2> QED BY <1>1, <1>2, <1>3, <1>4, WalkExists
<1>6. \A x \in D : f[x] = IF x \in Stop THEN base[x] ELSE f[next[x]]
  <2> HIDE DEF Stop, base
  <2> QED BY <1>2, <1>5 DEF IsWalk
<1>7. IsLiteralEnds(f, t)
  BY <1>5, <1>6 DEF IsLiteralEnds, IsWalk
<1> QED
  BY <1>7

\* The module's own string end is the shared one.
LEMMA StringLiteralEnds ==
    ASSUME NEW t \in Seq(Symbols), NEW start \in Nat
    PROVE  StringLiteralEnd(t, start) = SkipStringLiteral(t, start)
<1> DEFINE n == Len(t)
<1>0. n \in Nat /\ Quote # Escape
  BY DEF Quote, Escape
<1>1. PICK f : /\ IsStringCloses(f, t)
               /\ \A k : SkipStringLiteral(t, k) = f[k + 1] + 1
  BY StringCloses
<1>2. PICK e : e = CHOOSE h : IsLiteralEnds(h, t)
  OBVIOUS
<1>3. IsLiteralEnds(e, t)
  BY <1>2, LiteralEndsExist
<1>4. StringLiteralEnd(t, start) = e[<<start + 1, FALSE>>]
  BY <1>2 DEF StringLiteralEnd, IsLiteralEnds
<1>5. \A i \in Nat, b \in BOOLEAN :
        e[<<i, b>>] = IF i > n \/ (t[i] = Quote /\ ~b) THEN i + 1
                      ELSE e[<<i + 1, t[i] = Escape /\ ~b>>]
  BY <1>3 DEF IsLiteralEnds
<1>6. \A i \in Nat :
        f[i] = IF i > n \/ t[i] = Quote THEN i
               ELSE f[IF t[i] = Escape /\ i < n THEN i + 2 ELSE i + 1]
  BY <1>1 DEF IsStringCloses
<1> DEFINE S == {i \in Nat : e[<<i, FALSE>>] = f[i] + 1}
<1> HIDE DEF n
<1>7. \A i \in Nat : i > n => i \in S
  BY <1>0, <1>5, <1>6
<1>8. ASSUME NEW i \in Nat, i <= n, \A j \in Nat : i < j => j \in S
      PROVE  i \in S
  <2>1. ~(i > n) /\ i + 1 \in Nat /\ i + 2 \in Nat /\ (i + 1) + 1 = i + 2
    BY <1>0, <1>8
  <2>2. e[<<i + 1, FALSE>>] = f[i + 1] + 1 /\ e[<<i + 2, FALSE>>] = f[i + 2] + 1
    <3>1. i + 1 \in S /\ i + 2 \in S
      <4> HIDE DEF S
      <4> QED BY <1>8, <2>1
    <3> QED
      BY <3>1
  <2>3. CASE t[i] = Quote
    BY <1>5, <1>6, <2>3
  <2>4. CASE t[i] = Escape
    <3>1. e[<<i, FALSE>>] = e[<<i + 1, TRUE>>]
      BY <1>0, <1>5, <2>1, <2>4
    <3>2. CASE i < n
      <4>1. ~(i + 1 > n)
        BY <1>0, <3>2
      <4>2. e[<<i + 1, TRUE>>] = e[<<i + 2, FALSE>>]
        BY <1>5, <2>1, <4>1
      <4>3. f[i] = f[i + 2]
        BY <1>0, <1>6, <2>1, <2>4, <3>2
      <4> QED
        BY <2>2, <3>1, <4>2, <4>3
    <3>3. CASE ~(i < n)
      <4>1. i + 1 > n
        BY <1>0, <3>3
      <4>2. e[<<i + 1, TRUE>>] = i + 2
        BY <1>5, <2>1, <4>1
      <4>3. f[i] = f[i + 1] /\ f[i + 1] = i + 1
        BY <1>0, <1>6, <2>1, <2>4, <3>3, <4>1
      <4> QED
        BY <3>1, <4>2, <4>3
    <3> QED
      BY <3>2, <3>3
  <2>5. CASE t[i] \notin {Quote, Escape}
    <3>1. e[<<i, FALSE>>] = e[<<i + 1, FALSE>>]
      BY <1>5, <2>1, <2>5
    <3>2. f[i] = f[i + 1]
      BY <1>6, <2>1, <2>5
    <3> QED
      BY <2>2, <3>1, <3>2
  <2> QED
    BY <2>3, <2>4, <2>5
<1>9. Nat \subseteq S
  <2> HIDE DEF S
  <2> QED BY <1>0, <1>7, <1>8, Backwards
<1>10. e[<<start + 1, FALSE>>] = f[start + 1] + 1
  <2>1. start + 1 \in S
    <3> HIDE DEF S
    <3> QED BY <1>9
  <2> QED
    BY <2>1
<1> QED
  BY <1>1, <1>4, <1>10
Marginal(t, i) == IF t[i] = CommentMark THEN MarginalCommentEnd(t, i) ELSE 0

IsBlanks(f, t) ==
    f = [at \in Nat \X Nat |->
            LET i == at[1]  depth == at[2]
            IN  IF i > Len(t) THEN {}
                ELSE CASE Marginal(t, i) # 0 ->
                            BlankRange(t, i, Marginal(t, i)) \cup f[<<Marginal(t, i), depth>>]
                       [] Marginal(t, i) = 0 /\ depth > 0 ->
                            f[<<i + 1, CASE t[i] = Open  -> depth + 1
                                         [] t[i] = Close -> depth - 1
                                         [] OTHER        -> depth>>]
                       [] Marginal(t, i) = 0 /\ depth = 0 /\ t[i] = Quote ->
                            f[<<StringLiteralEnd(t, i), 0>>]
                       [] Marginal(t, i) = 0 /\ depth = 0 /\ t[i] = BlockOpen ->
                            BlankRange(t, i, IsaBlockCommentEnd(t, i))
                                \cup f[<<IsaBlockCommentEnd(t, i), 0>>]
                       [] OTHER -> f[<<i + 1, IF t[i] = Open THEN 1 ELSE 0>>]]

BlankNext(t, i, d) ==
    IF Marginal(t, i) # 0 THEN <<Marginal(t, i), d>>
    ELSE IF d > 0 THEN <<i + 1, CASE t[i] = Open  -> d + 1
                                  [] t[i] = Close -> d - 1
                                  [] OTHER        -> d>>
    ELSE IF t[i] = Quote THEN <<StringLiteralEnd(t, i), 0>>
    ELSE IF t[i] = BlockOpen THEN <<IsaBlockCommentEnd(t, i), 0>>
    ELSE <<i + 1, IF t[i] = Open THEN 1 ELSE 0>>

BlankBlanks(t, i, d) ==
    IF Marginal(t, i) # 0 THEN BlankRange(t, i, Marginal(t, i))
    ELSE IF d = 0 /\ t[i] = BlockOpen THEN BlankRange(t, i, IsaBlockCommentEnd(t, i))
    ELSE {}

LEMMA BlankNextGrows ==
    ASSUME NEW t \in Seq(Symbols), NEW i \in Nat, NEW d \in Nat
    PROVE  BlankNext(t, i, d) \in Nat \X Nat /\ i < BlankNext(t, i, d)[1]
<1>1. PICK L : IsRun(L, t, IsabelleComments)
  BY LexStatesRun
<1>2. IsaBlockCommentEnd(t, i) \in Nat /\ i < IsaBlockCommentEnd(t, i)
  BY <1>1, BlockCommentSpans, IsaBlockEnds
<1>3. StringLiteralEnd(t, i) \in Nat /\ i < StringLiteralEnd(t, i)
  BY <1>1, StringSpans, StringLiteralEnds
<1>4. Marginal(t, i) \in Nat /\ (Marginal(t, i) # 0 => i < Marginal(t, i))
  BY MarginalGrows DEF Marginal
<1>5. d > 0 => (CASE t[i] = Open -> d + 1 [] t[i] = Close -> d - 1 [] OTHER -> d) \in Nat
  OBVIOUS
<1> QED
  BY <1>2, <1>3, <1>4, <1>5 DEF BlankNext

\* _blank_isabelle_comments blanks at a place and a depth, and goes on from the
\* next.
LEMMA BlanksWalk ==
    ASSUME NEW t \in Seq(Symbols)
    PROVE  \E f : /\ BlankIsabelleComments(t) = f[<<1, 0>>]
                  /\ \A i, d \in Nat : f[<<i, d>>] =
                        IF i > Len(t) THEN {}
                        ELSE BlankBlanks(t, i, d) \cup f[BlankNext(t, i, d)]
<1> DEFINE D == Nat \X Nat
           V == SUBSET Nat
           Stop == {x \in D : x[1] > Len(t)}
           base == [x \in D |-> {}]
           next == [x \in D |-> BlankNext(t, x[1], x[2])]
           g == [x \in D |-> [v \in V |-> BlankBlanks(t, x[1], x[2]) \cup v]]
           rank == [x \in D |-> IF x[1] > Len(t) THEN 0 ELSE Len(t) + 1 - x[1]]
<1>0. Len(t) \in Nat /\ Quote \notin {BlockOpen, Open} /\ BlockOpen # Open
  BY TheyDiffer DEF SymbolsDiffer
<1>1. base \in [D -> V] /\ rank \in [D -> Nat]
  BY <1>0
<1>2. next \in [D -> D]
  BY BlankNextGrows
<1>3. \A x \in D : x \notin Stop => rank[next[x]] < rank[x]
  <2> SUFFICES ASSUME NEW x \in D, x[1] <= Len(t) PROVE rank[next[x]] < rank[x]
    <3> HIDE DEF rank, next
    <3> QED BY <1>0
  <2>1. PICK y \in D : y = BlankNext(t, x[1], x[2]) /\ x[1] < y[1]
    BY BlankNextGrows
  <2>2. next[x] = y
    BY <2>1
  <2>3. rank[y] < rank[x]
    BY <1>0, <2>1
  <2> QED
    BY <2>2, <2>3
<1>4. g \in [D -> [V -> V]]
  <2>1. ASSUME NEW x \in D PROVE BlankBlanks(t, x[1], x[2]) \in V
    <3>1. \A i, e : i \in Nat => BlankRange(t, i, e) \in V
      BY DEF BlankRange
    <3> QED
      BY <3>1 DEF BlankBlanks
  <2>2. \A a, b \in V : a \cup b \in V
    OBVIOUS
  <2> HIDE DEF V, D
  <2> QED BY <2>1, <2>2
<1>5. PICK h : IsWalk(h, D, V, Stop, base, next, g)
  <2> HIDE DEF D, V, Stop, base, next, g, rank
  <2> QED BY <1>1, <1>2, <1>3, <1>4, WalkExists
<1> DEFINE Answer(f, i, d) == IF i > Len(t) THEN {}
                              ELSE BlankBlanks(t, i, d) \cup f[BlankNext(t, i, d)]
<1>6. \A i, d \in Nat : h[<<i, d>>] = Answer(h, i, d)
  <2> SUFFICES ASSUME NEW i \in Nat, NEW d \in Nat PROVE h[<<i, d>>] = Answer(h, i, d)
    OBVIOUS
  <2>0. PICK x \in D : x = <<i, d>>
    OBVIOUS
  <2>1. h[x] = IF x \in Stop THEN base[x] ELSE g[x][h[next[x]]]
    <3> HIDE DEF Stop, base, next, g, V, D
    <3> QED BY <1>5 DEF IsWalk
  <2>2. h[next[x]] \in V
    <3> HIDE DEF Stop, base, next, g, V, D
    <3> QED BY <1>2, <1>5 DEF IsWalk
  <2>3. CASE i > Len(t)
    BY <2>0, <2>1, <2>3
  <2>4. CASE ~(i > Len(t))
    <3>1. h[x] = g[x][h[next[x]]] /\ next[x] = BlankNext(t, i, d)
      <4> HIDE DEF g, V
      <4> QED BY <1>0, <2>0, <2>1, <2>4
    <3>2. \A v \in V : g[x][v] = BlankBlanks(t, i, d) \cup v
      <4> HIDE DEF V
      <4> QED BY <2>0
    <3> HIDE DEF g, V, next
    <3> QED
      BY <2>0, <2>2, <2>4, <3>1, <3>2
  <2> QED
    BY <2>3, <2>4
<1> DEFINE Body(f, i, depth) ==
              IF i > Len(t) THEN {}
                ELSE CASE Marginal(t, i) # 0 ->
                            BlankRange(t, i, Marginal(t, i)) \cup f[<<Marginal(t, i), depth>>]
                       [] Marginal(t, i) = 0 /\ depth > 0 ->
                            f[<<i + 1, CASE t[i] = Open  -> depth + 1
                                         [] t[i] = Close -> depth - 1
                                         [] OTHER        -> depth>>]
                       [] Marginal(t, i) = 0 /\ depth = 0 /\ t[i] = Quote ->
                            f[<<StringLiteralEnd(t, i), 0>>]
                       [] Marginal(t, i) = 0 /\ depth = 0 /\ t[i] = BlockOpen ->
                            BlankRange(t, i, IsaBlockCommentEnd(t, i))
                                \cup f[<<IsaBlockCommentEnd(t, i), 0>>]
                       [] OTHER -> f[<<i + 1, IF t[i] = Open THEN 1 ELSE 0>>]
<1>7. \A f, i : \A d \in Nat : Body(f, i, d) = Answer(f, i, d)
  <2> SUFFICES ASSUME NEW f, NEW i, NEW d \in Nat PROVE Body(f, i, d) = Answer(f, i, d)
    <3> HIDE DEF Body, Answer
    <3> QED OBVIOUS
  <2>0. CASE i > Len(t)
    BY <2>0
  <2>1. CASE ~(i > Len(t)) /\ Marginal(t, i) # 0
    BY <2>1 DEF BlankBlanks, BlankNext
  <2>2. CASE ~(i > Len(t)) /\ Marginal(t, i) = 0 /\ d > 0
    BY <2>2 DEF BlankBlanks, BlankNext
  <2>3. CASE ~(i > Len(t)) /\ Marginal(t, i) = 0 /\ d = 0 /\ t[i] = Quote
    BY <1>0, <2>3 DEF BlankBlanks, BlankNext
  <2>4. CASE ~(i > Len(t)) /\ Marginal(t, i) = 0 /\ d = 0 /\ t[i] = BlockOpen
    BY <1>0, <2>4 DEF BlankBlanks, BlankNext
  <2>5. CASE ~(i > Len(t)) /\ Marginal(t, i) = 0 /\ d = 0 /\ t[i] \notin {Quote, BlockOpen}
    BY <2>5 DEF BlankBlanks, BlankNext
  <2>6. d = 0 \/ d > 0
    OBVIOUS
  <2> HIDE DEF Body, Answer
  <2> QED
    BY <2>0, <2>1, <2>2, <2>3, <2>4, <2>5, <2>6
<1>8. \A f : IsBlanks(f, t) <=> f = [x \in D |-> Body(f, x[1], x[2])]
  BY DEF IsBlanks
<1>9. IsBlanks(h, t)
  <2>1. h = [x \in D |-> h[x]]
    BY <1>5 DEF IsWalk
  <2>2. \A x \in D : h[x] = Body(h, x[1], x[2])
    <3>1. ASSUME NEW x \in D PROVE x = <<x[1], x[2]>> /\ x[1] \in Nat /\ x[2] \in Nat
      OBVIOUS
    <3> HIDE DEF Body, Answer, D
    <3> QED BY <1>6, <1>7, <3>1
  <2> HIDE DEF Body
  <2> QED
    BY <1>8, <2>1, <2>2
<1>10. PICK f : f = CHOOSE k : IsBlanks(k, t)
  OBVIOUS
<1>11. IsBlanks(f, t)
  BY <1>9, <1>10
<1>12. BlankIsabelleComments(t) = f[<<1, 0>>]
  BY <1>10 DEF BlankIsabelleComments, IsBlanks, Marginal
<1>13. \A i, d \in Nat : f[<<i, d>>] = Answer(f, i, d)
  <2> SUFFICES ASSUME NEW i \in Nat, NEW d \in Nat PROVE f[<<i, d>>] = Answer(f, i, d)
    OBVIOUS
  <2>1. <<i, d>> \in D /\ <<i, d>>[1] = i /\ <<i, d>>[2] = d
    OBVIOUS
  <2>2. f[<<i, d>>] = Body(f, i, d)
    <3> HIDE DEF Body, D
    <3> QED BY <1>8, <1>11, <2>1
  <2> HIDE DEF Body, Answer
  <2> QED BY <1>7, <2>2
<1> QED
  BY <1>12, <1>13

\* Where no mark has a cartouche, _blank_isabelle_comments and strip_comments
\* blank the same positions.
LEMMA BlankersSame ==
    ASSUME NEW t \in Seq(Symbols),
           \A k \in 1..Len(t) : t[k] = CommentMark => MarginalCommentEnd(t, k) = 0
    PROVE  BlankIsabelleComments(t) = StripComments(t, IsabelleComments)
<1> DEFINE n == Len(t)
           x == IsabelleComments
<1>0. n \in Nat /\ x.line = FALSE /\ x.verbatim = TRUE /\ Open # Close
  BY DEF IsabelleComments, Open, Close
<1>1. PICK f : /\ StripComments(t, x) = f[1]
               /\ \A i \in Nat : f[i] = IF i > n THEN {}
                                        ELSE StripBlanks(t, x, i) \cup f[StripNext(t, x, i)]
  BY StripsWalk
<1>2. PICK h : /\ BlankIsabelleComments(t) = h[<<1, 0>>]
               /\ \A i, d \in Nat : h[<<i, d>>] =
                     IF i > n THEN {} ELSE BlankBlanks(t, i, d) \cup h[BlankNext(t, i, d)]
  BY BlanksWalk
<1>3. PICK e : /\ IsNestEnds(e, t, Open, Close)
               /\ \A first : NestEnd(t, first, Open, Close) = e[<<first, 1>>]
  BY NestEndWalks
<1>4. \A i, d \in Nat :
        e[<<i, d>>] = IF d = 0 \/ i > n THEN i
                      ELSE e[<<i + 1, CASE t[i] = Open  -> d + 1
                                        [] t[i] = Close -> d - 1
                                        [] OTHER        -> d>>]
  BY <1>3, ZenonT(60) DEF IsNestEnds
<1> DEFINE Same(i, d) == h[<<i, d>>] = f[e[<<i, d>>]]
           S == {i \in Nat : i = 0 \/ \A d \in Nat : Same(i, d)}
<1> HIDE DEF n, x
<1>5. \A i \in Nat : i > n => i \in S
  <2> SUFFICES ASSUME NEW i \in Nat, i > n, NEW d \in Nat PROVE Same(i, d)
    <3> HIDE DEF Same
    <3> QED OBVIOUS
  <2>1. e[<<i, d>>] = i
    BY <1>4
  <2>2. f[i] = {} /\ h[<<i, d>>] = {}
    BY <1>1, <1>2
  <2> QED
    BY <2>1, <2>2
<1>6. ASSUME NEW i \in Nat, i <= n, \A j \in Nat : i < j => j \in S
      PROVE  i \in S
  <2> SUFFICES ASSUME i # 0, NEW d \in Nat PROVE Same(i, d)
    <3> HIDE DEF Same
    <3> QED OBVIOUS
  <2>1. i \in 1..Len(t) /\ ~(i > n) /\ i + 1 \in Nat
    BY <1>0, <1>6 DEF n
  <2>2. \A j \in Nat, c \in Nat : i < j => Same(j, c)
    <3> HIDE DEF Same
    <3> QED BY <1>6
  <2>3. Marginal(t, i) = 0
    BY <2>1 DEF Marginal
  <2>4. h[<<i, d>>] = BlankBlanks(t, i, d) \cup h[BlankNext(t, i, d)]
    BY <1>2, <2>1, Zenon
  <2>5. f[i] = StripBlanks(t, x, i) \cup f[StripNext(t, x, i)]
    BY <1>1, <2>1, Zenon
  <2>6. \A j \in Nat : e[<<j, 0>>] = j
    BY <1>4
  <2>7. CASE d > 0
    <3>1. PICK c \in Nat : c = CASE t[i] = Open  -> d + 1
                                 [] t[i] = Close -> d - 1
                                 [] OTHER        -> d
      BY <2>7
    <3>2. BlankNext(t, i, d) = <<i + 1, c>> /\ BlankBlanks(t, i, d) = {}
      BY <2>3, <2>7, <3>1 DEF BlankNext, BlankBlanks
    <3>3. e[<<i, d>>] = e[<<i + 1, c>>]
      BY <1>4, <2>1, <2>7, <3>1
    <3>4. Same(i + 1, c)
      <4> HIDE DEF Same
      <4> QED BY <2>1, <2>2
    <3> QED
      BY <2>4, <3>2, <3>3, <3>4
  <2>8. CASE d = 0 /\ t[i] = Quote
    <3>1. PICK j : j = SkipStringLiteral(t, i)
      OBVIOUS
    <3>2. j \in Nat /\ i < j
      <4>1. PICK L : IsRun(L, t, x)
        BY LexStatesRun
      <4> QED
        BY <3>1, <4>1, StringSpans
    <3>3. BlankNext(t, i, d) = <<j, 0>> /\ BlankBlanks(t, i, d) = {}
      BY <2>3, <2>8, <3>1, StringLiteralEnds, TheyDiffer DEF BlankNext, BlankBlanks, SymbolsDiffer
    <3>4. StripNext(t, x, i) = j /\ StripBlanks(t, x, i) = {}
      BY <1>0, <2>8, <3>1, TheyDiffer DEF StripNext, StripBlanks, SymbolsDiffer
    <3>5. Same(j, 0)
      <4> HIDE DEF Same
      <4> QED BY <2>2, <3>2
    <3> QED
      BY <2>4, <2>5, <2>6, <2>8, <3>2, <3>3, <3>4, <3>5
  <2>9. CASE d = 0 /\ t[i] = BlockOpen
    <3>1. PICK j : j = BlockCommentEnd(t, i)
      OBVIOUS
    <3>2. j \in Nat /\ i < j
      <4>1. PICK L : IsRun(L, t, x)
        BY LexStatesRun
      <4> QED
        BY <3>1, <4>1, BlockCommentSpans
    <3>3. BlankNext(t, i, d) = <<j, 0>> /\ BlankBlanks(t, i, d) = BlankRange(t, i, j)
      BY <2>3, <2>9, <3>1, IsaBlockEnds, TheyDiffer DEF BlankNext, BlankBlanks, SymbolsDiffer
    <3>4. StripNext(t, x, i) = j /\ StripBlanks(t, x, i) = BlankRange(t, i, j)
      BY <2>9, <3>1, TheyDiffer DEF StripNext, StripBlanks, SymbolsDiffer
    <3>5. Same(j, 0)
      <4> HIDE DEF Same
      <4> QED BY <2>2, <3>2
    <3> QED
      BY <2>4, <2>5, <2>6, <2>9, <3>2, <3>3, <3>4, <3>5
  <2>10. CASE d = 0 /\ t[i] = Open
    <3>1. PICK j : j = SkipVerbatimSpan(t, i)
      OBVIOUS
    <3>2. j = e[<<i + 1, 1>>]
      BY <1>3, <3>1 DEF SkipVerbatimSpan
    <3>3. BlankNext(t, i, d) = <<i + 1, 1>> /\ BlankBlanks(t, i, d) = {}
      BY <2>3, <2>10, TheyDiffer DEF BlankNext, BlankBlanks, SymbolsDiffer
    <3>4. StripNext(t, x, i) = j /\ StripBlanks(t, x, i) = {}
      BY <1>0, <2>10, <3>1, TheyDiffer DEF StripNext, StripBlanks, SymbolsDiffer
    <3>5. Same(i + 1, 1)
      <4> HIDE DEF Same
      <4> QED BY <2>1, <2>2
    <3> QED
      BY <2>4, <2>5, <2>6, <2>10, <3>2, <3>3, <3>4, <3>5
  <2>11. CASE d = 0 /\ t[i] \notin {Quote, BlockOpen, Open}
    <3>1. BlankNext(t, i, d) = <<i + 1, 0>> /\ BlankBlanks(t, i, d) = {}
      BY <2>3, <2>11 DEF BlankNext, BlankBlanks
    <3>2. StripNext(t, x, i) = i + 1 /\ StripBlanks(t, x, i) = {}
      BY <1>0, <2>11 DEF StripNext, StripBlanks
    <3>3. Same(i + 1, 0)
      <4> HIDE DEF Same
      <4> QED BY <2>1, <2>2
    <3> QED
      BY <2>1, <2>4, <2>5, <2>6, <2>11, <3>1, <3>2, <3>3
  <2> QED
    BY <2>7, <2>8, <2>9, <2>10, <2>11
<1>7. Nat \subseteq S
  <2> HIDE DEF S
  <2> QED BY <1>0, <1>5, <1>6, Backwards
<1>8. Same(1, 0) /\ e[<<1, 0>>] = 1
  <2>1. 1 \in S
    <3> HIDE DEF S
    <3> QED BY <1>7
  <2>2. Same(1, 0)
    <3> HIDE DEF Same
    <3> QED BY <2>1
  <2>3. e[<<1, 0>>] = 1
    BY <1>4
  <2> QED
    BY <2>2, <2>3
<1> QED
  BY <1>1, <1>2, <1>8 DEF x
-----------------------------------------------------------------------------
(* isabelle_continuation_lines.                                            *)

IsScans(f, t, last) ==
    f = [at \in Nat \X BOOLEAN \X Nat |->
            LET i == at[1]  quote == at[2]  depth == at[3]
            IN  IF i > last THEN [quote |-> quote, depth |-> depth]
                ELSE IF quote
                     THEN IF t[i] = Escape /\ i < last THEN f[<<i + 2, TRUE, depth>>]
                          ELSE f[<<i + 1, t[i] # Quote, depth>>]
                ELSE IF depth > 0
                     THEN f[<<i + 1, FALSE, CASE t[i] = Open  -> depth + 1
                                              [] t[i] = Close -> depth - 1
                                              [] OTHER        -> depth>>]
                ELSE f[<<i + 1, t[i] = Quote, IF t[i] = Open THEN 1 ELSE 0>>]]

ScanNext(t, last, x) ==
    IF x[2]
    THEN IF t[x[1]] = Escape /\ x[1] < last THEN <<x[1] + 2, TRUE, x[3]>>
         ELSE <<x[1] + 1, t[x[1]] # Quote, x[3]>>
    ELSE IF x[3] > 0
         THEN <<x[1] + 1, FALSE, CASE t[x[1]] = Open  -> x[3] + 1
                                   [] t[x[1]] = Close -> x[3] - 1
                                   [] OTHER           -> x[3]>>
    ELSE <<x[1] + 1, t[x[1]] = Quote, IF t[x[1]] = Open THEN 1 ELSE 0>>

LEMMA ScanNextGrows ==
    ASSUME NEW t, NEW last \in Int, NEW x \in Nat \X BOOLEAN \X Nat
    PROVE  ScanNext(t, last, x) \in Nat \X BOOLEAN \X Nat /\ x[1] < ScanNext(t, last, x)[1]
<1> DEFINE Goal(y) == y \in Nat \X BOOLEAN \X Nat /\ x[1] < y[1]
<1>0. \A a \in Nat, b \in BOOLEAN, c \in Nat : x[1] < a => Goal(<<a, b, c>>)
  OBVIOUS
<1>1. x[1] \in Nat /\ x[3] \in Nat /\ x[2] \in BOOLEAN
  OBVIOUS
<1>2. PICK i \in Nat, d \in Nat : i = x[1] /\ d = x[3]
  BY <1>1
<1> HIDE DEF Goal
<1> SUFFICES Goal(ScanNext(t, last, x))
  BY DEF Goal
<1>3. i + 1 \in Nat /\ i + 2 \in Nat /\ i < i + 1 /\ i < i + 2 /\ 0 \in Nat /\ 1 \in Nat
      /\ TRUE \in BOOLEAN /\ FALSE \in BOOLEAN
  OBVIOUS
<1>4. (t[i] # Quote) \in BOOLEAN /\ (t[i] = Quote) \in BOOLEAN
      /\ (IF t[i] = Open THEN 1 ELSE 0) \in Nat
  OBVIOUS
<1>5. d > 0 => (CASE t[i] = Open -> d + 1 [] t[i] = Close -> d - 1 [] OTHER -> d) \in Nat
  OBVIOUS
<1>6. CASE x[2] /\ t[i] = Escape /\ i < last
  <2>1. ScanNext(t, last, x) = <<i + 2, TRUE, d>>
    BY <1>2, <1>6, Zenon DEF ScanNext
  <2> QED
    BY <1>0, <1>2, <1>3, <2>1
<1>7. CASE x[2] /\ ~(t[i] = Escape /\ i < last)
  <2>1. ScanNext(t, last, x) = <<i + 1, t[i] # Quote, d>>
    BY <1>2, <1>7, Zenon DEF ScanNext
  <2>2. PICK b \in BOOLEAN : b = (t[i] # Quote)
    BY <1>4, Zenon
  <2>3. ScanNext(t, last, x) = <<i + 1, b, d>>
    BY <2>1, <2>2, Zenon
  <2> QED
    BY <1>0, <1>2, <1>3, <2>3
<1>8. CASE ~x[2] /\ d > 0
  <2>1. ScanNext(t, last, x) = <<i + 1, FALSE, CASE t[i] = Open -> d + 1
                                                [] t[i] = Close -> d - 1 [] OTHER -> d>>
    BY <1>2, <1>8, Zenon DEF ScanNext
  <2>2. PICK c \in Nat : c = CASE t[i] = Open -> d + 1
                               [] t[i] = Close -> d - 1 [] OTHER -> d
    BY <1>5, <1>8
  <2>3. ScanNext(t, last, x) = <<i + 1, FALSE, c>>
    BY <2>1, <2>2, Zenon
  <2> QED
    BY <1>0, <1>2, <1>3, <2>3
<1>9. CASE ~x[2] /\ ~(d > 0)
  <2>1. ScanNext(t, last, x) = <<i + 1, t[i] = Quote, IF t[i] = Open THEN 1 ELSE 0>>
    BY <1>2, <1>9, Zenon DEF ScanNext
  <2>2. PICK b \in BOOLEAN : b = (t[i] = Quote)
    BY <1>4, Zenon
  <2>3. PICK c \in Nat : c = IF t[i] = Open THEN 1 ELSE 0
    BY <1>4
  <2>4. ScanNext(t, last, x) = <<i + 1, b, c>>
    BY <2>1, <2>2, <2>3, Zenon
  <2> QED
    BY <1>0, <1>2, <1>3, <2>4
<1> QED
  BY <1>6, <1>7, <1>8, <1>9

LEMMA ScansExist ==
    ASSUME NEW t, NEW last \in Int
    PROVE  \E f : IsScans(f, t, last) /\ f \in [Nat \X BOOLEAN \X Nat -> ScanStates]
<1> DEFINE D == Nat \X BOOLEAN \X Nat
           V == ScanStates
           Stop == {x \in D : x[1] > last}
           base == [x \in D |-> [quote |-> x[2], depth |-> x[3]]]
           next == [x \in D |-> ScanNext(t, last, x)]
           g == [x \in D |-> [v \in V |-> v]]
           rank == [x \in D |-> IF x[1] > last THEN 0 ELSE last + 1 - x[1]]
<1>1. base \in [D -> V] /\ g \in [D -> [V -> V]]
  BY DEF ScanStates
<1>2. next \in [D -> D] /\ rank \in [D -> Nat]
  BY ScanNextGrows
<1>3. \A x \in D : x \notin Stop => rank[next[x]] < rank[x]
  <2> SUFFICES ASSUME NEW x \in D, x[1] <= last PROVE rank[next[x]] < rank[x]
    <3>1. \A x \in D : x[1] \in Nat
      OBVIOUS
    <3> HIDE DEF rank, next, D
    <3> QED BY <3>1
  <2>1. PICK y \in D : y = ScanNext(t, last, x) /\ x[1] < y[1]
    BY ScanNextGrows
  <2>2. next[x] = y
    BY <2>1
  <2>3. rank[y] < rank[x]
    BY <2>1
  <2> QED
    BY <2>2, <2>3
<1>4. PICK f : IsWalk(f, D, V, Stop, base, next, g)
  <2> HIDE DEF D, V, Stop, base, next, g, rank
  <2> QED BY <1>1, <1>2, <1>3, WalkExists
<1>5. f \in [D -> V] /\ \A x \in D : f[x] = IF x \in Stop THEN base[x] ELSE f[ScanNext(t, last, x)]
  <2>1. \A x \in D : next[x] = ScanNext(t, last, x)
    OBVIOUS
  <2>2. \A x \in D : f[next[x]] \in V
    <3> HIDE DEF Stop, base, next, g, D, V
    <3> QED BY <1>2, <1>4 DEF IsWalk
  <2>3. \A x \in D, v \in V : g[x][v] = v
    OBVIOUS
  <2> HIDE DEF Stop, base, next, g, D, V
  <2> QED BY <1>4, <2>1, <2>2, <2>3 DEF IsWalk
<1> DEFINE Body(x) ==
        IF x[1] > last THEN [quote |-> x[2], depth |-> x[3]]
        ELSE IF x[2]
             THEN IF t[x[1]] = Escape /\ x[1] < last THEN f[<<x[1] + 2, TRUE, x[3]>>]
                  ELSE f[<<x[1] + 1, t[x[1]] # Quote, x[3]>>]
        ELSE IF x[3] > 0
             THEN f[<<x[1] + 1, FALSE, CASE t[x[1]] = Open  -> x[3] + 1
                                         [] t[x[1]] = Close -> x[3] - 1
                                         [] OTHER           -> x[3]>>]
        ELSE f[<<x[1] + 1, t[x[1]] = Quote, IF t[x[1]] = Open THEN 1 ELSE 0>>]
<1>6. ASSUME NEW x \in D PROVE f[x] = Body(x)
  <2>1. CASE x[1] > last
    BY <1>5, <2>1
  <2>2. CASE ~(x[1] > last)
    <3>1. f[x] = f[ScanNext(t, last, x)]
      BY <1>5, <2>2
    <3>2. Body(x) = f[ScanNext(t, last, x)]
      <4>1. CASE x[2] /\ t[x[1]] = Escape /\ x[1] < last
        BY <2>2, <4>1 DEF ScanNext
      <4>2. CASE x[2] /\ ~(t[x[1]] = Escape /\ x[1] < last)
        <5>1. ScanNext(t, last, x) = <<x[1] + 1, t[x[1]] # Quote, x[3]>>
          BY <4>2, Zenon DEF ScanNext
        <5>2. Body(x) = f[<<x[1] + 1, t[x[1]] # Quote, x[3]>>]
          BY <2>2, <4>2, Zenon
        <5> HIDE DEF Body
        <5> QED
          BY <5>1, <5>2, Zenon
      <4>3. CASE ~x[2] /\ x[3] > 0
        <5>1. ScanNext(t, last, x) = <<x[1] + 1, FALSE, CASE t[x[1]] = Open  -> x[3] + 1
                                                          [] t[x[1]] = Close -> x[3] - 1
                                                          [] OTHER           -> x[3]>>
          BY <4>3, Zenon DEF ScanNext
        <5>2. Body(x) = f[<<x[1] + 1, FALSE, CASE t[x[1]] = Open  -> x[3] + 1
                                               [] t[x[1]] = Close -> x[3] - 1
                                               [] OTHER           -> x[3]>>]
          BY <2>2, <4>3, Zenon
        <5> HIDE DEF Body
        <5> QED
          BY <5>1, <5>2, Zenon
      <4>4. CASE ~x[2] /\ ~(x[3] > 0)
        <5>1. ScanNext(t, last, x) = <<x[1] + 1, t[x[1]] = Quote, IF t[x[1]] = Open THEN 1 ELSE 0>>
          BY <4>4, Zenon DEF ScanNext
        <5>2. Body(x) = f[<<x[1] + 1, t[x[1]] = Quote, IF t[x[1]] = Open THEN 1 ELSE 0>>]
          BY <2>2, <4>4, ZenonT(60)
        <5> HIDE DEF Body
        <5> QED
          BY <5>1, <5>2, Zenon
      <4> HIDE DEF Body
      <4> QED
        BY <4>1, <4>2, <4>3, <4>4
    <3> HIDE DEF Body
    <3> QED
      BY <3>1, <3>2
  <2> HIDE DEF Body
  <2> QED
    BY <2>1, <2>2
<1>7. IsScans(f, t, last)
  <2>1. f = [x \in D |-> f[x]]
    BY <1>5
  <2>2. f = [x \in D |-> Body(x)]
    <3> HIDE DEF Body
    <3> QED BY <1>6, <2>1
  <2> QED
    BY <2>2 DEF IsScans
<1> QED
  BY <1>5, <1>7

\* The scan of a line, symbol by symbol.
LineScan(f, t, last) ==
    /\ \A first, state : ScanLine(t, first, last, state) = f[<<first, state.quote, state.depth>>]
    /\ \A i, d \in Nat : i > last =>
         /\ f[<<i, TRUE, d>>] = [quote |-> TRUE, depth |-> d]
         /\ f[<<i, FALSE, d>>] = [quote |-> FALSE, depth |-> d]
    /\ \A i, d \in Nat : i <= last =>
         f[<<i, TRUE, d>>] = IF t[i] = Escape /\ i < last THEN f[<<i + 2, TRUE, d>>]
                             ELSE IF t[i] = Quote THEN f[<<i + 1, FALSE, d>>]
                             ELSE f[<<i + 1, TRUE, d>>]
    /\ \A i \in Nat, d \in Nat \ {0} : i <= last =>
         f[<<i, FALSE, d>>] = f[<<i + 1, FALSE, CASE t[i] = Open  -> d + 1
                                                  [] t[i] = Close -> d - 1
                                                  [] OTHER        -> d>>]
    /\ \A i \in Nat : i <= last =>
         f[<<i, FALSE, 0>>] = IF t[i] = Quote THEN f[<<i + 1, TRUE, 0>>]
                              ELSE IF t[i] = Open THEN f[<<i + 1, FALSE, 1>>]
                              ELSE f[<<i + 1, FALSE, 0>>]

LEMMA ScanWalks ==
    ASSUME NEW t, NEW last \in Int
    PROVE  \E f : LineScan(f, t, last)
<1>1. PICK f : f = CHOOSE h : IsScans(h, t, last)
  OBVIOUS
<1>2. IsScans(f, t, last)
  BY <1>1, ScansExist
<1>3. \A first, state : ScanLine(t, first, last, state) = f[<<first, state.quote, state.depth>>]
  BY <1>1 DEF ScanLine, IsScans
<1> DEFINE Body(i, q, d) ==
        IF i > last THEN [quote |-> q, depth |-> d]
        ELSE IF q
             THEN IF t[i] = Escape /\ i < last THEN f[<<i + 2, TRUE, d>>]
                  ELSE f[<<i + 1, t[i] # Quote, d>>]
        ELSE IF d > 0
             THEN f[<<i + 1, FALSE, CASE t[i] = Open  -> d + 1
                                      [] t[i] = Close -> d - 1
                                      [] OTHER        -> d>>]
        ELSE f[<<i + 1, t[i] = Quote, IF t[i] = Open THEN 1 ELSE 0>>]
<1>4. \A i, d \in Nat, q \in BOOLEAN : f[<<i, q, d>>] = Body(i, q, d)
  <2> SUFFICES ASSUME NEW i \in Nat, NEW d \in Nat, NEW q \in BOOLEAN
               PROVE  f[<<i, q, d>>] = Body(i, q, d)
    <3> HIDE DEF Body
    <3> QED OBVIOUS
  <2>1. PICK x : x = <<i, q, d>>
    OBVIOUS
  <2>2. x \in Nat \X BOOLEAN \X Nat /\ x[1] = i /\ x[2] = q /\ x[3] = d
    BY <2>1
  <2>3. f[x] = Body(x[1], x[2], x[3])
    BY <1>2, <2>2, Zenon DEF IsScans
  <2> HIDE DEF Body
  <2> QED
    BY <2>1, <2>2, <2>3
<1>5. ASSUME NEW i \in Nat, NEW d \in Nat, i > last
      PROVE  /\ f[<<i, TRUE, d>>] = [quote |-> TRUE, depth |-> d]
             /\ f[<<i, FALSE, d>>] = [quote |-> FALSE, depth |-> d]
  BY <1>4, <1>5
<1>6. ASSUME NEW i \in Nat, NEW d \in Nat, i <= last
      PROVE  f[<<i, TRUE, d>>] = IF t[i] = Escape /\ i < last THEN f[<<i + 2, TRUE, d>>]
                                 ELSE IF t[i] = Quote THEN f[<<i + 1, FALSE, d>>]
                                 ELSE f[<<i + 1, TRUE, d>>]
  <2>1. ~(i > last)
    BY <1>6
  <2>2. f[<<i, TRUE, d>>] = IF t[i] = Escape /\ i < last THEN f[<<i + 2, TRUE, d>>]
                            ELSE f[<<i + 1, t[i] # Quote, d>>]
    BY <1>4, <2>1
  <2>3. IF t[i] = Quote THEN (t[i] # Quote) = FALSE ELSE (t[i] # Quote) = TRUE
    OBVIOUS
  <2> QED
    BY <2>2, <2>3, Zenon
<1>7. ASSUME NEW i \in Nat, NEW d \in Nat \ {0}, i <= last
      PROVE  f[<<i, FALSE, d>>] = f[<<i + 1, FALSE, CASE t[i] = Open  -> d + 1
                                                      [] t[i] = Close -> d - 1
                                                      [] OTHER        -> d>>]
  <2>1. ~(i > last) /\ d > 0 /\ d \in Nat
    BY <1>7
  <2> QED
    BY <1>4, <2>1, Zenon
<1>8. ASSUME NEW i \in Nat, i <= last
      PROVE  f[<<i, FALSE, 0>>] = IF t[i] = Quote THEN f[<<i + 1, TRUE, 0>>]
                                  ELSE IF t[i] = Open THEN f[<<i + 1, FALSE, 1>>]
                                  ELSE f[<<i + 1, FALSE, 0>>]
  <2>1. ~(i > last) /\ ~(0 > 0) /\ 0 \in Nat
    BY <1>8
  <2>2. f[<<i, FALSE, 0>>] = f[<<i + 1, t[i] = Quote, IF t[i] = Open THEN 1 ELSE 0>>]
    BY <1>4, <2>1, Zenon
  <2>3. CASE t[i] = Quote
    <3>1. (t[i] = Quote) = TRUE /\ t[i] # Open
      BY <2>3, TheyDiffer DEF SymbolsDiffer
    <3> QED
      BY <2>2, <2>3, <3>1, Zenon
  <2>4. CASE t[i] # Quote
    <3>1. (t[i] = Quote) = FALSE
      BY <2>4
    <3> QED
      BY <2>2, <2>4, <3>1, Zenon
  <2> QED
    BY <2>3, <2>4
<1>9. LineScan(f, t, last)
  BY <1>3, <1>5, <1>6, <1>7, <1>8, Zenon DEF LineScan
<1> QED
  BY <1>9
\* What the line scanner carries when the lexer is in state s.
ScanOf(s) == [quote |-> s.mode \in InLiteral,
              depth |-> IF s.mode = "verbatim" THEN s.depth ELSE 0]

Plain == {"code", "line", "block"}

LEMMA ScanOfIs ==
    /\ \A s : s.mode \in Plain => ScanOf(s) = NothingOpen
    /\ \A d : ScanOf(At("verbatim", d)) = [quote |-> FALSE, depth |-> d]
    /\ \A s \in {At("string", 0), At("escaped", 0)} : ScanOf(s) = [quote |-> TRUE, depth |-> 0]
<1>1. ASSUME NEW s, s.mode \in Plain PROVE ScanOf(s) = NothingOpen
  <2>1. (s.mode \in InLiteral) = FALSE /\ s.mode # "verbatim"
    BY <1>1 DEF Plain, InLiteral
  <2> QED
    BY <2>1, Zenon DEF ScanOf, NothingOpen
<1>2. ASSUME NEW d PROVE ScanOf(At("verbatim", d)) = [quote |-> FALSE, depth |-> d]
  <2>1. PICK s : s = At("verbatim", d)
    OBVIOUS
  <2>2. (s.mode \in InLiteral) = FALSE /\ s.mode = "verbatim" /\ s.depth = d
    BY <2>1 DEF At, InLiteral
  <2>3. ScanOf(s) = [quote |-> FALSE, depth |-> d]
    BY <2>2, Zenon DEF ScanOf
  <2> QED
    BY <2>1, <2>3
<1>3. ASSUME NEW s \in {At("string", 0), At("escaped", 0)}
      PROVE  ScanOf(s) = [quote |-> TRUE, depth |-> 0]
  <2>1. (s.mode \in InLiteral) = TRUE /\ s.mode # "verbatim"
    BY DEF At, InLiteral
  <2> QED
    BY <2>1, Zenon DEF ScanOf
<1> QED
  BY <1>1, <1>2, <1>3

\* The text with its Isabelle comments blanked.
BlankedText(t) == Blanked(t, StripComments(t, IsabelleComments))

LEMMA BlankedIs ==
    ASSUME NEW t \in Seq(Symbols)
    PROVE  /\ BlankedText(t) \in Seq(Symbols) /\ Len(BlankedText(t)) = Len(t)
           /\ \A L : L = LexStates(t, IsabelleComments) =>
                \A k \in 1..Len(t) :
                    BlankedText(t)[k] = IF t[k] # NewLine /\ InComment(L, k) THEN Blank ELSE t[k]
<1>1. PICK L : L = LexStates(t, IsabelleComments)
  OBVIOUS
<1>2. PICK P : P = StripComments(t, IsabelleComments)
  OBVIOUS
<1>3. P = {k \in 1..Len(t) : t[k] # NewLine /\ InComment(L, k)}
  BY <1>1, <1>2, StripsComments, CommentIs DEF InComment
<1>4. PICK b : b = [k \in 1..Len(t) |-> IF k \in P THEN Blank ELSE t[k]]
  OBVIOUS
<1>5. b = BlankedText(t)
  BY <1>2, <1>4 DEF BlankedText, Blanked
<1>6. Blank \in Symbols
  BY DEF Symbols
<1>7. b \in Seq(Symbols) /\ Len(b) = Len(t)
  BY <1>4, <1>6
<1>8. \A k \in 1..Len(t) : b[k] = IF t[k] # NewLine /\ InComment(L, k) THEN Blank ELSE t[k]
  BY <1>3, <1>4
<1> QED
  BY <1>1, <1>5, <1>7, <1>8

MarksDiffer ==
    /\ Quote \notin {Open, Close, Escape, Blank, NewLine, BlockOpen}
    /\ Open \notin {Close, Escape, Blank, NewLine, BlockOpen}
    /\ Close \notin {Escape, Blank, NewLine} /\ Escape \notin {Blank, NewLine}
    /\ Blank # NewLine

LEMMA MarksDo == MarksDiffer
BY DEF MarksDiffer, Quote, Open, Close, Escape, Blank, NewLine, BlockOpen

\* How the lexer goes on from what the blanked text shows.
LEMMA BlankedReads ==
    ASSUME NEW t \in Seq(Symbols), NEW L, L = LexStates(t, IsabelleComments),
           NEW b, b = BlankedText(t), NEW i \in 1..Len(t)
    PROVE  /\ L[i].mode \in Plain =>
                /\ b[i] = Quote => L[i + 1] = At("string", 0)
                /\ b[i] = Open => L[i + 1] = At("verbatim", 1)
                /\ b[i] \notin {Quote, Open} => L[i + 1].mode \in Plain
           /\ \A d \in Nat \ {0} : L[i] = At("verbatim", d) =>
                L[i + 1] = CASE b[i] = Open -> At("verbatim", d + 1)
                             [] b[i] = Close -> IF d = 1 THEN Code ELSE At("verbatim", d - 1)
                             [] OTHER -> At("verbatim", d)
           /\ L[i] = At("string", 0) =>
                /\ b[i] = Quote => L[i + 1] = Code
                /\ b[i] = Escape => L[i + 1] = At("escaped", 0)
                /\ b[i] \notin {Quote, Escape} => L[i + 1] = At("string", 0)
           /\ L[i] = At("escaped", 0) => L[i + 1] = At("string", 0)
           /\ L[i] \in LexStateSet
<1> DEFINE x == IsabelleComments
<1>0. IsRun(L, t, x) /\ x.line = FALSE /\ x.verbatim = TRUE
  BY LexStatesRun DEF IsabelleComments
<1>1. b[i] = IF t[i] # NewLine /\ InComment(L, i) THEN Blank ELSE t[i]
  BY BlankedIs
<1>2. L[i + 1] = Lex(L[i], t[i], x) /\ L[i] \in LexStateSet
  BY <1>0 DEF IsRun
<1> HIDE DEF x
<1>3. ASSUME L[i].mode \in Plain
      PROVE  /\ b[i] = Quote => L[i + 1] = At("string", 0)
             /\ b[i] = Open => L[i + 1] = At("verbatim", 1)
             /\ b[i] \notin {Quote, Open} => L[i + 1].mode \in Plain
  <2>1. CASE L[i] = Code
    <3>1. CASE t[i] = BlockOpen
      <4>1. L[i + 1] = At("block", 1)
        BY <1>2, <2>1, <3>1, InCode, TheyDiffer DEF SymbolsDiffer
      <4>2. L[i + 1].mode = "block"
        BY <4>1 DEF At
      <4>3. b[i] = Blank
        BY <1>1, <3>1, <4>2, TheyDiffer DEF SymbolsDiffer, InComment
      <4> QED
        BY <4>2, <4>3, MarksDo DEF MarksDiffer, Plain
    <3>2. CASE t[i] \in {Quote, Open}
      <4>1. L[i + 1] = IF t[i] = Quote THEN At("string", 0) ELSE At("verbatim", 1)
        BY <1>0, <1>2, <2>1, <3>2, InCode, TheyDiffer DEF SymbolsDiffer
      <4>2. ~InComment(L, i)
        BY <2>1, <4>1 DEF InComment, At, Code
      <4>3. b[i] = t[i]
        BY <1>1, <4>2
      <4> QED
        BY <3>2, <4>1, <4>3, MarksDo DEF MarksDiffer
    <3>3. CASE t[i] \notin {BlockOpen, Quote, Open}
      <4>1. L[i + 1] = Code
        BY <1>0, <1>2, <2>1, <3>3, InCode
      <4>2. b[i] = t[i]
        BY <1>1, <2>1, <4>1 DEF InComment, At, Code
      <4> QED
        BY <3>3, <4>1, <4>2 DEF Plain, Code, At
    <3> QED
      BY <3>1, <3>2, <3>3
  <2>2. CASE L[i] # Code
    <3>1. L[i] = At("line", 0) \/ \E d \in Nat \ {0} : L[i] = At("block", d)
      <4>1. L[i].mode \notin {"verbatim", "string", "escaped"}
        BY <1>3 DEF Plain
      <4>2. \A m, d : At(m, d).mode = m
        BY DEF At
      <4> QED
        BY <1>2, <2>2, <4>1, <4>2 DEF LexStateSet, Code, Modes
    <3>2. L[i].mode \in {"line", "block"}
      <4>1. \A m, d : At(m, d).mode = m
        BY DEF At
      <4> QED
        BY <3>1, <4>1
    <3>3. b[i] \in {Blank, NewLine}
      BY <1>1, <3>2 DEF InComment
    <3>4. L[i + 1].mode \in Plain
      <4>1. CASE L[i] = At("line", 0)
        BY <1>2, <4>1, InLine DEF At, Code, Plain
      <4>2. CASE \E d \in Nat \ {0} : L[i] = At("block", d)
        <5>1. PICK d \in Nat \ {0} : L[i] = At("block", d)
          BY <4>2
        <5>2. L[i + 1] \in {At("block", d + 1), At("block", d - 1), At("block", d), Code}
          BY <1>2, <5>1, InBlock
        <5> QED
          BY <5>2 DEF At, Code, Plain
      <4> QED
        BY <3>1, <4>1, <4>2
    <3> QED
      BY <3>3, <3>4, MarksDo DEF MarksDiffer
  <2> QED
    BY <2>1, <2>2
<1>4. L[i].mode \in {"verbatim", "string", "escaped"} => b[i] = t[i]
  BY <1>0, <1>1, NoCommentFollows
<1>5. ASSUME NEW d \in Nat \ {0}, L[i] = At("verbatim", d)
      PROVE  L[i + 1] = CASE b[i] = Open -> At("verbatim", d + 1)
                          [] b[i] = Close -> IF d = 1 THEN Code ELSE At("verbatim", d - 1)
                          [] OTHER -> At("verbatim", d)
  <2>1. b[i] = t[i]
    BY <1>4, <1>5 DEF At
  <2> QED
    BY <1>2, <1>5, <2>1, InVerbatim
<1>6. ASSUME L[i] = At("string", 0)
      PROVE  /\ b[i] = Quote => L[i + 1] = Code
             /\ b[i] = Escape => L[i + 1] = At("escaped", 0)
             /\ b[i] \notin {Quote, Escape} => L[i + 1] = At("string", 0)
  <2>1. b[i] = t[i]
    BY <1>4, <1>6 DEF At
  <2> QED
    BY <1>0, <1>6, <2>1, StringSteps
<1>7. L[i] = At("escaped", 0) => L[i + 1] = At("string", 0)
  BY <1>0, StringSteps
<1> QED
  BY <1>2, <1>3, <1>5, <1>6, <1>7

\* The scan of a line goes from what the lexer has open at its first symbol to
\* what it has open past its last.
LEMMA ScanReads ==
    ASSUME NEW t \in Seq(Symbols), NEW L, L = LexStates(t, IsabelleComments),
           NEW b, b = BlankedText(t), NEW last \in Nat, last <= Len(t),
           NEW first \in 1..(last + 1), L[first].mode # "escaped"
    PROVE  ScanLine(b, first, last, ScanOf(L[first])) = ScanOf(L[last + 1])
<1> DEFINE n == Len(t)
           end == ScanOf(L[last + 1])
<1>0. n \in Nat /\ last \in Int
  OBVIOUS
<1>1. PICK f : LineScan(f, b, last)
  BY <1>0, ScanWalks
<1>a. \A i, state : ScanLine(b, i, last, state) = f[<<i, state.quote, state.depth>>]
  BY <1>1 DEF LineScan
<1>b. ASSUME NEW i \in Nat, NEW d \in Nat, i > last
      PROVE  /\ f[<<i, TRUE, d>>] = [quote |-> TRUE, depth |-> d]
             /\ f[<<i, FALSE, d>>] = [quote |-> FALSE, depth |-> d]
  BY <1>1, <1>b DEF LineScan
<1>c. ASSUME NEW i \in Nat, i <= last
      PROVE  f[<<i, TRUE, 0>>] = IF b[i] = Escape /\ i < last THEN f[<<i + 2, TRUE, 0>>]
                                 ELSE IF b[i] = Quote THEN f[<<i + 1, FALSE, 0>>]
                                 ELSE f[<<i + 1, TRUE, 0>>]
  <2>1. \A j, d \in Nat : j <= last =>
          f[<<j, TRUE, d>>] = IF b[j] = Escape /\ j < last THEN f[<<j + 2, TRUE, d>>]
                              ELSE IF b[j] = Quote THEN f[<<j + 1, FALSE, d>>]
                              ELSE f[<<j + 1, TRUE, d>>]
    BY <1>1, Zenon DEF LineScan
  <2>2. 0 \in Nat
    OBVIOUS
  <2> QED
    BY <1>c, <2>1, <2>2, Zenon
<1>d. ASSUME NEW i \in Nat, NEW d \in Nat \ {0}, i <= last
      PROVE  f[<<i, FALSE, d>>] = f[<<i + 1, FALSE, CASE b[i] = Open  -> d + 1
                                                      [] b[i] = Close -> d - 1
                                                      [] OTHER        -> d>>]
  BY <1>1, <1>d DEF LineScan
<1>e. ASSUME NEW i \in Nat, i <= last
      PROVE  f[<<i, FALSE, 0>>] = IF b[i] = Quote THEN f[<<i + 1, TRUE, 0>>]
                                  ELSE IF b[i] = Open THEN f[<<i + 1, FALSE, 1>>]
                                  ELSE f[<<i + 1, FALSE, 0>>]
  BY <1>1, <1>e DEF LineScan
<1> DEFINE InPlain(i) == L[i].mode \in Plain => f[<<i, FALSE, 0>>] = end
           InSpan(i) == \A d \in Nat \ {0} : L[i] = At("verbatim", d) => f[<<i, FALSE, d>>] = end
           InText(i) == (L[i] = At("string", 0) \/ (i = last + 1 /\ L[i] = At("escaped", 0)))
                           => f[<<i, TRUE, 0>>] = end
           S == {i \in Nat : i \in 1..(last + 1) => InPlain(i) /\ InSpan(i) /\ InText(i)}
<1> HIDE DEF n, end
<1>2. ASSUME NEW i \in Nat, i > last PROVE i \in S
  <2> SUFFICES ASSUME i = last + 1 PROVE InPlain(i) /\ InSpan(i) /\ InText(i)
    <3> HIDE DEF InPlain, InSpan, InText
    <3> QED BY <1>2
  <2>0. end = ScanOf(L[i])
    BY DEF end
  <2>1. InPlain(i)
    <3> SUFFICES ASSUME L[i].mode \in Plain PROVE f[<<i, FALSE, 0>>] = end
      OBVIOUS
    <3>1. ScanOf(L[i]) = NothingOpen
      BY ScanOfIs
    <3>2. f[<<i, FALSE, 0>>] = NothingOpen
      BY <1>b, <1>2 DEF NothingOpen
    <3> QED
      BY <2>0, <3>1, <3>2
  <2>2. InSpan(i)
    <3> SUFFICES ASSUME NEW d \in Nat \ {0}, L[i] = At("verbatim", d)
                 PROVE  f[<<i, FALSE, d>>] = end
      OBVIOUS
    <3>1. ScanOf(L[i]) = [quote |-> FALSE, depth |-> d]
      BY ScanOfIs
    <3>2. f[<<i, FALSE, d>>] = [quote |-> FALSE, depth |-> d]
      BY <1>b, <1>2
    <3> QED
      BY <2>0, <3>1, <3>2
  <2>3. InText(i)
    <3> SUFFICES ASSUME L[i] \in {At("string", 0), At("escaped", 0)}
                 PROVE  f[<<i, TRUE, 0>>] = end
      OBVIOUS
    <3>1. ScanOf(L[i]) = [quote |-> TRUE, depth |-> 0]
      BY ScanOfIs
    <3>2. f[<<i, TRUE, 0>>] = [quote |-> TRUE, depth |-> 0]
      BY <1>b, <1>2
    <3> QED
      BY <2>0, <3>1, <3>2
  <2> QED
    BY <2>1, <2>2, <2>3
<1>3. ASSUME NEW i \in Nat, i <= last, \A j \in Nat : i < j => j \in S
      PROVE  i \in S
  <2> SUFFICES ASSUME i # 0 PROVE InPlain(i) /\ InSpan(i) /\ InText(i)
    <3> HIDE DEF InPlain, InSpan, InText
    <3> QED OBVIOUS
  <2>0. i \in 1..Len(t) /\ i + 1 \in 1..(last + 1)
    BY <1>3
  <2>1. /\ L[i].mode \in Plain =>
                /\ b[i] = Quote => L[i + 1] = At("string", 0)
                /\ b[i] = Open => L[i + 1] = At("verbatim", 1)
                /\ b[i] \notin {Quote, Open} => L[i + 1].mode \in Plain
        /\ \A d \in Nat \ {0} : L[i] = At("verbatim", d) =>
                L[i + 1] = CASE b[i] = Open -> At("verbatim", d + 1)
                             [] b[i] = Close -> IF d = 1 THEN Code ELSE At("verbatim", d - 1)
                             [] OTHER -> At("verbatim", d)
        /\ L[i] = At("string", 0) =>
                /\ b[i] = Quote => L[i + 1] = Code
                /\ b[i] = Escape => L[i + 1] = At("escaped", 0)
                /\ b[i] \notin {Quote, Escape} => L[i + 1] = At("string", 0)
    BY <2>0, BlankedReads
  <2>2. InPlain(i + 1) /\ InSpan(i + 1) /\ InText(i + 1)
    <3>1. i + 1 \in S
      <4> HIDE DEF S
      <4> QED BY <1>3
    <3> HIDE DEF InPlain, InSpan, InText
    <3> QED BY <2>0, <3>1
  <2>3. Code.mode \in Plain
    BY DEF Code, At, Plain
  <2>4. InPlain(i)
    <3> SUFFICES ASSUME L[i].mode \in Plain PROVE f[<<i, FALSE, 0>>] = end
      OBVIOUS
    <3>1. f[<<i, FALSE, 0>>] = IF b[i] = Quote THEN f[<<i + 1, TRUE, 0>>]
                               ELSE IF b[i] = Open THEN f[<<i + 1, FALSE, 1>>]
                               ELSE f[<<i + 1, FALSE, 0>>]
      BY <1>e, <1>3
    <3>2. CASE b[i] = Quote
      BY <2>1, <2>2, <3>1, <3>2
    <3>3. CASE b[i] # Quote /\ b[i] = Open
      <4>1. L[i + 1] = At("verbatim", 1) /\ f[<<i, FALSE, 0>>] = f[<<i + 1, FALSE, 1>>]
        BY <2>1, <3>1, <3>3
      <4>2. 1 \in Nat \ {0}
        OBVIOUS
      <4> QED
        BY <2>2, <4>1, <4>2, Zenon
    <3>4. CASE b[i] \notin {Quote, Open}
      BY <2>1, <2>2, <3>1, <3>4
    <3> QED
      BY <3>2, <3>3, <3>4
  <2>5. InSpan(i)
    <3> SUFFICES ASSUME NEW d \in Nat \ {0}, L[i] = At("verbatim", d)
                 PROVE  f[<<i, FALSE, d>>] = end
      OBVIOUS
    <3>1. f[<<i, FALSE, d>>] = f[<<i + 1, FALSE, CASE b[i] = Open  -> d + 1
                                                   [] b[i] = Close -> d - 1
                                                   [] OTHER        -> d>>]
      BY <1>d, <1>3
    <3>2. L[i + 1] = CASE b[i] = Open -> At("verbatim", d + 1)
                       [] b[i] = Close -> IF d = 1 THEN Code ELSE At("verbatim", d - 1)
                       [] OTHER -> At("verbatim", d)
      BY <2>1
    <3>3. CASE b[i] = Close /\ d = 1
      <4>1. f[<<i, FALSE, d>>] = f[<<i + 1, FALSE, 0>>] /\ L[i + 1] = Code
        BY <3>1, <3>2, <3>3, MarksDo DEF MarksDiffer
      <4> QED
        BY <2>2, <2>3, <4>1
    <3>4. CASE ~(b[i] = Close /\ d = 1)
      <4>1. PICK c \in Nat \ {0} : c = CASE b[i] = Open  -> d + 1
                                         [] b[i] = Close -> d - 1
                                         [] OTHER        -> d
        BY <3>4
      <4>2. f[<<i, FALSE, d>>] = f[<<i + 1, FALSE, c>>]
        BY <3>1, <4>1
      <4>3. L[i + 1] = At("verbatim", c)
        BY <3>2, <3>4, <4>1, MarksDo DEF MarksDiffer
      <4> QED
        BY <2>2, <4>2, <4>3
    <3> QED
      BY <3>3, <3>4
  <2>6. InText(i)
    <3> SUFFICES ASSUME L[i] = At("string", 0) PROVE f[<<i, TRUE, 0>>] = end
      BY <1>3
    <3>1. f[<<i, TRUE, 0>>] = IF b[i] = Escape /\ i < last THEN f[<<i + 2, TRUE, 0>>]
                              ELSE IF b[i] = Quote THEN f[<<i + 1, FALSE, 0>>]
                              ELSE f[<<i + 1, TRUE, 0>>]
      BY <1>c, <1>3
    <3>2. CASE b[i] = Escape /\ i < last
      <4>1. L[i + 1] = At("escaped", 0) /\ i + 1 \in 1..Len(t) /\ (i + 1) + 1 = i + 2
        BY <2>1, <3>2
      <4>2. L[i + 2] = At("string", 0)
        BY <4>1, BlankedReads
      <4>3. InText(i + 2)
        <5>1. i + 2 \in S /\ i + 2 \in 1..(last + 1)
          <6> HIDE DEF S
          <6> QED BY <1>3, <3>2
        <5> HIDE DEF InPlain, InSpan, InText
        <5> QED BY <5>1
      <4> QED
        BY <3>1, <3>2, <4>2, <4>3
    <3>3. CASE b[i] = Escape /\ ~(i < last)
      <4>1. L[i + 1] = At("escaped", 0) /\ i + 1 = last + 1
        BY <1>3, <2>1, <3>3
      <4>2. f[<<i, TRUE, 0>>] = f[<<i + 1, TRUE, 0>>]
        BY <3>1, <3>3, MarksDo DEF MarksDiffer
      <4> QED
        BY <2>2, <4>1, <4>2
    <3>4. CASE b[i] = Quote
      BY <2>1, <2>2, <2>3, <3>1, <3>4, MarksDo DEF MarksDiffer
    <3>5. CASE b[i] \notin {Quote, Escape}
      BY <2>1, <2>2, <3>1, <3>5
    <3> QED
      BY <3>2, <3>3, <3>4, <3>5
  <2> QED
    BY <2>4, <2>5, <2>6
<1>4. Nat \subseteq S
  <2> HIDE DEF S
  <2> QED BY <1>0, <1>2, <1>3, Backwards
<1>5. InPlain(first) /\ InSpan(first) /\ InText(first)
  <2>1. first \in S /\ first \in 1..(last + 1)
    <3> HIDE DEF S
    <3> QED BY <1>4
  <2> HIDE DEF InPlain, InSpan, InText
  <2> QED BY <2>1
<1>6. L[first] \in LexStateSet
  <2>1. IsRun(L, t, IsabelleComments)
    BY LexStatesRun
  <2>2. first \in 1..Len(L)
    BY <2>1 DEF IsRun
  <2> QED
    BY <2>1, <2>2 DEF IsRun
<1>7. \/ L[first].mode \in Plain
      \/ \E d \in Nat \ {0} : L[first] = At("verbatim", d)
      \/ L[first] = At("string", 0)
  BY <1>6 DEF LexStateSet, Plain, At, Modes
<1>8. ScanLine(b, first, last, ScanOf(L[first]))
        = f[<<first, ScanOf(L[first]).quote, ScanOf(L[first]).depth>>]
  BY <1>a
<1>9. f[<<first, ScanOf(L[first]).quote, ScanOf(L[first]).depth>>] = end
  <2>1. CASE L[first].mode \in Plain
    <3>1. ScanOf(L[first]).quote = FALSE /\ ScanOf(L[first]).depth = 0
      BY <2>1, ScanOfIs DEF NothingOpen
    <3> QED
      BY <1>5, <2>1, <3>1, Zenon
  <2>2. CASE \E d \in Nat \ {0} : L[first] = At("verbatim", d)
    <3>1. PICK d \in Nat \ {0} : L[first] = At("verbatim", d)
      BY <2>2
    <3>2. ScanOf(L[first]).quote = FALSE /\ ScanOf(L[first]).depth = d
      BY <3>1, ScanOfIs
    <3> QED
      BY <1>5, <3>1, <3>2, Zenon
  <2>3. CASE L[first] = At("string", 0)
    <3>1. ScanOf(L[first]).quote = TRUE /\ ScanOf(L[first]).depth = 0
      BY <2>3, ScanOfIs
    <3> QED
      BY <1>5, <2>3, <3>1, Zenon
  <2> QED
    BY <1>7, <2>1, <2>2, <2>3
<1> QED
  BY <1>8, <1>9 DEF end
LEMMA ScanTyped ==
    ASSUME NEW t, NEW last \in Int, NEW first \in Nat, NEW state \in ScanStates
    PROVE  ScanLine(t, first, last, state) \in ScanStates
<1>1. PICK f : LineScan(f, t, last)
  BY ScanWalks
<1>2. PICK m \in Nat : last <= m
  <2>1. CASE last >= 0
    BY <2>1
  <2>2. CASE last < 0
    BY <2>2
  <2> QED
    BY <2>1, <2>2
<1> DEFINE Typed(i) == \A d \in Nat : f[<<i, TRUE, d>>] \in ScanStates
                                      /\ f[<<i, FALSE, d>>] \in ScanStates
           S == {i \in Nat : Typed(i)}
<1>3. ASSUME NEW i \in Nat, i > last PROVE Typed(i)
  <2> SUFFICES ASSUME NEW d \in Nat
               PROVE  f[<<i, TRUE, d>>] \in ScanStates /\ f[<<i, FALSE, d>>] \in ScanStates
    OBVIOUS
  <2>1. f[<<i, TRUE, d>>] = [quote |-> TRUE, depth |-> d]
        /\ f[<<i, FALSE, d>>] = [quote |-> FALSE, depth |-> d]
    BY <1>1, <1>3 DEF LineScan
  <2> QED
    BY <2>1 DEF ScanStates
<1>4. ASSUME NEW i \in Nat, i <= last, Typed(i + 1), Typed(i + 2) PROVE Typed(i)
  <2> SUFFICES ASSUME NEW d \in Nat
               PROVE  f[<<i, TRUE, d>>] \in ScanStates /\ f[<<i, FALSE, d>>] \in ScanStates
    OBVIOUS
  <2>1. f[<<i, TRUE, d>>] \in {f[<<i + 2, TRUE, d>>], f[<<i + 1, FALSE, d>>], f[<<i + 1, TRUE, d>>]}
    <3>1. \A j, c \in Nat : j <= last =>
            f[<<j, TRUE, c>>] = IF t[j] = Escape /\ j < last THEN f[<<j + 2, TRUE, c>>]
                                ELSE IF t[j] = Quote THEN f[<<j + 1, FALSE, c>>]
                                ELSE f[<<j + 1, TRUE, c>>]
      BY <1>1, Zenon DEF LineScan
    <3>2. f[<<i, TRUE, d>>] = IF t[i] = Escape /\ i < last THEN f[<<i + 2, TRUE, d>>]
                              ELSE IF t[i] = Quote THEN f[<<i + 1, FALSE, d>>]
                              ELSE f[<<i + 1, TRUE, d>>]
      BY <1>4, <3>1, Zenon
    <3> QED
      BY <3>2, Zenon
  <2>2. CASE d = 0
    <3>1. f[<<i, FALSE, 0>>] \in {f[<<i + 1, TRUE, 0>>], f[<<i + 1, FALSE, 1>>], f[<<i + 1, FALSE, 0>>]}
      BY <1>1, <1>4 DEF LineScan
    <3>2. 1 \in Nat /\ 0 \in Nat
      OBVIOUS
    <3> QED
      BY <1>4, <2>1, <2>2, <3>1, <3>2
  <2>3. CASE d # 0
    <3>1. f[<<i, FALSE, d>>] = f[<<i + 1, FALSE, CASE t[i] = Open  -> d + 1
                                                   [] t[i] = Close -> d - 1
                                                   [] OTHER        -> d>>]
      BY <1>1, <1>4, <2>3, ZenonT(60) DEF LineScan
    <3>2. PICK c \in Nat : c = CASE t[i] = Open  -> d + 1
                                 [] t[i] = Close -> d - 1
                                 [] OTHER        -> d
      BY <2>3
    <3> QED
      BY <1>4, <2>1, <3>1, <3>2
  <2> QED
    BY <2>2, <2>3
<1>5. \A i \in Nat : i > m => i \in S
  <2> HIDE DEF Typed
  <2> QED BY <1>2, <1>3
<1>6. \A i \in Nat : i <= m /\ (\A j \in Nat : i < j => j \in S) => i \in S
  <2> HIDE DEF Typed
  <2> QED BY <1>2, <1>3, <1>4
<1>7. Nat \subseteq S
  <2> HIDE DEF S
  <2> QED BY <1>5, <1>6, Backwards
<1>8. Typed(first)
  <2> HIDE DEF Typed
  <2> QED BY <1>7
<1>9. ScanLine(t, first, last, state) = f[<<first, state.quote, state.depth>>]
  BY <1>1 DEF LineScan
<1>10. state.depth \in Nat /\ (state.quote = TRUE \/ state.quote = FALSE)
  BY DEF ScanStates
<1> QED
  BY <1>8, <1>9, <1>10, Zenon

\* A blank line carries the state.
LEMMA ScanBlank ==
    ASSUME NEW t, NEW last \in Int, NEW first \in Nat, NEW state \in ScanStates,
           IsBlankLine(t, first, last)
    PROVE  ScanLine(t, first, last, state) = state
<1>1. PICK f : LineScan(f, t, last)
  BY ScanWalks
<1>2. PICK m \in Nat : last <= m
  <2>1. CASE last >= 0
    BY <2>1
  <2>2. CASE last < 0
    BY <2>2
  <2> QED
    BY <2>1, <2>2
<1> DEFINE Kept(i) == \A d \in Nat :
                         /\ f[<<i, TRUE, d>>] = [quote |-> TRUE, depth |-> d]
                         /\ f[<<i, FALSE, d>>] = [quote |-> FALSE, depth |-> d]
           S == {i \in Nat : first <= i => Kept(i)}
<1>3. ASSUME NEW i \in Nat, i > last PROVE Kept(i)
  BY <1>1, <1>3 DEF LineScan
<1>4. ASSUME NEW i \in Nat, first <= i, i <= last, Kept(i + 1) PROVE Kept(i)
  <2> SUFFICES ASSUME NEW d \in Nat
               PROVE  /\ f[<<i, TRUE, d>>] = [quote |-> TRUE, depth |-> d]
                      /\ f[<<i, FALSE, d>>] = [quote |-> FALSE, depth |-> d]
    OBVIOUS
  <2>0. t[i] \notin {Quote, Escape, Open, Close}
    BY <1>4, MarksDo DEF MarksDiffer, IsBlankLine, Whitespace
  <2>1. f[<<i, TRUE, d>>] = f[<<i + 1, TRUE, d>>]
    <3>1. \A j, c \in Nat : j <= last =>
            f[<<j, TRUE, c>>] = IF t[j] = Escape /\ j < last THEN f[<<j + 2, TRUE, c>>]
                                ELSE IF t[j] = Quote THEN f[<<j + 1, FALSE, c>>]
                                ELSE f[<<j + 1, TRUE, c>>]
      BY <1>1, Zenon DEF LineScan
    <3>2. f[<<i, TRUE, d>>] = IF t[i] = Escape /\ i < last THEN f[<<i + 2, TRUE, d>>]
                              ELSE IF t[i] = Quote THEN f[<<i + 1, FALSE, d>>]
                              ELSE f[<<i + 1, TRUE, d>>]
      BY <1>4, <3>1, Zenon
    <3>3. t[i] # Escape /\ t[i] # Quote
      BY <2>0
    <3> QED
      BY <3>2, <3>3, Zenon
  <2>2. f[<<i, FALSE, d>>] = f[<<i + 1, FALSE, d>>]
    <3>1. CASE d = 0
      <4>1. f[<<i, FALSE, 0>>] = IF t[i] = Quote THEN f[<<i + 1, TRUE, 0>>]
                                 ELSE IF t[i] = Open THEN f[<<i + 1, FALSE, 1>>]
                                 ELSE f[<<i + 1, FALSE, 0>>]
        BY <1>1, <1>4 DEF LineScan
      <4> QED
        BY <2>0, <3>1, <4>1
    <3>2. CASE d # 0
      <4>1. f[<<i, FALSE, d>>] = f[<<i + 1, FALSE, CASE t[i] = Open  -> d + 1
                                                     [] t[i] = Close -> d - 1
                                                     [] OTHER        -> d>>]
        BY <1>1, <1>4, <3>2, ZenonT(60) DEF LineScan
      <4> QED
        BY <2>0, <4>1
    <3> QED
      BY <3>1, <3>2
  <2> QED
    BY <1>4, <2>1, <2>2
<1>5. \A i \in Nat : i > m => i \in S
  <2> HIDE DEF Kept
  <2> QED BY <1>2, <1>3
<1>6. \A i \in Nat : i <= m /\ (\A j \in Nat : i < j => j \in S) => i \in S
  <2> SUFFICES ASSUME NEW i \in Nat, \A j \in Nat : i < j => j \in S, first <= i PROVE Kept(i)
    <3> HIDE DEF Kept
    <3> QED OBVIOUS
  <2>1. Kept(i + 1)
    <3> HIDE DEF Kept
    <3> QED OBVIOUS
  <2> HIDE DEF Kept
  <2> QED BY <1>3, <1>4, <2>1
<1>7. Nat \subseteq S
  <2> HIDE DEF S
  <2> QED BY <1>5, <1>6, Backwards
<1>8. Kept(first)
  <2> HIDE DEF Kept
  <2> QED BY <1>7
<1>9. ScanLine(t, first, last, state) = f[<<first, state.quote, state.depth>>]
  BY <1>1 DEF LineScan
<1>10. PICK d \in Nat : state.depth = d
  BY DEF ScanStates
<1>11. CASE state.quote = TRUE
  <2>1. state = [quote |-> TRUE, depth |-> d]
    BY <1>10, <1>11 DEF ScanStates
  <2> QED
    BY <1>8, <1>9, <1>10, <1>11, <2>1, Zenon
<1>12. CASE state.quote = FALSE
  <2>1. state = [quote |-> FALSE, depth |-> d]
    BY <1>10, <1>12 DEF ScanStates
  <2> QED
    BY <1>8, <1>9, <1>10, <1>12, <2>1, Zenon
<1>13. state.quote = TRUE \/ state.quote = FALSE
  BY DEF ScanStates
<1> QED
  BY <1>11, <1>12, <1>13

IsConts(f, t) ==
    f = [at \in Nat \X ScanStates |->
            LET first == at[1]  state == at[2]
                last == LineEnd(t, first) - 1
            IN  IF first > Len(t) THEN {}
                ELSE IF IsBlankLine(t, first, last) THEN f[<<last + 2, state>>]
                ELSE (IF state.quote \/ state.depth > 0 THEN {first} ELSE {})
                         \cup f[<<last + 2, ScanLine(t, first, last, state)>>]]

\* The line that begins at `first` is not blank, and begins in an open state.
ContHere(t, first, state) ==
    IF ~IsBlankLine(t, first, LineEnd(t, first) - 1) /\ (state.quote \/ state.depth > 0)
    THEN {first} ELSE {}

\* isabelle_continuation_lines goes from a line and a state to the next.
ContWalk(f, t) ==
    \A first \in Nat, state \in ScanStates :
       f[<<first, state>>] =
         IF first > Len(t) THEN {}
         ELSE ContHere(t, first, state)
                \cup f[<<LineEnd(t, first) + 1,
                         ScanLine(t, first, LineEnd(t, first) - 1, state)>>]

LEMMA ContsWalk ==
    ASSUME NEW t, Len(t) \in Nat
    PROVE  \E f : IsabelleContinuationLines(t) = f[<<1, NothingOpen>>] /\ ContWalk(f, t)
<1> DEFINE D == Nat \X ScanStates
           V == SUBSET Nat
           Stop == {x \in D : x[1] > Len(t)}
           base == [x \in D |-> {}]
           next == [x \in D |-> <<LineEnd(t, x[1]) + 1,
                                  ScanLine(t, x[1], LineEnd(t, x[1]) - 1, x[2])>>]
           g == [x \in D |-> [v \in V |-> ContHere(t, x[1], x[2]) \cup v]]
           rank == [x \in D |-> IF x[1] > Len(t) THEN 0 ELSE Len(t) + 1 - x[1]]
<1>0. \A x \in D : /\ x[1] \in Nat /\ x[2] \in ScanStates /\ x = <<x[1], x[2]>>
                   /\ LineEnd(t, x[1]) \in Nat /\ x[1] <= LineEnd(t, x[1])
                   /\ LineEnd(t, x[1]) - 1 \in Int
  <2> SUFFICES ASSUME NEW x \in D
               PROVE  /\ x[1] \in Nat /\ x[2] \in ScanStates /\ x = <<x[1], x[2]>>
                      /\ LineEnd(t, x[1]) \in Nat /\ x[1] <= LineEnd(t, x[1])
                      /\ LineEnd(t, x[1]) - 1 \in Int
    OBVIOUS
  <2>1. x[1] \in Nat /\ x[2] \in ScanStates /\ x = <<x[1], x[2]>>
    OBVIOUS
  <2>2. LineEnd(t, x[1]) \in Nat /\ x[1] <= LineEnd(t, x[1])
    BY <2>1, LineEndIs DEF EndsLine
  <2> HIDE DEF D
  <2> QED
    BY <2>1, <2>2
<1>1. base \in [D -> V] /\ rank \in [D -> Nat]
  OBVIOUS
<1>2. next \in [D -> D]
  <2> SUFFICES ASSUME NEW x \in D PROVE next[x] \in D
    <3> HIDE DEF D
    <3> QED OBVIOUS
  <2>1. ScanLine(t, x[1], LineEnd(t, x[1]) - 1, x[2]) \in ScanStates
    BY <1>0, ScanTyped
  <2>2. LineEnd(t, x[1]) + 1 \in Nat
    BY <1>0
  <2> QED
    BY <2>1, <2>2
<1>3. \A x \in D : x \notin Stop => rank[next[x]] < rank[x]
  <2> SUFFICES ASSUME NEW x \in D, x[1] <= Len(t) PROVE rank[next[x]] < rank[x]
    <3> HIDE DEF rank, next, D
    <3> QED BY <1>0
  <2>1. PICK y \in D : y = next[x]
    BY <1>2
  <2>2. y[1] = LineEnd(t, x[1]) + 1
    BY <2>1
  <2>3. x[1] < y[1] /\ y[1] \in Nat /\ x[1] \in Nat
    BY <1>0, <2>2
  <2>4. rank[y] < rank[x]
    BY <2>3
  <2> QED
    BY <2>1, <2>4
<1>4. g \in [D -> [V -> V]]
  <2>1. ASSUME NEW x \in D PROVE ContHere(t, x[1], x[2]) \in V
    BY <1>0 DEF ContHere
  <2>2. \A a, b \in V : a \cup b \in V
    OBVIOUS
  <2> HIDE DEF V, D
  <2> QED BY <2>1, <2>2
<1>5. PICK h : IsWalk(h, D, V, Stop, base, next, g)
  <2> HIDE DEF D, V, Stop, base, next, g, rank
  <2> QED BY <1>1, <1>2, <1>3, <1>4, WalkExists
<1> DEFINE Answer(f, first, state) ==
              IF first > Len(t) THEN {}
              ELSE ContHere(t, first, state)
                     \cup f[<<LineEnd(t, first) + 1,
                              ScanLine(t, first, LineEnd(t, first) - 1, state)>>]
           Body(f, first, state) ==
              IF first > Len(t) THEN {}
              ELSE IF IsBlankLine(t, first, LineEnd(t, first) - 1)
                   THEN f[<<(LineEnd(t, first) - 1) + 2, state>>]
              ELSE (IF state.quote \/ state.depth > 0 THEN {first} ELSE {})
                       \cup f[<<(LineEnd(t, first) - 1) + 2,
                                ScanLine(t, first, LineEnd(t, first) - 1, state)>>]
<1>6. \A x \in D : h[x] = Answer(h, x[1], x[2])
  <2> SUFFICES ASSUME NEW x \in D PROVE h[x] = Answer(h, x[1], x[2])
    <3> HIDE DEF Answer
    <3> QED OBVIOUS
  <2>1. h[x] = IF x \in Stop THEN base[x] ELSE g[x][h[next[x]]]
    <3> HIDE DEF Stop, base, next, g, V, D
    <3> QED BY <1>5 DEF IsWalk
  <2>2. h[next[x]] \in V
    <3> HIDE DEF Stop, base, next, g, V, D
    <3> QED BY <1>2, <1>5 DEF IsWalk
  <2>3. CASE x[1] > Len(t)
    BY <2>1, <2>3
  <2>4. CASE ~(x[1] > Len(t))
    <3>1. h[x] = g[x][h[next[x]]]
          /\ next[x] = <<LineEnd(t, x[1]) + 1, ScanLine(t, x[1], LineEnd(t, x[1]) - 1, x[2])>>
      <4> HIDE DEF g, V
      <4> QED BY <2>1, <2>4
    <3>2. \A v \in V : g[x][v] = ContHere(t, x[1], x[2]) \cup v
      <4> HIDE DEF V
      <4> QED OBVIOUS
    <3> HIDE DEF g, V, next
    <3> QED
      BY <2>2, <2>4, <3>1, <3>2
  <2> QED
    BY <2>3, <2>4
<1>7. ASSUME NEW f, NEW x \in D PROVE Body(f, x[1], x[2]) = Answer(f, x[1], x[2])
  <2>1. (LineEnd(t, x[1]) - 1) + 2 = LineEnd(t, x[1]) + 1
    BY <1>0
  <2>2. CASE x[1] > Len(t)
    BY <2>2
  <2>3. CASE ~(x[1] > Len(t)) /\ IsBlankLine(t, x[1], LineEnd(t, x[1]) - 1)
    <3>1. ScanLine(t, x[1], LineEnd(t, x[1]) - 1, x[2]) = x[2]
      BY <1>0, <2>3, ScanBlank
    <3> QED
      BY <2>1, <2>3, <3>1 DEF ContHere
  <2>4. CASE ~(x[1] > Len(t)) /\ ~IsBlankLine(t, x[1], LineEnd(t, x[1]) - 1)
    BY <2>1, <2>4 DEF ContHere
  <2> HIDE DEF Body, Answer
  <2> QED
    BY <2>2, <2>3, <2>4
<1>8. \A f : IsConts(f, t) <=> f = [x \in D |-> Body(f, x[1], x[2])]
  BY DEF IsConts
<1>9. IsConts(h, t)
  <2>1. h = [x \in D |-> h[x]]
    BY <1>5 DEF IsWalk
  <2>2. \A x \in D : h[x] = Body(h, x[1], x[2])
    <3> HIDE DEF Body, Answer, D
    <3> QED BY <1>6, <1>7
  <2> HIDE DEF Body
  <2> QED
    BY <1>8, <2>1, <2>2
<1>10. PICK f : f = CHOOSE k : IsConts(k, t)
  OBVIOUS
<1>11. IsConts(f, t)
  BY <1>9, <1>10
<1>12. IsabelleContinuationLines(t) = f[<<1, NothingOpen>>]
  BY <1>10 DEF IsabelleContinuationLines, IsConts
<1>13. \A first \in Nat, state \in ScanStates : f[<<first, state>>] = Answer(f, first, state)
  <2> SUFFICES ASSUME NEW first \in Nat, NEW state \in ScanStates
               PROVE  f[<<first, state>>] = Answer(f, first, state)
    <3> HIDE DEF Answer
    <3> QED OBVIOUS
  <2>1. PICK x \in D : x = <<first, state>>
    OBVIOUS
  <2>2. x[1] = first /\ x[2] = state
    BY <2>1
  <2>3. f[x] = Body(f, x[1], x[2])
    <3> HIDE DEF Body, D
    <3> QED BY <1>8, <1>11
  <2>4. f[x] = Answer(f, x[1], x[2])
    <3> HIDE DEF Body, Answer, D
    <3> QED BY <1>7, <2>3
  <2> HIDE DEF Answer
  <2> QED BY <2>1, <2>2, <2>4
<1> QED
  BY <1>12, <1>13 DEF ContWalk
\* The first positions, from `first` on, of the lines that begin in an open
\* string or cartouche and are not blank.
ContFrom(b, L, first) ==
    {k \in 1..Len(b) : /\ first <= k
                       /\ k = first \/ b[k - 1] = NewLine
                       /\ ~IsBlankLine(b, k, LineEnd(b, k) - 1)
                       /\ L[k].mode \in {"string", "escaped", "verbatim"}}

\* A newline keeps what is open, and ends no escape's reach.
LEMMA NewLineKeeps ==
    ASSUME NEW t \in Seq(Symbols), NEW L, L = LexStates(t, IsabelleComments),
           NEW b, b = BlankedText(t), NEW i \in 1..Len(t), b[i] = NewLine
    PROVE  ScanOf(L[i + 1]) = ScanOf(L[i]) /\ L[i + 1].mode # "escaped"
<1>0. b[i] \notin {Quote, Open, Close, Escape}
  BY MarksDo DEF MarksDiffer
<1>1. /\ L[i].mode \in Plain => L[i + 1].mode \in Plain
      /\ \A d \in Nat \ {0} : L[i] = At("verbatim", d) => L[i + 1] = At("verbatim", d)
      /\ L[i] \in {At("string", 0), At("escaped", 0)} => L[i + 1] = At("string", 0)
      /\ L[i] \in LexStateSet
  BY <1>0, BlankedReads
<1>2. \/ L[i].mode \in Plain
      \/ \E d \in Nat \ {0} : L[i] = At("verbatim", d)
      \/ L[i] \in {At("string", 0), At("escaped", 0)}
  BY <1>1 DEF LexStateSet, Plain, At, Modes
<1>3. CASE L[i].mode \in Plain
  BY <1>1, <1>3, ScanOfIs DEF Plain
<1>4. CASE \E d \in Nat \ {0} : L[i] = At("verbatim", d)
  <2>1. PICK d \in Nat \ {0} : L[i] = At("verbatim", d)
    BY <1>4
  <2> QED
    BY <1>1, <2>1 DEF At
<1>5. CASE L[i] \in {At("string", 0), At("escaped", 0)}
  <2>1. L[i + 1] = At("string", 0)
    BY <1>1, <1>5
  <2>2. ScanOf(L[i]) = [quote |-> TRUE, depth |-> 0] /\ ScanOf(L[i + 1]) = [quote |-> TRUE, depth |-> 0]
    BY <1>5, <2>1, ScanOfIs
  <2>3. L[i + 1].mode # "escaped"
    BY <2>1 DEF At
  <2> QED
    BY <2>2, <2>3
<1> QED
  BY <1>2, <1>3, <1>4, <1>5

\* One line of isabelle_continuation_lines.
LEMMA ContStep ==
    ASSUME NEW t \in Seq(Symbols), NEW L, L = LexStates(t, IsabelleComments),
           NEW b, b = BlankedText(t), NEW first \in 1..Len(t), L[first].mode # "escaped",
           NEW e, e = LineEnd(b, first)
    PROVE  /\ e \in Nat /\ first <= e
           /\ ScanLine(b, first, e - 1, ScanOf(L[first])) = ScanOf(L[e])
           /\ ContFrom(b, L, first) =
                ContHere(b, first, ScanOf(L[first])) \cup ContFrom(b, L, e + 1)
           /\ e + 1 <= Len(t) => ScanOf(L[e + 1]) = ScanOf(L[e]) /\ L[e + 1].mode # "escaped"
<1>0. Len(t) \in Nat /\ Len(b) = Len(t) /\ first \in Nat
  BY BlankedIs
<1>1. /\ e \in Nat /\ first <= e /\ e <= Len(t) + 1
      /\ \A k \in first..(e - 1) : b[k] # NewLine
      /\ e <= Len(t) => b[e] = NewLine
  <2>1. EndsLine(b, first, e)
    BY <1>0, LineEndIs
  <2> QED
    BY <1>0, <2>1 DEF EndsLine
<1>2. ScanLine(b, first, e - 1, ScanOf(L[first])) = ScanOf(L[e])
  <2>1. e - 1 \in Nat /\ e - 1 <= Len(t) /\ first \in 1..((e - 1) + 1) /\ (e - 1) + 1 = e
    BY <1>0, <1>1
  <2> QED
    BY <2>1, ScanReads
<1>3. first \in ContFrom(b, L, first) <=> first \in ContHere(b, first, ScanOf(L[first]))
  <2>1. L[first].mode \in {"string", "escaped", "verbatim"}
            <=> (ScanOf(L[first]).quote \/ ScanOf(L[first]).depth > 0)
    <3>1. L[first] \in LexStateSet
      BY BlankedReads
    <3>2. \/ L[first].mode \in Plain
          \/ \E d \in Nat \ {0} : L[first] = At("verbatim", d)
          \/ L[first] \in {At("string", 0), At("escaped", 0)}
      BY <3>1 DEF LexStateSet, Plain, At, Modes
    <3>3. CASE L[first].mode \in Plain
      <4>1. ScanOf(L[first]).quote = FALSE /\ ScanOf(L[first]).depth = 0
        BY <3>3, ScanOfIs DEF NothingOpen
      <4> QED
        BY <3>3, <4>1 DEF Plain
    <3>4. CASE \E d \in Nat \ {0} : L[first] = At("verbatim", d)
      <4>1. PICK d \in Nat \ {0} : L[first] = At("verbatim", d)
        BY <3>4
      <4>2. ScanOf(L[first]).depth = d
        BY <4>1, ScanOfIs
      <4>3. L[first].mode = "verbatim"
        BY <4>1 DEF At
      <4> QED
        BY <4>2, <4>3
    <3>5. CASE L[first] \in {At("string", 0), At("escaped", 0)}
      <4>1. ScanOf(L[first]).quote = TRUE /\ L[first].mode \in {"string", "escaped"}
        BY <3>5, ScanOfIs DEF At
      <4> QED
        BY <4>1
    <3> QED
      BY <3>2, <3>3, <3>4, <3>5
  <2> QED
    BY <1>0, <2>1 DEF ContFrom, ContHere
<1>4. ContHere(b, first, ScanOf(L[first])) \subseteq {first}
  BY DEF ContHere
<1>5. ASSUME NEW k, k # first
      PROVE  k \in ContFrom(b, L, first) <=> k \in ContFrom(b, L, e + 1)
  <2> DEFINE Opens == /\ ~IsBlankLine(b, k, LineEnd(b, k) - 1)
                      /\ L[k].mode \in {"string", "escaped", "verbatim"}
  <2>1. k \in ContFrom(b, L, first) <=>
          k \in 1..Len(t) /\ first < k /\ b[k - 1] = NewLine /\ Opens
    BY <1>0, <1>5 DEF ContFrom
  <2>2. k \in ContFrom(b, L, e + 1) <=>
          k \in 1..Len(t) /\ e + 1 <= k /\ (k = e + 1 \/ b[k - 1] = NewLine) /\ Opens
    BY <1>0 DEF ContFrom
  <2> HIDE DEF Opens
  <2>3. ASSUME k \in 1..Len(t), first < k, b[k - 1] = NewLine PROVE e + 1 <= k
    <3>1. k - 1 \notin first..(e - 1)
      BY <1>1, <2>3
    <3> QED
      BY <1>0, <1>1, <2>3, <3>1
  <2>4. ASSUME k \in 1..Len(t), k = e + 1 PROVE b[k - 1] = NewLine
    <3>1. k - 1 = e /\ e <= Len(t)
      BY <1>0, <1>1, <2>4
    <3> QED
      BY <1>1, <3>1
  <2>5. k \in 1..Len(t) /\ e + 1 <= k => first < k
    BY <1>0, <1>1
  <2> QED
    BY <2>1, <2>2, <2>3, <2>4, <2>5
<1>6. first \notin ContFrom(b, L, e + 1)
  BY <1>0, <1>1 DEF ContFrom
<1>7. ContFrom(b, L, first) =
        ContHere(b, first, ScanOf(L[first])) \cup ContFrom(b, L, e + 1)
  BY <1>3, <1>4, <1>5, <1>6
<1>8. e + 1 <= Len(t) => ScanOf(L[e + 1]) = ScanOf(L[e]) /\ L[e + 1].mode # "escaped"
  <2> SUFFICES ASSUME e + 1 <= Len(t)
               PROVE  ScanOf(L[e + 1]) = ScanOf(L[e]) /\ L[e + 1].mode # "escaped"
    OBVIOUS
  <2>1. e \in 1..Len(t) /\ b[e] = NewLine
    BY <1>0, <1>1
  <2> QED
    BY <2>1, NewLineKeeps
<1> QED
  BY <1>1, <1>2, <1>7, <1>8

\* isabelle_continuation_lines finds the lines that begin in an open string or
\* cartouche, whatever the text.
LEMMA ContinuationsAreOpen ==
    ASSUME NEW t \in Seq(Symbols), NEW L, L = LexStates(t, IsabelleComments),
           NEW b, b = BlankedText(t)
    PROVE  IsabelleContinuationLines(b) = ContFrom(b, L, 1)
<1> DEFINE n == Len(t)
<1>0. n \in Nat /\ Len(b) = n
  BY BlankedIs
<1>a. PICK f : IsabelleContinuationLines(b) = f[<<1, NothingOpen>>] /\ ContWalk(f, b)
  BY <1>0, ContsWalk
<1>1. \A first \in Nat, state \in ScanStates :
        f[<<first, state>>] =
          IF first > n THEN {}
          ELSE ContHere(b, first, state)
                 \cup f[<<LineEnd(b, first) + 1,
                          ScanLine(b, first, LineEnd(b, first) - 1, state)>>]
  BY <1>0, <1>a DEF ContWalk
<1>2. IsRun(L, t, IsabelleComments)
  BY LexStatesRun
<1>3. \A k \in 1..(n + 1) : L[k] \in LexStateSet
  BY <1>0, <1>2 DEF IsRun
<1>4. \A s \in LexStateSet : ScanOf(s) \in ScanStates
  <2> SUFFICES ASSUME NEW s \in LexStateSet PROVE ScanOf(s) \in ScanStates
    OBVIOUS
  <2>1. (s.mode \in InLiteral) \in BOOLEAN
    OBVIOUS
  <2>2. s.depth \in Nat
    BY DEF LexStateSet, At
  <2>3. PICK q \in BOOLEAN : q = (s.mode \in InLiteral)
    BY <2>1
  <2>4. PICK d \in Nat : d = IF s.mode = "verbatim" THEN s.depth ELSE 0
    BY <2>2
  <2>5. ScanOf(s) = [quote |-> q, depth |-> d]
    BY <2>3, <2>4, Zenon DEF ScanOf
  <2> QED
    BY <2>5 DEF ScanStates
<1> DEFINE Right(i) == IF i > n THEN \A s \in ScanStates : f[<<i, s>>] = {}
                       ELSE L[i].mode # "escaped" => f[<<i, ScanOf(L[i])>>] = ContFrom(b, L, i)
           S == {i \in Nat : i = 0 \/ Right(i)}
<1> HIDE DEF n
<1>5. ASSUME NEW i \in Nat, i > n PROVE i \in S
  <2>1. \A s \in ScanStates : f[<<i, s>>] = {}
    BY <1>1, <1>5
  <2> QED
    BY <1>5, <2>1
<1>6. ASSUME NEW i \in Nat, i <= n, \A j \in Nat : i < j => j \in S
      PROVE  i \in S
  <2> SUFFICES ASSUME i # 0, L[i].mode # "escaped" PROVE f[<<i, ScanOf(L[i])>>] = ContFrom(b, L, i)
    BY <1>0, <1>6
  <2>0. i \in 1..Len(t) /\ ~(i > n)
    BY <1>0, <1>6 DEF n
  <2>1. PICK e : e = LineEnd(b, i)
    OBVIOUS
  <2>2. /\ e \in Nat /\ i <= e
        /\ ScanLine(b, i, e - 1, ScanOf(L[i])) = ScanOf(L[e])
        /\ ContFrom(b, L, i) = ContHere(b, i, ScanOf(L[i])) \cup ContFrom(b, L, e + 1)
        /\ e + 1 <= n => ScanOf(L[e + 1]) = ScanOf(L[e]) /\ L[e + 1].mode # "escaped"
    BY <2>0, <2>1, ContStep DEF n
  <2>3. ScanOf(L[i]) \in ScanStates
    BY <1>3, <1>4, <2>0 DEF n
  <2>4. f[<<i, ScanOf(L[i])>>] = ContHere(b, i, ScanOf(L[i])) \cup f[<<e + 1, ScanOf(L[e])>>]
    <3>1. f[<<i, ScanOf(L[i])>>] =
            ContHere(b, i, ScanOf(L[i])) \cup f[<<e + 1, ScanLine(b, i, e - 1, ScanOf(L[i]))>>]
      BY <1>1, <2>0, <2>1, <2>3, Zenon
    <3> QED
      BY <2>2, <3>1
  <2>5. Right(e + 1)
    <3>1. e + 1 \in S /\ e + 1 # 0
      <4> HIDE DEF S
      <4> QED BY <1>6, <2>2
    <3> HIDE DEF Right
    <3> QED BY <3>1
  <2>6. f[<<e + 1, ScanOf(L[e])>>] = ContFrom(b, L, e + 1)
    <3>1. CASE e + 1 > n
      <4>1. ContFrom(b, L, e + 1) = {}
        BY <1>0, <2>2, <3>1 DEF ContFrom
      <4>2. ScanOf(L[e]) \in ScanStates
        <5>1. ScanLine(b, i, e - 1, ScanOf(L[i])) \in ScanStates
          BY <2>0, <2>2, <2>3, ScanTyped
        <5> QED
          BY <2>2, <5>1
      <4>3. \A s \in ScanStates : f[<<e + 1, s>>] = {}
        BY <2>5, <3>1
      <4> QED
        BY <4>1, <4>2, <4>3
    <3>2. CASE ~(e + 1 > n)
      <4>1. e + 1 <= n
        BY <1>0, <2>2, <3>2
      <4>2. f[<<e + 1, ScanOf(L[e + 1])>>] = ContFrom(b, L, e + 1)
        BY <2>2, <2>5, <3>2, <4>1
      <4> QED
        BY <2>2, <4>1, <4>2
    <3> QED
      BY <3>1, <3>2
  <2> QED
    BY <2>2, <2>4, <2>6
<1>7. Nat \subseteq S
  <2> HIDE DEF S
  <2> QED BY <1>0, <1>5, <1>6, Backwards
<1>8. Right(1)
  <2>1. 1 \in S
    <3> HIDE DEF S
    <3> QED BY <1>7
  <2> HIDE DEF Right
  <2> QED BY <2>1
<1>9. L[1] = Code
  BY <1>2 DEF IsRun
<1>10. ScanOf(L[1]) = NothingOpen /\ L[1].mode # "escaped" /\ NothingOpen \in ScanStates
  <2>1. L[1].mode = "code"
    BY <1>9 DEF Code, At
  <2>2. ScanOf(L[1]) = NothingOpen
    BY <2>1, ScanOfIs DEF Plain
  <2>3. NothingOpen \in ScanStates
    BY DEF NothingOpen, ScanStates
  <2> QED
    BY <2>1, <2>2, <2>3
<1>11. CASE 1 > n
  <2>1. ContFrom(b, L, 1) = {}
    BY <1>0, <1>11 DEF ContFrom
  <2> QED
    BY <1>a, <1>8, <1>10, <1>11, <2>1
<1>12. CASE ~(1 > n)
  BY <1>a, <1>8, <1>10, <1>12
<1> QED
  BY <1>11, <1>12

\* Where the lines of a text begin.
LEMMA LineStarts ==
    ASSUME NEW b \in Seq(Symbols), NEW L
    PROVE  {line[1] : line \in {l \in Lines(b) :
              /\ ~IsBlankLine(b, l[1], l[2])
              /\ L[l[1]].mode \in {"string", "escaped", "verbatim"}}}
           = ContFrom(b, L, 1)
<1> DEFINE Starts == {k \in 1..Len(b) : k = 1 \/ b[k - 1] = NewLine}
           Chosen == {l \in Lines(b) :
              /\ ~IsBlankLine(b, l[1], l[2])
              /\ L[l[1]].mode \in {"string", "escaped", "verbatim"}}
<1>0. Len(b) \in Nat
  OBVIOUS
<1>1. Starts = {k \in {1} \cup {k + 1 : k \in {j \in 1..Len(b) : b[j] = NewLine}} : k <= Len(b)}
  <2> SUFFICES ASSUME NEW k
               PROVE  k \in Starts <=>
                        /\ k = 1 \/ \E j \in 1..Len(b) : b[j] = NewLine /\ k = j + 1
                        /\ k <= Len(b)
    OBVIOUS
  <2>1. ASSUME k \in Starts, k # 1
        PROVE  \E j \in 1..Len(b) : b[j] = NewLine /\ k = j + 1
    <3>1. k - 1 \in 1..Len(b) /\ b[k - 1] = NewLine /\ k = (k - 1) + 1
      BY <2>1
    <3> QED
      BY <3>1
  <2>2. ASSUME NEW j \in 1..Len(b), b[j] = NewLine, k = j + 1, k <= Len(b) PROVE k \in Starts
    <3>1. k - 1 = j /\ k \in 1..Len(b)
      BY <2>2
    <3> QED
      BY <2>2, <3>1
  <2>3. k = 1 /\ k <= Len(b) => k \in Starts
    BY <1>0
  <2>4. k \in Starts => k <= Len(b)
    OBVIOUS
  <2> HIDE DEF Starts
  <2> QED
    BY <2>1, <2>2, <2>3, <2>4
<1>2. Lines(b) = {<<first, LineEnd(b, first) - 1>> : first \in Starts}
  BY <1>1 DEF Lines
<1>3. ContFrom(b, L, 1) =
        {k \in Starts : /\ ~IsBlankLine(b, k, LineEnd(b, k) - 1)
                        /\ L[k].mode \in {"string", "escaped", "verbatim"}}
  BY <1>0 DEF ContFrom
<1> HIDE DEF Starts
<1>4. ASSUME NEW k \in ContFrom(b, L, 1) PROVE k \in {line[1] : line \in Chosen}
  <2>1. PICK l : l = <<k, LineEnd(b, k) - 1>>
    OBVIOUS
  <2>2. l \in Lines(b) /\ l[1] = k /\ l[2] = LineEnd(b, k) - 1
    BY <1>2, <1>3, <2>1
  <2> QED
    BY <1>3, <2>2
<1>5. ASSUME NEW l \in Chosen PROVE l[1] \in ContFrom(b, L, 1)
  <2>1. PICK k \in Starts : l = <<k, LineEnd(b, k) - 1>>
    BY <1>2
  <2>2. l[1] = k /\ l[2] = LineEnd(b, k) - 1
    BY <2>1
  <2> QED
    BY <1>3, <2>2
<1> QED
  BY <1>4, <1>5

\* Every text typed is a sequence of symbols.
TextIsSymbols == text \in Seq(Symbols)

LEMMA TextIsTyped == Spec => []TextIsSymbols
<1>1. Init => TextIsSymbols
  BY TextAssumption DEF Init, TextIsSymbols
<1>2. TextIsSymbols /\ [Next]_text => TextIsSymbols'
  <2> SUFFICES ASSUME TextIsSymbols, [Next]_text PROVE TextIsSymbols'
    OBVIOUS
  <2>1. CASE UNCHANGED text
    BY <2>1 DEF TextIsSymbols
  <2>2. CASE Type
    <3>1. PICK s \in Symbols : text' = Append(text, s)
      BY <2>2, TextAssumption DEF Type
    <3> QED
      BY <3>1 DEF TextIsSymbols
  <2> QED
    BY <2>1, <2>2 DEF Next
<1> QED
  BY <1>1, <1>2, PTL DEF Spec

\* Whatever is typed, strip_comments blanks what the lexer calls a comment, the
\* Isabelle blanker agrees with it where no mark has a cartouche, and the lines
\* read after blanking continue what the lexer has open.
THEOREM LexersAlwaysAgree == Spec => []LexersAgree
<1>1. TextIsSymbols => LexersAgree
  <2> SUFFICES ASSUME text \in Seq(Symbols) PROVE LexersAgree
    BY DEF TextIsSymbols
  <2>1. StripIsALexer
    BY StripsComments DEF StripIsALexer
  <2>2. BlankersAgree
    BY BlankersSame DEF BlankersAgree
  <2>3. ContinuationsAreOpenText
    <3>1. PICK L : L = LexStates(text, IsabelleComments)
      OBVIOUS
    <3>2. PICK b : b = BlankedText(text)
      OBVIOUS
    <3>3. b \in Seq(Symbols)
      BY <3>2, BlankedIs
    <3>4. IsabelleContinuationLines(b) = {line[1] : line \in {l \in Lines(b) :
            /\ ~IsBlankLine(b, l[1], l[2])
            /\ L[l[1]].mode \in {"string", "escaped", "verbatim"}}}
      BY <3>1, <3>2, <3>3, ContinuationsAreOpen, LineStarts
    <3> QED
      BY <3>1, <3>2, <3>4 DEF ContinuationsAreOpenText, BlankedText
  <2> QED
    BY <2>1, <2>2, <2>3 DEF LexersAgree
<1> QED
  BY <1>1, TextIsTyped, PTL
=============================================================================
