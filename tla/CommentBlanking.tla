--------------------------- MODULE CommentBlanking ---------------------------
(***************************************************************************)
(* The two comment blankers of the gate, src/gate/inventory/scan.py and    *)
(* src/gate/provers/isabelle.py, and the line scanner that reads what they *)
(* leave.  Every enumeration of declarations reads blanked text, so a      *)
(* blanker that runs on hides declarations from every audit.               *)
(*                                                                         *)
(* A text is a sequence of symbols, typed one after the other: delimiters, *)
(* escapes, newlines, blanks and words, of which the statement extractors  *)
(* tell the keyword of a declaration, other commands and the words that    *)
(* open a proof.  A delimiter is one symbol; how its characters overlap    *)
(* with their neighbours is abstracted.                                    *)
(***************************************************************************)
EXTENDS Naturals, Sequences

CONSTANTS
    Beginnings,    \* the texts that typing starts from
    Alphabets,     \* sets of symbols; what is typed keeps to one of them
    MaxText        \* bound on the symbols of a text

BlockOpen == "(*"     BlockClose == "*)"     LineMarker == "--"
Open == "<open>"      Close == "<close>"     CommentMark == "<comment>"
Quote == "quote"      Escape == "escape"     NewLine == "newline"
Blank == "blank"      Word == "word"         Dot == "."
Declaration == "lemma"    Command == "text"    Proof == "by"

Symbols == {BlockOpen, BlockClose, LineMarker, Open, Close, CommentMark,
            Quote, Escape, NewLine, Blank, Word, Dot, Declaration, Command,
            Proof}

ASSUME TextAssumption ==
    /\ \A b \in Beginnings : b \in Seq(Symbols)
    /\ Alphabets \subseteq SUBSET Symbols /\ MaxText \in Nat

Lean4Comments == [line |-> TRUE, verbatim |-> FALSE]
RocqComments == [line |-> FALSE, verbatim |-> FALSE]
IsabelleComments == [line |-> FALSE, verbatim |-> TRUE]

VARIABLE text

-----------------------------------------------------------------------------
(* gate/inventory/scan.py.                                                 *)

\* The positions of a span that blanking overwrites.
BlankRange(t, start, end) ==
    {k \in start..(end - 1) : k <= Len(t) /\ t[k] # NewLine}

\* Just past the nested span whose text begins at `first`: only its own
\* delimiters count, and an unterminated one runs to the end.  The walk is at a
\* position and a depth.
NestEnd(t, first, open, close) ==
    LET end[at \in Nat \X Nat] ==
            LET i == at[1]  depth == at[2]
            IN  IF depth = 0 \/ i > Len(t) THEN i
                ELSE end[<<i + 1, CASE t[i] = open  -> depth + 1
                                    [] t[i] = close -> depth - 1
                                    [] OTHER        -> depth>>]
    IN  end[<<first, 1>>]

\* Just past the block comment that opens at `start`.
BlockCommentEnd(t, start) == NestEnd(t, start + 1, BlockOpen, BlockClose)

\* Just past the verbatim span that opens at `start`.
SkipVerbatimSpan(t, start) == NestEnd(t, start + 1, Open, Close)

\* Just past the string literal that opens at `start`; an escape takes the
\* next symbol with it.
SkipStringLiteral(t, start) ==
    LET close[i \in Nat] ==
            IF i > Len(t) \/ t[i] = Quote THEN i
            ELSE close[IF t[i] = Escape /\ i < Len(t) THEN i + 2 ELSE i + 1]
    IN  close[start + 1] + 1

\* The newline that ends the line of position `start`, or the end of the text.
LineEnd(t, start) ==
    LET end[i \in Nat] ==
            IF i > Len(t) \/ t[i] = NewLine THEN i ELSE end[i + 1]
    IN  end[start]

\* strip_comments: the positions it blanks.
StripComments(t, syntax) ==
    LET from[i \in Nat] ==
            IF i > Len(t) THEN {}
            ELSE CASE t[i] = BlockOpen ->
                        BlankRange(t, i, BlockCommentEnd(t, i))
                            \cup from[BlockCommentEnd(t, i)]
                   [] t[i] = LineMarker /\ syntax.line ->
                        BlankRange(t, i, LineEnd(t, i)) \cup from[LineEnd(t, i)]
                   [] t[i] = Open /\ syntax.verbatim ->
                        from[SkipVerbatimSpan(t, i)]
                   [] t[i] = Quote -> from[SkipStringLiteral(t, i)]
                   [] OTHER -> from[i + 1]     \* a stray closer too
    IN  from[1]

-----------------------------------------------------------------------------
(* gate/provers/isabelle.py.                                               *)

Whitespace == {Blank, NewLine}

\* Just past the marginal comment whose mark is at `start`, 0 if the mark is
\* not followed by a cartouche.
MarginalCommentEnd(t, start) ==
    LET opener[i \in Nat] ==
            IF i <= Len(t) /\ t[i] \in Whitespace THEN opener[i + 1] ELSE i
        at == opener[start + 1]
    IN  IF at <= Len(t) /\ t[at] = Open THEN NestEnd(t, at + 1, Open, Close) ELSE 0

\* _string_literal_end and _block_comment_end, the module's own copies.
StringLiteralEnd(t, start) ==
    LET close[at \in Nat \X BOOLEAN] ==
            LET i == at[1]  escaped == at[2]
            IN  IF i > Len(t) \/ (t[i] = Quote /\ ~escaped) THEN i + 1
                ELSE close[<<i + 1, t[i] = Escape /\ ~escaped>>]
    IN  close[<<start + 1, FALSE>>]

\* Mutant: a comment does not nest.
IsaBlockCommentEndFlat(t, start) ==
    LET end[i \in Nat] ==
            IF i > Len(t) THEN i ELSE IF t[i] = BlockClose THEN i + 1 ELSE end[i + 1]
    IN  end[start + 1]

IsaBlockCommentEnd(t, start) ==
    LET end[at \in Nat \X Nat] ==
            LET i == at[1]  open == at[2]
            IN  IF i > Len(t) THEN i
                ELSE CASE t[i] = BlockOpen               -> end[<<i + 1, open + 1>>]
                       [] t[i] = BlockClose /\ open = 1  -> i + 1
                       [] t[i] = BlockClose /\ open > 1  -> end[<<i + 1, open - 1>>]
                       [] OTHER                          -> end[<<i + 1, open>>]
    IN  end[<<start + 1, 1>>]

\* _blank_isabelle_comments: marginal comments are looked for first, at every
\* depth of cartouches.
BlankIsabelleComments(t) ==
    LET marginal(i) == IF t[i] = CommentMark THEN MarginalCommentEnd(t, i) ELSE 0
        from[at \in Nat \X Nat] ==
            LET i == at[1]  depth == at[2]
            IN  IF i > Len(t) THEN {}
                ELSE CASE marginal(i) # 0 ->
                            BlankRange(t, i, marginal(i)) \cup from[<<marginal(i), depth>>]
                       [] marginal(i) = 0 /\ depth > 0 ->
                            from[<<i + 1, CASE t[i] = Open  -> depth + 1
                                            [] t[i] = Close -> depth - 1
                                            [] OTHER        -> depth>>]
                       [] marginal(i) = 0 /\ depth = 0 /\ t[i] = Quote ->
                            from[<<StringLiteralEnd(t, i), 0>>]
                       [] marginal(i) = 0 /\ depth = 0 /\ t[i] = BlockOpen ->
                            BlankRange(t, i, IsaBlockCommentEnd(t, i))
                                \cup from[<<IsaBlockCommentEnd(t, i), 0>>]
                       [] OTHER -> from[<<i + 1, IF t[i] = Open THEN 1 ELSE 0>>]
    IN  from[<<1, 0>>]

-----------------------------------------------------------------------------
(* Reading line by line what a blanker left.                               *)

\* The text with a set of its positions blanked.
Blanked(t, positions) ==
    [k \in 1..Len(t) |-> IF k \in positions THEN Blank ELSE t[k]]

\* splitlines, as the first and the last position of each line.
Lines(t) ==
    LET starts == {1} \cup {k + 1 : k \in {j \in 1..Len(t) : t[j] = NewLine}}
    IN  {<<first, LineEnd(t, first) - 1>> : first \in {k \in starts : k <= Len(t)}}

\* What may be open at a place: a string, or cartouches to a depth.
ScanStates == [quote : BOOLEAN, depth : Nat]
NothingOpen == [quote |-> FALSE, depth |-> 0]

\* _scan_line without a cut: the state at the end of a line.
ScanLine(t, first, last, state) ==
    LET walk[at \in Nat \X BOOLEAN \X Nat] ==
            LET i == at[1]  quote == at[2]  depth == at[3]
            IN  IF i > last THEN [quote |-> quote, depth |-> depth]
                ELSE IF quote
                     THEN IF t[i] = Escape /\ i < last THEN walk[<<i + 2, TRUE, depth>>]
                          ELSE walk[<<i + 1, t[i] # Quote, depth>>]
                ELSE IF depth > 0
                     THEN walk[<<i + 1, FALSE, CASE t[i] = Open  -> depth + 1
                                                 [] t[i] = Close -> depth - 1
                                                 [] OTHER        -> depth>>]
                ELSE walk[<<i + 1, t[i] = Quote, IF t[i] = Open THEN 1 ELSE 0>>]
    IN  walk[<<first, state.quote, state.depth>>]

IsBlankLine(t, first, last) == \A k \in first..last : t[k] \in Whitespace

\* isabelle_continuation_lines: the first positions of the lines that begin
\* inside an open statement or cartouche.  A blank line carries the state.
IsabelleContinuationLines(t) ==
    LET from[at \in Nat \X ScanStates] ==
            LET first == at[1]  state == at[2]
                last == LineEnd(t, first) - 1
            IN  IF first > Len(t) THEN {}
                ELSE IF IsBlankLine(t, first, last) THEN from[<<last + 2, state>>]
                ELSE (IF state.quote \/ state.depth > 0 THEN {first} ELSE {})
                         \cup from[<<last + 2, ScanLine(t, first, last, state)>>]
    IN  from[<<1, NothingOpen>>]

-----------------------------------------------------------------------------
(* A definition of the same lexis that reads every symbol once.            *)

Lex(state, s, syntax) ==
    LET mode(m) == [mode |-> m, depth |-> 0]
        nest(open, close) ==
            CASE s = open -> [state EXCEPT !.depth = @ + 1]
              [] s = close -> IF state.depth = 1 THEN mode("code")
                              ELSE [state EXCEPT !.depth = @ - 1]
              [] OTHER -> state
    IN  CASE state.mode = "code" ->
               CASE s = BlockOpen -> [mode |-> "block", depth |-> 1]
                 [] s = LineMarker /\ syntax.line -> mode("line")
                 [] s = Open /\ syntax.verbatim -> [mode |-> "verbatim", depth |-> 1]
                 [] s = Quote -> mode("string")
                 [] OTHER -> state
          [] state.mode = "line" -> IF s = NewLine THEN mode("code") ELSE state
          [] state.mode = "block" -> nest(BlockOpen, BlockClose)
          [] state.mode = "verbatim" -> nest(Open, Close)
          [] state.mode = "string" ->
               CASE s = Quote -> mode("code")
                 [] s = Escape -> mode("escaped")
                 [] OTHER -> state
          [] state.mode = "escaped" -> mode("string")

\* The state before each position, and after the last.
LexStates(t, syntax) ==
    LET states[k \in Nat] ==
            IF k = 0 THEN <<[mode |-> "code", depth |-> 0]>>
            ELSE LET before == states[k - 1]
                 IN  Append(before, Lex(before[k], t[k], syntax))
    IN  states[Len(t)]

Comment(t, syntax) ==
    LET states == LexStates(t, syntax)
        inside == {"line", "block"}
    IN  {k \in 1..Len(t) : /\ t[k] # NewLine
                           /\ states[k].mode \in inside \/ states[k + 1].mode \in inside}

-----------------------------------------------------------------------------
Init == text \in Beginnings

\* A text is typed.
Type ==
    /\ Len(text) < MaxText
    /\ \E alphabet \in Alphabets : \E s \in alphabet :
        /\ \A k \in 1..Len(text) : text[k] \in alphabet
        /\ text' = Append(text, s)

Next == Type

Spec == Init /\ [][Next]_text

-----------------------------------------------------------------------------
(* Properties.                                                             *)

\* What strip_comments blanks, span after span and jumping over what it does
\* not read, is what a lexer that reads every symbol calls a comment, for the
\* comment syntax of each prover: no delimiter out of place, no unterminated
\* span and no escape makes it blank code or leave a comment.
StripIsALexer ==
    \A syntax \in {Lean4Comments, RocqComments, IsabelleComments} :
        StripComments(text, syntax) = Comment(text, syntax)

\* "The two agree on every shape tried except Isabelle's marginal comment"
\* (scan.py:184): on a text in which no mark has a cartouche they blank the
\* same positions.
BlankersAgree ==
    (\A k \in 1..Len(text) :
        text[k] = CommentMark => MarginalCommentEnd(text, k) = 0)
    => BlankIsabelleComments(text) = StripComments(text, IsabelleComments)

\* Lines read one at a time with a carried state, after blanking, are
\* continuations exactly when the lexer is inside a string or a cartouche at
\* their first symbol: blanks, escapes at the end of a line and comments in
\* between do not lose the state.
ContinuationsAreOpenText ==
    LET blanked == Blanked(text, StripComments(text, IsabelleComments))
        states == LexStates(text, IsabelleComments)
    IN  IsabelleContinuationLines(blanked) =
        {line[1] : line \in {l \in Lines(blanked) :
            /\ ~IsBlankLine(blanked, l[1], l[2])
            /\ states[l[1]].mode \in {"string", "escaped", "verbatim"}}}

\* The blankers and the line scanner read one lexis.
LexersAgree == StripIsALexer /\ BlankersAgree /\ ContinuationsAreOpenText

=============================================================================
