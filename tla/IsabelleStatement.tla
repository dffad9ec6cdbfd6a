-------------------------- MODULE IsabelleStatement --------------------------
(***************************************************************************)
(* The statement extractor of src/gate/provers/isabelle.py on the text of  *)
(* one declaration and what follows it: the text begins with the keyword   *)
(* of the declaration, where the regular expression that locates it has    *)
(* matched.  A line starts a declaration, a command or a proof when that   *)
(* is its first word.                                                      *)
(***************************************************************************)
EXTENDS CommentBlanking

\* The first position of a line that is not a blank; past the line if none is.
FirstToken(t, first, last) ==
    LET at[i \in Nat] ==
            IF i > last \/ t[i] # Blank THEN i ELSE at[i + 1]
    IN  at[first]

StartsWith(t, first, last, s) ==
    LET k == FirstToken(t, first, last) IN k <= last /\ t[k] = s

Indent(t, first, last) == FirstToken(t, first, last) - first

\* `.` and `..` complete a proof at the end of a line, in runs of no more.
IsTerminalProof(t, i, last) ==
    /\ t[i] = Dot
    /\ i = 1 \/ t[i - 1] # Dot
    /\ \E run \in {1, 2} :
        /\ i + run - 1 <= last
        /\ \A k \in i..(i + run - 1) : t[k] = Dot
        /\ \A k \in (i + run)..last : t[k] = Blank

\* _truncate_unquoted_stop_token: where the line is cut, past it if nowhere.
\* A word that opens a proof counts anywhere outside strings and cartouches.
TruncateUnquotedStopToken(t, first, last, state) ==
    LET cut[i \in Nat] ==
            IF i > last THEN i
            ELSE LET here == ScanLine(t, first, i - 1, state)
                 IN  IF /\ ~here.quote /\ here.depth = 0
                        /\ t[i] = Proof \/ IsTerminalProof(t, i, last)
                     THEN i ELSE cut[i + 1]
    IN  cut[first]

\* What ends the header before a line, once the declaration's own is read.
EndsBefore(t, first, last, state, indent) ==
    \/ ~state.quote /\ StartsWith(t, first, last, Declaration)
    \/ /\ ~state.quote /\ state.depth = 0
       /\ Indent(t, first, last) <= indent
       /\ StartsWith(t, first, last, Command)
    \/ StartsWith(t, first, last, Proof)

\* extract_isabelle_statement: the positions it captures, blanks left out.
ExtractStatement(text0) ==
    LET t == Blanked(text0, BlankIsabelleComments(text0))
        from[at \in Nat \X [state : ScanStates, declared : BOOLEAN, indent : Nat,
                              quoted : BOOLEAN]] ==
            LET first == at[1]  read == at[2]
                last == LineEnd(t, first) - 1
                cut == TruncateUnquotedStopToken(t, first, last, read.state)
                captured == {k \in first..(cut - 1) : t[k] # Blank}
            IN  CASE first > Len(t) -> {}
                  [] first <= Len(t) /\ IsBlankLine(t, first, last) ->
                        IF read.quoted THEN {} ELSE from[<<last + 2, read>>]
                  [] /\ first <= Len(t) /\ ~IsBlankLine(t, first, last)
                     /\ read.declared
                     /\ EndsBefore(t, first, last, read.state, read.indent) -> {}
                  [] OTHER ->
                        captured \cup
                        IF cut <= last THEN {}
                        ELSE from[<<last + 2,
                                [state |-> ScanLine(t, first, last, read.state),
                                 declared |-> TRUE,
                                 indent |-> IF read.declared THEN read.indent
                                            ELSE Indent(t, first, last),
                                 quoted |-> read.quoted \/
                                            \E k \in first..last : t[k] = Quote]>>]
    IN  from[<<1, [state |-> NothingOpen, declared |-> FALSE, indent |-> 0,
                   quoted |-> FALSE]>>]

-----------------------------------------------------------------------------
(* What a statement is, by a lexer that reads the whole text.              *)

\* Where code, outside strings, cartouches and comments, says that the header
\* ends: a word that opens a proof, a terminal proof method, or the next
\* declaration or command.
HeaderEnds(t) ==
    LET states == LexStates(t, IsabelleComments)
        blanked == Blanked(t, Comment(t, IsabelleComments))
        lineOf(k) == CHOOSE l \in Lines(t) : l[1] <= k /\ k <= l[2]
    IN  {k \in 2..Len(t) :
            /\ states[k].mode = "code"
            /\ \/ t[k] = Proof
               \/ IsTerminalProof(blanked, k, lineOf(k)[2])
               \/ /\ t[k] \in {Declaration, Command}
                  /\ FirstToken(blanked, lineOf(k)[1], lineOf(k)[2]) = k
                  /\ t[k] = Command => k = lineOf(k)[1]}

\* The statement: the text of the declaration before that, without comments.
Statement(t) ==
    LET before == {k \in 1..Len(t) : \A e \in HeaderEnds(t) : k < e}
    IN  {k \in before : t[k] \notin Whitespace}
            \ Comment(t, IsabelleComments)

HasMarginal(t) ==
    \E k \in 1..Len(t) : t[k] = CommentMark /\ MarginalCommentEnd(t, k) # 0

\* A blank line after a quote is taken for the end of the statement.
BlankLineInside(t) ==
    LET blanked == Blanked(t, Comment(t, IsabelleComments))
    IN  \E l \in Lines(blanked) : IsBlankLine(blanked, l[1], l[2])

\* A line inside a string or a cartouche begins with a word that would end a
\* header outside.
ReadsAsEnd(t) ==
    LET states == LexStates(t, IsabelleComments)
    IN  \E l \in Lines(t) :
            /\ states[l[1]].mode \in {"string", "escaped", "verbatim"}
            /\ \/ StartsWith(t, l[1], l[2], Proof)
               \/ /\ states[l[1]].mode = "verbatim"
                  /\ StartsWith(t, l[1], l[2], Declaration)

\* The text is that of a declaration.
IsDeclaration(t) == t # << >> /\ t[1] = Declaration

-----------------------------------------------------------------------------
(* Properties.                                                             *)

\* An extraction holds nothing of the proof and nothing of the commands and
\* declarations after it, whatever strings, cartouches, comments and blank
\* lines come before: an edit there never reads as a change of the statement.
NothingOfTheProof ==
    (IsDeclaration(text) /\ ~HasMarginal(text)) =>
        ExtractStatement(text) \subseteq Statement(text)

\* It holds all of the statement, so that no edit of it reads as none, unless
\* a line is blank or a line inside a string or a cartouche begins with a word
\* that would end a header.
AllOfTheStatement ==
    (/\ IsDeclaration(text) /\ ~HasMarginal(text)
     /\ ~BlankLineInside(text) /\ ~ReadsAsEnd(text)) =>
        Statement(text) \subseteq ExtractStatement(text)

\* isabelle.py:940-946: "Isar statements live inside quotes or cartouches,
\* either of which may contain a stop-token word as ordinary statement text";
\* a same-line proof "gets cut while the same text inside the statement is left
\* untouched".  What is inside an open string is captured, on every line.
StatementTextIsKept ==
    (IsDeclaration(text) /\ ~HasMarginal(text) /\ ~BlankLineInside(text)) =>
        Statement(text) \subseteq ExtractStatement(text)
=============================================================================
