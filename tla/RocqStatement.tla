----------------------------- MODULE RocqStatement -----------------------------
(***************************************************************************)
(* Where the sentence of a Rocq declaration ends (src/gate/provers/        *)
(* rocq.py): the scan runs over the text with its comments in, and decides *)
(* for itself what is a string and what is a comment.                      *)
(***************************************************************************)
EXTENDS CommentBlanking

EndsSentence(t, i) ==
    t[i] = Dot /\ (i = Len(t) \/ t[i + 1] \in {Blank, NewLine})

\* _scan_to_sentence_end: the position of the dot, 0 if there is none.  A
\* string has no escapes and ends at its next quote, and opens no comment.
ScanToSentenceEnd(t, start) ==
    LET scan[at \in Nat \X BOOLEAN \X Nat] ==
            LET i == at[1]  string == at[2]  depth == at[3]
            IN  IF i > Len(t) THEN 0
                ELSE IF string THEN scan[<<i + 1, t[i] # Quote, 0>>]
                ELSE IF t[i] = BlockOpen THEN scan[<<i + 1, FALSE, depth + 1>>]
                ELSE IF depth > 0
                     THEN scan[<<i + 1, FALSE, IF t[i] = BlockClose THEN depth - 1 ELSE depth>>]
                ELSE IF EndsSentence(t, i) THEN i
                ELSE scan[<<i + 1, t[i] = Quote, 0>>]
    IN  scan[<<start, FALSE, 0>>]

\* extract_rocq_statement: the positions of the sentence, none without an end.
ExtractSentence(t) ==
    {k \in 1..ScanToSentenceEnd(t, 1) : t[k] \notin Whitespace}

-----------------------------------------------------------------------------
(* Properties.                                                             *)

\* A sentence ends at the first dot before a blank that a lexer of the whole
\* text calls code.  Texts with an escape are left out: the blanker gives
\* Rocq's strings the escapes that this scan knows they do not have.
SentenceEndsInCode ==
    (\A k \in 1..Len(text) : text[k] # Escape) =>
        LET states == LexStates(text, RocqComments)
            ends == {k \in 1..Len(text) :
                        states[k].mode = "code" /\ EndsSentence(text, k)}
        IN  ExtractSentence(text) =
            {k \in 1..Len(text) : /\ text[k] \notin Whitespace
                                  /\ \E e \in ends : k <= e /\ \A d \in ends : e <= d}
=============================================================================
