------------------------------ MODULE Statements ------------------------------
(***************************************************************************)
(* The statements of the three provers side by side: the text of an        *)
(* Isabelle or a Rocq declaration is typed symbol by symbol, and a Lean    *)
(* declaration token by token.                                             *)
(***************************************************************************)
EXTENDS IsabelleStatement, RocqStatement, LeanStatement

\* What is taken for a declaration's statement, in each prover's syntax, is all
\* of it and nothing of its proof, and no end is invented; a Lean type that has
\* an unbracketed `:=` is kept up to that token.
StatementsAreExact ==
    /\ NothingOfTheProof /\ AllOfTheStatement
    /\ SentenceEndsInCode
    /\ SignatureEndsAtValue /\ NoEndIsInvented /\ LetEndsTheStatement
=============================================================================
