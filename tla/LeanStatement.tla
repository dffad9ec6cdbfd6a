---------------------------- MODULE LeanStatement ----------------------------
(***************************************************************************)
(* Where the statement of a Lean declaration ends                          *)
(* (src/gate/provers/lean4.py): the scan for the first token of the        *)
(* declaration's value, whose three shapes are `:= term`, alternatives     *)
(* `| pattern => term` and `where fields`.                                 *)
(*                                                                         *)
(* A declaration is typed token by token after its name: a signature, the  *)
(* opening of a value, a value.  `begun` keeps where its author began the  *)
(* value, which the scan is not told.                                      *)
(***************************************************************************)
EXTENDS Naturals, Sequences

CONSTANT MaxTokens    \* bound on the tokens of a declaration

Opener == "("   Closer == ")"   Assign == ":="   Bar == "|"   Arrow == "=>"
Where == "where"   Term == "word"
NextLine == "newline"    \* the next line is indented as the declaration, or more
Outdent == "outdent"      \* the next line is indented less

Tokens == {Opener, Closer, Assign, Bar, Arrow, Where, Term, NextLine, Outdent}

VARIABLES
    decl,      \* what is typed of the declaration, from its name on
    phase,     \* what is being typed
    begun      \* where the signature ends, by its author; 0 while it does not

leanVars == <<decl, phase, begun>>

-----------------------------------------------------------------------------
(* _scan_to_signature_end.                                                 *)

\* The four pairs of brackets are one; stray closers are tolerated.
DepthAfter(depth, s) ==
    CASE s = Opener -> depth + 1
      [] s = Closer -> IF depth = 0 THEN 0 ELSE depth - 1
      [] OTHER -> depth

IsLineInitialPipe(d, i) ==
    d[i] = Bar /\ i > 1 /\ d[i - 1] = NextLine

\* Mutant: every line-initial bar is taken for the first alternative.
ScanToSignatureEndUnconfirmed(d) ==
    LET scan[at \in Nat \X Nat] ==
            LET i == at[1]  depth == at[2]
            IN  IF i > Len(d) THEN 0
                ELSE CASE depth = 0 /\ IsLineInitialPipe(d, i) -> i - 1
                       [] depth = 0 /\ d[i] \in {Where, Assign} -> i
                       [] OTHER -> scan[<<i + 1, DepthAfter(depth, d[i])>>]
    IN  scan[<<1, 0>>]

\* The last token of the signature, 0 if nothing ends it.  A line-initial bar
\* is remembered, and is an alternative only if an arrow comes before
\* anything else that could end the signature.
ScanToSignatureEnd(d) ==
    LET scan[at \in Nat \X Nat \X Nat] ==
            LET i == at[1]  depth == at[2]  pending == at[3]
            IN  IF i > Len(d) THEN 0
                ELSE IF depth = 0 /\ pending = 0 /\ IsLineInitialPipe(d, i)
                     THEN scan[<<i + 1, depth, i>>]
                ELSE IF depth = 0 /\ pending # 0 /\ d[i] = Arrow THEN pending - 1
                ELSE IF depth = 0 /\ d[i] \in {Where, Assign} THEN i
                ELSE scan[<<i + 1, DepthAfter(depth, d[i]), pending>>]
    IN  scan[<<1, 0, 0>>]

-----------------------------------------------------------------------------
(* Declarations, by the grammar that the module quotes:                    *)
(* declVal := declValSimple <|> declValEqns <|> whereStructInst.           *)

Depth(d) ==
    LET after[k \in Nat] == IF k = 0 THEN 0 ELSE DepthAfter(after[k - 1], d[k])
    IN  after[Len(d)]

TypeToken(s) == Len(decl) < MaxTokens /\ decl' = Append(decl, s)

LeanInit == decl = << >> /\ phase = "signature" /\ begun = 0

\* A binder's default brackets its `:=`, the type `let x := t; ...` and the
\* function `fun x => ...` in a type need not.
TypeSignature ==
    /\ phase = "signature"
    /\ \E s \in Tokens :
        /\ TypeToken(s)
        /\ s = Closer => Depth(decl) > 0
    /\ UNCHANGED <<phase, begun>>

\* `:=` and `where` are kept as part of the statement.
BeginSimple ==
    /\ phase = "signature" /\ Depth(decl) = 0
    /\ \E s \in {Assign, Where} : TypeToken(s)
    /\ phase' = "value"
    /\ begun' = Len(decl) + 1

BeginAlternatives ==
    /\ phase = "signature" /\ Depth(decl) = 0
    /\ Len(decl) + 1 < MaxTokens
    /\ decl' = decl \o <<NextLine, Bar>>
    /\ phase' = "pattern"
    /\ begun' = Len(decl) + 1

TypePattern ==
    /\ phase = "pattern"
    /\ \E s \in {Term, Bar, Opener, Closer} :
        /\ TypeToken(s)
        /\ s = Closer => Depth(decl) > 0
    /\ UNCHANGED <<phase, begun>>

EndPattern ==
    /\ phase = "pattern" /\ Depth(decl) = 0
    /\ TypeToken(Arrow)
    /\ phase' = "value"
    /\ UNCHANGED begun

TypeValue ==
    /\ phase = "value"
    /\ \E s \in Tokens : TypeToken(s)
    /\ UNCHANGED <<phase, begun>>

LeanNext ==
    \/ TypeSignature \/ BeginSimple \/ BeginAlternatives
    \/ TypePattern \/ EndPattern \/ TypeValue

LeanSpec == LeanInit /\ [][LeanNext]_leanVars

-----------------------------------------------------------------------------
(* Properties.                                                             *)

Unbracketed(d, tokens) ==
    {i \in 1..Len(d) : d[i] \in tokens /\ Depth(SubSeq(d, 1, i - 1)) = 0}

\* A bar of the type, as of an absolute value, that begins a line.
BarBegunLines(d) == {i \in Unbracketed(d, {Bar}) : IsLineInitialPipe(d, i)}

\* Tokens of a type that end it for the scan.
EndTokens(d) == Unbracketed(d, {Assign, Where})
LateArrows(d) ==
    {j \in Unbracketed(d, {Arrow}) : \E i \in BarBegunLines(d) : i < j}

\* What is typed of the signature, by its author.
Signature == IF phase = "signature" THEN decl ELSE SubSeq(decl, 1, begun - 1)

NothingMisleads == EndTokens(Signature) = {} /\ LateArrows(Signature) = {}

\* The scan ends the signature where its author ended it, whichever shape the
\* value has and whatever is in it: a default in a binder, a bar of the type
\* that begins a line, an arrow.  It need not where the type has an unbracketed
\* `:=` (`let`), an unbracketed arrow (`fun`) after a bar that begins a line, or
\* such a bar before a value that is alternatives.
SignatureEndsAtValue ==
    (phase = "value" /\ NothingMisleads /\ (decl[begun] = NextLine => BarBegunLines(Signature) = {}))
        => ScanToSignatureEnd(decl) = begun

\* Nothing is taken for the end of a signature that goes on, but for the same
\* tokens: the answer is then that there is none, which no audit reads as
\* unchanged.
NoEndIsInvented == phase = "signature" /\ NothingMisleads => ScanToSignatureEnd(decl) = 0

\* Of a type with an unbracketed `:=` the statement is kept up to the first one,
\* whatever the value is: what comes before it is compared, nothing after it is.
LetEndsTheStatement ==
    (EndTokens(Signature) # {} /\ BarBegunLines(Signature) = {}) =>
        LET end == ScanToSignatureEnd(decl)
        IN  end \in EndTokens(Signature) /\ \A i \in EndTokens(Signature) : end <= i
=============================================================================
