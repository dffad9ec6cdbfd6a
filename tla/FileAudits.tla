------------------------------ MODULE FileAudits ------------------------------
(***************************************************************************)
(* The audits that compare the two versions of one file, declaration by    *)
(* declaration: statement immutability, sorry delta under the ordinary and *)
(* the reduction contract, the length check, and what the trust report     *)
(* probes (src/gate/verify/statement_immutability.py, sorry_delta.py,      *)
(* style.py, changed_decls.py).                                            *)
(*                                                                         *)
(* A version is the sequence of its declarations, as DeclSpans enumerates  *)
(* them.  Left out: a placeholder outside every declaration, which         *)
(* _is_disallowed always refuses, and a head that cannot be read, of which *)
(* the trust report probes nothing.                                        *)
(***************************************************************************)
EXTENDS Naturals, Sequences, FiniteSets, FiniteSetsExt, Functions

CONSTANT Cap     \* how many declarations a trust report probes (DEFAULT_CAP)

ASSUME CapAssumption == Cap \in Nat

\* statement_keywords and definition_keywords divide the keywords.
Kinds == {"whole", "defn", "proof"}

\* A declaration has the scope that qualifies it, its leaf name, its kind, its
\* statement and its body.
\* Bodies and their placeholders and lines: the part of a declaration after its
\* statement.  A statement may be one that the extractor cannot read.
Bodies == {"hole", "short", "long"}
Holes(d) == IF d.body = "hole" THEN 1 ELSE 0
LinesOf(d) == CASE d.body = "hole" -> 1 [] d.body = "short" -> 2 [] d.body = "long" -> 3

Anonymous == ":"
Nothing == << >>     \* None
Readable == {"s1", "s2"}
Statements == Readable \cup {"unreadable"}

\* "anon" stands for the <anon> of a key, which is no scope.
Declarations == [scope : STRING \ {"anon"}, leaf : STRING, kind : Kinds,
                 statement : Statements, body : Bodies]

-----------------------------------------------------------------------------
(* statement_immutability.py.                                              *)

\* profile.extract_statement through _extract_for, which asks again without a
\* name for an anonymous declaration.
ExtractFor(d, p) ==
    CASE d.statement \notin Readable                -> Nothing
      [] d.statement \in Readable /\ p = "isabelle" /\ d.kind = "defn" ->
            <<d.statement, d.body>>
      [] OTHER                                      -> <<d.statement>>

\* _mask_definition_body: up to the separator, which only isabelle has.
MaskDefinitionBody(statement) == <<statement[1]>>

\* Mutant: anonymous declarations share the token that stands for a name.
DeclKeyOfToken(d, p) == <<d.kind, d.scope, d.leaf>>

\* _decl_key: kind class and qualified name, or the statement itself.
DeclKey(d, p) ==
    IF d.leaf = Anonymous /\ ExtractFor(d, p) # Nothing
    THEN <<d.kind, "anon", ExtractFor(d, p)>>
    ELSE <<d.kind, d.scope, d.leaf>>

\* _index_side: the declarations under a key.
Entries(side, key, p) == {i \in DOMAIN side : DeclKey(side[i], p) = key}

\* How often a text occurs under a key, as Counter has it.
TextCounts(side, entries) ==
    LET text(i) == <<side[i].statement, side[i].body>>
    IN  [t \in {text(i) : i \in entries} |-> Cardinality({i \in entries : text(i) = t})]

\* _base_body_is_placeholder.
BaseBodyIsPlaceholder(d) == Holes(d) > 0

\* Two declarations alone under their key whose texts differ.
CompareUnique(b, h, p) ==
    LET filling == b.kind = "defn" /\ BaseBodyIsPlaceholder(b)
        stated == <<ExtractFor(b, p), ExtractFor(h, p)>>
        compared == IF filling THEN [i \in 1..2 |-> MaskDefinitionBody(stated[i])]
                    ELSE stated
    IN  IF b.kind = "whole" \/ (b.kind = "defn" /\ ~filling) THEN "changed"
        ELSE IF Nothing \in Range(stated) THEN "undetermined"
        ELSE IF compared[1] = compared[2] THEN "unchanged" ELSE "changed"

\* The loop body of compare_declarations: text first, then the parser.
CompareKey(b, h, key, p) ==
    LET inBase == Entries(b, key, p)
        inHead == Entries(h, key, p)
    IN  CASE inHead = {} -> "changed"
          [] inHead # {} /\ TextCounts(b, inBase) = TextCounts(h, inHead) -> "unchanged"
          [] OTHER ->
                IF Cardinality(inBase) > 1 \/ Cardinality(inHead) > 1
                THEN "undetermined"
                ELSE CompareUnique(b[Max(inBase)], h[Max(inHead)], p)

\* compare_declarations: what is only in head is not looked at.
CompareDeclarations(b, h, p) ==
    LET verdicts == {CompareKey(b, h, DeclKey(b[i], p), p) : i \in DOMAIN b}
    IN  IF "undetermined" \in verdicts THEN "undetermined"
        ELSE IF "changed" \in verdicts THEN "changed" ELSE "unchanged"

-----------------------------------------------------------------------------
(* sorry_delta.py.                                                         *)

\* compare: one count for the file.
SorryCount(side) == MapThenSumSet(LAMBDA i : Holes(side[i]), DOMAIN side)
CompareSorries(b, h) ==
    IF SorryCount(h) > SorryCount(b) THEN "introduced" ELSE "clean"

\* _decl_keys: the qualified name.
CountKey(d) == <<d.scope, d.leaf>>

\* _counts, of placeholders and of declarations.
HolesUnder(side, key) ==
    MapThenSumSet(LAMBDA i : Holes(side[i]), {i \in DOMAIN side : CountKey(side[i]) = key})
DeclsUnder(side, key) == Cardinality({i \in DOMAIN side : CountKey(side[i]) = key})

\* _leaf_counts.
LeafCount(side, leaf) == Cardinality({i \in DOMAIN side : side[i].leaf = leaf})

\* Mutant: an obligation may be one that the base already had.
PermittedOld(b, h, target, children) ==
    {key \in {CountKey(h[i]) : i \in DOMAIN h} :
        /\ HolesUnder(h, key) > HolesUnder(b, key)
        /\ key[2] \in children /\ LeafCount(h, key[2]) <= 1}

\* permitted_decls: new to the file, and named by a child that names one.
Permitted(b, h, target, children) ==
    {key \in {CountKey(h[i]) : i \in DOMAIN h} :
        /\ HolesUnder(h, key) > HolesUnder(b, key)
        /\ \A i \in DOMAIN b : b[i].leaf # key[2]
        /\ key[2] \in children /\ LeafCount(h, key[2]) <= 1}

\* _is_disallowed, of a placeholder in head's declaration i: rule A on the
\* target, rule B on what rose, and no key that two declarations share.
IsDisallowed(b, h, i, target, children) ==
    LET key == CountKey(h[i])
    IN  \/ h[i].leaf = target
        \/ /\ HolesUnder(h, key) > HolesUnder(b, key)
           /\ key \notin Permitted(b, h, target, children)
        \/ DeclsUnder(h, key) > 1

\* compare_reduction, for the last segments of target and children.
CompareReduction(b, h, target, children) ==
    IF \E i \in DOMAIN h : Holes(h[i]) > 0 /\ IsDisallowed(b, h, i, target, children)
    THEN "introduced" ELSE "clean"

-----------------------------------------------------------------------------
(* style.py, with a threshold of one line.                                 *)

Threshold == 1

\* The length that a name had in base, of its last long declaration; 0 if none.
BaseLong(b, leaf) ==
    LET long == {i \in DOMAIN b : b[i].leaf = leaf /\ LinesOf(b[i]) > Threshold}
    IN  IF long = {} THEN 0 ELSE LinesOf(b[Max(long)])

\* find_long_decls and compare.
CompareStyle(b, h) ==
    IF \E i \in DOMAIN h :
        LinesOf(h[i]) > Threshold /\ LinesOf(h[i]) > BaseLong(b, h[i].leaf)
    THEN "introduced" ELSE "clean"

-----------------------------------------------------------------------------
(* changed_decls.py: what the trust report probes.                         *)

\* _extract: Lean's names are qualified, the others' are surface names.
ProbeName(d, p) == IF p = "lean4" THEN <<d.scope, d.leaf>> ELSE <<d.leaf>>

\* profile.extract_statement of a name: the first declaration in the text that
\* has it, or its last segment, of a kind that the prover's extractor knows.
StatementNamed(side, leaf, p) ==
    LET found == {i \in DOMAIN side : side[i].leaf = leaf
                                       /\ (p = "lean4" => side[i].kind # "whole")}
    IN  IF found = {} THEN Nothing ELSE ExtractFor(side[Min(found)], p)

\* _group_by_name.
NamedAlike(side, d, p) == {i \in DOMAIN side : ProbeName(side[i], p) = ProbeName(d, p)}

\* The line that a declaration starts on.
RawLine(d) == <<d.kind, d.leaf, d.statement>>

\* _is_target: new, ambiguous, or stated differently.
IsTarget(d, b, h, p) ==
    LET inBase == NamedAlike(b, d, p)
        stated == <<StatementNamed(b, d.leaf, p), StatementNamed(h, d.leaf, p)>>
    IN  \/ inBase = {}
        \/ Cardinality(inBase) > 1 \/ Cardinality(NamedAlike(h, d, p)) > 1
        \/ IF Range(stated) = {Nothing} THEN RawLine(d) # RawLine(b[Min(inBase)])
           ELSE stated[1] # stated[2]

\* detect_changed_decls, of one file: no prover resolves a nameless target.
Targets(b, h, p) ==
    {i \in DOMAIN h : h[i].leaf # Anonymous /\ IsTarget(h[i], b, h, p)}

\* Those that are probed: targets are ordered by file and line and cut to the
\* cap, of which earlier files have taken a part.
ProbeTargets(b, h, p, taken) ==
    {i \in Targets(b, h, p) :
        taken + Cardinality({j \in Targets(b, h, p) : j < i}) < Cap}

\* Whether the report says that it is cut.
Capped(b, h, p, taken) == taken + Cardinality(Targets(b, h, p)) > Cap
=============================================================================
