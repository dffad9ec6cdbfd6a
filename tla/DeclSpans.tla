------------------------------ MODULE DeclSpans ------------------------------
(***************************************************************************)
(* What the audits take for a declaration: which lines begin one, under    *)
(* which key (src/gate/provers/decl_syntax.py and the qualifiers of the    *)
(* three provers), and which lines belong to it                            *)
(* (src/gate/verify/style.py).  The lines are those that the comment       *)
(* blankers leave.                                                         *)
(*                                                                         *)
(* A file is typed line by line by an author who keeps its scopes nested   *)
(* and for whom every line has an owner; `scopes`, `header`, `paths` and   *)
(* `owners` say what the author means, which the walks over the lines are  *)
(* not told.                                                               *)
(***************************************************************************)
EXTENDS Naturals, Sequences, SequencesExt, FiniteSetsExt

CONSTANTS
    Names,       \* names of scopes
    MaxLines,    \* bound on the lines of a file
    MaxScopes    \* bound on the scopes open at once

NoName == << >>      \* no name on the line
NoPath == << >>      \* the line declares nothing
NoTarget == "none"   GlobalTarget == "-"

\* `lines` are records; `kind` is what a line's first word makes of it: "scope"
\* qualifies what it holds (namespace, Module, context, and locale, which is
\* `declared` too) and "plain" does not (section, Section, context begin);
\* "decl" declares; "command" is a command of the allowlist, "attribute" an
\* attribute alone on its line, "endword" the end of a Rocq match; the rest are
\* "close", "begin", "text", "bar" and "blank".  `begins` says that the word
\* begin is on the line, `quoted` that it starts in an open string or cartouche.
VARIABLES spanProver, lines, scopes, header, paths, owners, current

spansVars == <<spanProver, lines, scopes, header, paths, owners, current>>

-----------------------------------------------------------------------------
(* Names and keys.                                                         *)

\* normalize_decl_name: up to an attribute list, without punctuation, unless
\* nothing is left.
NormalizeDeclName(raw) ==
    LET attributes == {i \in 1..Len(raw) : raw[i] = "["}
        cut == IF attributes = {} THEN raw ELSE SubSeq(raw, 1, Min(attributes) - 1)
        named == {i \in 1..Len(cut) : cut[i] # ":"}
    IN  IF named = {} THEN raw ELSE SubSeq(cut, 1, Max(named))

\* decl_name_from: a declaration's name, on a later line if the keyword ends
\* its own; the keyword itself at the end of the file.
DeclNameFrom(ls, i) ==
    LET later == {j \in (i + 1)..Len(ls) : ls[j].kind # "blank"}
    IN  IF ls[i].name # NoName THEN NormalizeDeclName(ls[i].name)
        ELSE IF later = {} THEN <<"keyword">>
        ELSE NormalizeDeclName(ls[Min(later)].name)

\* continuation_lines_for: empty for a prover without the hook.
ContinuationLinesFor(ls, p) ==
    {i \in 1..Len(ls) : p = "isabelle" /\ ls[i].quoted}

\* decl_line_regex: the lines that it matches.
IsDecl(line) == line.kind = "decl" \/ line.declared

\* _pop_scope and _pop_innermost.
PopScope(stack, name) ==
    LET matching == {i \in 1..Len(stack) : name # NoName /\ stack[i].name = name}
    IN  CASE stack = << >>                       -> << >>
          [] stack # << >> /\ matching = {}      -> Front(stack)
          [] stack # << >> /\ matching # {}      -> RemoveAt(stack, Max(matching))

\* The names of the scopes that contribute one and have it.
Contributed(names) == SelectSeq(names, LAMBDA n : n # NoName)
Qualifiers(stack) ==
    Contributed([k \in DOMAIN stack |->
                    IF stack[k].contributes THEN stack[k].name ELSE NoName])

\* _scope_path: an inline target replaces the path.
ScopePath(stack, ls, i) ==
    LET prefix == CASE ls[i].target = NoTarget     -> Qualifiers(stack)
                    [] ls[i].target = GlobalTarget -> << >>
                    [] OTHER                       -> <<<<ls[i].target>>>>
    IN  <<prefix, DeclNameFrom(ls, i)>>

\* What an opener pushes: only lean4 keeps the name of a section.
Entry(line, p) ==
    [contributes |-> line.kind = "scope",
     name |-> IF line.kind = "scope" \/ p = "lean4" THEN line.name ELSE NoName]

NoScope == [contributes |-> FALSE, name |-> <<"none">>]

\* The scopes after a line.  An isabelle opener arms a scope that `begin`,
\* on its line or on a later one, opens.
WalkLine(state, line, p) ==
    LET opens == line.kind \in {"scope", "plain"}
        armed == IF opens THEN Entry(line, p) ELSE state.pending
    IN  IF line.kind = "close"
        THEN [stack |-> PopScope(state.stack, line.name), pending |-> NoScope]
        ELSE IF p # "isabelle"
        THEN IF opens THEN [state EXCEPT !.stack = Append(@, Entry(line, p))] ELSE state
        ELSE IF armed # NoScope /\ line.begins
        THEN [stack |-> Append(state.stack, armed), pending |-> NoScope]
        ELSE [state EXCEPT !.pending = armed]

\* qualify_decl_names of lean4, and qualify_by_scope: the key of each line that
\* starts a declaration.  A scope that is declared is keyed outside itself.
QualifyDeclNames(ls, p) ==
    LET continuation == ContinuationLinesFor(ls, p)
        after[i \in 0..Len(ls)] ==
            IF i = 0 THEN [stack |-> << >>, pending |-> NoScope]
            ELSE IF i \in continuation THEN after[i - 1]
            ELSE WalkLine(after[i - 1], ls[i], p)
    IN  [i \in {k \in 1..Len(ls) : k \notin continuation /\ IsDecl(ls[k])} |->
            ScopePath(IF ls[i].declared THEN after[i - 1].stack ELSE after[i].stack,
                      ls, i)]

-----------------------------------------------------------------------------
(* Spans.                                                                  *)

\* _iter_decl_boundaries and the starts of find_decl_spans.
DeclStarts(ls, p) ==
    {i \in 1..Len(ls) : IsDecl(ls[i]) /\ i \notin ContinuationLinesFor(ls, p)}

\* _trailer_re and _standalone_attribute_line_re: the lines that are never
\* body.  Rocq's Module is not among its commands.
IsTrailer(line, p) ==
    CASE line.kind \in {"plain", "close", "command", "endword"} -> TRUE
      [] line.kind = "scope" -> p # "rocq" /\ ~line.declared
      [] line.kind = "attribute" -> p # "isabelle"
      [] OTHER -> FALSE

\* Mutant: only what is indented deeper is body.
SpanEndIndented(ls, start, limit, p) ==
    LET ends(i) == ls[i].kind # "blank" /\ ls[i].indent <= ls[start].indent
    IN  Max({start} \cup {i \in (start + 1)..limit :
                ls[i].kind # "blank" /\ \A j \in (start + 1)..i : ~ends(j)})

\* _span_end: the last line that is not blank, before the first that is never
\* body.
SpanEnd(ls, start, limit, p) ==
    LET bodyLike(i) ==
            \/ ls[i].kind = "blank"
            \/ i \in ContinuationLinesFor(ls, p)
            \/ ls[i].indent > ls[start].indent
            \/ ls[i].kind = "bar" /\ ls[i].indent >= ls[start].indent
        ends(i) == ~bodyLike(i) /\ IsTrailer(ls[i], p)
    IN  Max({start} \cup {i \in (start + 1)..limit :
                ls[i].kind # "blank" /\ \A j \in (start + 1)..i : ~ends(j)})

\* find_decl_spans: the last line of each declaration, by its first.
FindDeclSpans(ls, p) ==
    LET starts == DeclStarts(ls, p)
        next(i) == Min({k \in starts : k > i} \cup {Len(ls) + 1})
    IN  [i \in starts |-> SpanEnd(ls, i, next(i) - 1, p)]

-----------------------------------------------------------------------------
(* The author.                                                             *)

SpansInit ==
    /\ spanProver \in {"lean4", "rocq", "isabelle"}
    /\ lines = << >> /\ scopes = << >> /\ paths = << >> /\ owners = << >>
    /\ header = NoScope    \* an isabelle scope that its begin has not opened yet
    /\ current = 0         \* the declaration that text belongs to

PlainLine(kind) ==
    [kind |-> kind, name |-> NoName, indent |-> 0, target |-> NoTarget,
     declared |-> FALSE, begins |-> FALSE, quoted |-> FALSE]

DeclName == <<"c">>    \* the one name of declarations, told apart by scopes
NameGlued == <<"c", ":">>             \* with a colon, or what is left of an
NameWithList == <<"c", "[", ":">>     \* attribute list

\* The line, the true name it declares or none, and the declaration it is of.
TypeLine(line, path, owner) ==
    /\ Len(lines) < MaxLines
    /\ lines' = Append(lines, line)
    /\ paths' = Append(paths, path)
    /\ owners' = Append(owners, owner)
    /\ current' = owner
    /\ UNCHANGED spanProver

\* The names of the scopes that qualify what is declared.
Enclosing == Qualifiers(scopes)

\* A section is not named as a scope around it, except in Lean.
OpenScope ==
    /\ Len(scopes) < MaxScopes /\ header = NoScope /\ spanProver # "isabelle"
    /\ \E n \in Names, kind \in {"scope", "plain"} :
        /\ spanProver = "rocq" => \A k \in DOMAIN scopes : scopes[k].name # <<n>>
        /\ TypeLine([PlainLine(kind) EXCEPT !.name = <<n>>], NoPath, 0)
        /\ scopes' = Append(scopes, [contributes |-> kind = "scope", name |-> <<n>>])
    /\ UNCHANGED header

\* A locale, declared with its begin or without, or a context; neither is
\* nested in another.
OpenLocale ==
    /\ spanProver = "isabelle" /\ scopes = << >>
    /\ \E n \in Names, declared, begins \in BOOLEAN :
        LET scope == [contributes |-> TRUE, name |-> <<n>>]
        IN  /\ TypeLine([PlainLine("scope") EXCEPT !.name = <<n>>, !.declared = declared,
                                               !.begins = begins],
                        IF declared THEN <<Enclosing, <<n>>>> ELSE NoPath,
                        IF declared THEN Len(lines) + 1 ELSE 0)
            /\ begins \/ declared
            /\ scopes' = IF begins THEN <<scope>> ELSE << >>
            /\ header' = IF begins THEN NoScope ELSE scope

\* The begin of a locale whose header takes several lines.
BeginLocale ==
    /\ header # NoScope /\ current # 0
    /\ TypeLine([PlainLine("begin") EXCEPT !.begins = TRUE], NoPath, current)
    /\ scopes' = <<header>>
    /\ header' = NoScope

\* An anonymous context.
OpenContext ==
    /\ spanProver = "isabelle" /\ Len(scopes) < MaxScopes
    /\ TypeLine([PlainLine("plain") EXCEPT !.begins = TRUE], NoPath, 0)
    /\ scopes' = Append(scopes, [contributes |-> FALSE, name |-> NoName])
    /\ header' = NoScope

\* Rocq names the scope it closes, Isabelle does not, Lean may.
CloseScope ==
    /\ scopes # << >>
    /\ \E named \in BOOLEAN :
        /\ spanProver = "rocq" => named
        /\ spanProver = "isabelle" => ~named
        /\ TypeLine([PlainLine("close") EXCEPT
                        !.name = IF named THEN Last(scopes).name ELSE NoName], NoPath, 0)
    /\ scopes' = Front(scopes)
    /\ header' = NoScope

\* A declaration, its name with what may be glued to it or on the next line,
\* in its place or, with an inline target, in another.
TypeDecl ==
    /\ \E surface \in {DeclName, NameGlued, NameWithList},
          target \in Names \cup {NoTarget, GlobalTarget}, indent \in 0..1 :
        /\ spanProver = "rocq" => surface = DeclName
        /\ spanProver # "isabelle" => target = NoTarget
        /\ target # NoTarget => surface = DeclName /\ indent = 0
        /\ indent = 1 => scopes # << >> /\ surface = DeclName
        /\ TypeLine([PlainLine("decl") EXCEPT !.name = surface, !.target = target,
                                          !.indent = indent],
                    <<CASE target = NoTarget     -> Enclosing
                        [] target = GlobalTarget -> << >>
                        [] OTHER                 -> <<<<target>>>>, DeclName>>,
                    Len(lines) + 1)
    /\ header' = NoScope
    /\ UNCHANGED scopes

\* A keyword alone, perhaps a blank line, and the name.
TypeSplitDecl ==
    /\ Len(lines) + 1 < MaxLines
    /\ \E gap \in BOOLEAN :
        LET name == [PlainLine("text") EXCEPT !.name = NameGlued, !.indent = 1]
            added == IF gap THEN <<PlainLine("decl"), PlainLine("blank"), name>>
                     ELSE <<PlainLine("decl"), name>>
            start == Len(lines) + 1
        IN  /\ Len(lines) + Len(added) <= MaxLines
            /\ lines' = lines \o added
            /\ paths' = paths \o [k \in DOMAIN added |->
                            IF k = 1 THEN <<Enclosing, DeclName>> ELSE NoPath]
            /\ owners' = owners \o [k \in DOMAIN added |->
                            IF added[k].kind = "blank" THEN 0 ELSE start]
            /\ current' = start
    /\ header' = NoScope
    /\ UNCHANGED <<spanProver, scopes>>

\* More of the current declaration: deeper, or a bar or the fields of a
\* structure at its own column.
TypeBody ==
    /\ current # 0
    /\ \E kind \in {"text", "bar"}, indent \in 0..1 :
        /\ indent >= lines[current].indent
        /\ kind = "bar" => indent = lines[current].indent
        /\ TypeLine([PlainLine(kind) EXCEPT !.indent = indent], NoPath, current)
    /\ UNCHANGED <<scopes, header>>

\* A line of an open string may read as anything.
TypeQuoted ==
    /\ spanProver = "isabelle" /\ current # 0
    /\ \E kind \in {"decl", "close", "plain", "command"} :
        TypeLine([PlainLine(kind) EXCEPT !.name = DeclName, !.begins = kind = "plain",
                                     !.quoted = TRUE], NoPath, current)
    /\ UNCHANGED <<scopes, header>>

\* The end of a match at the column of its definition.
TypeEndWord ==
    /\ spanProver = "rocq" /\ current # 0 /\ lines[current].indent = 0
    /\ TypeLine(PlainLine("endword"), NoPath, current)
    /\ UNCHANGED <<scopes, header>>

\* Between declarations: a command, an attribute of the next declaration, or
\* a blank line, which leaves the declaration open.
TypeCommand ==
    /\ \E kind \in {"command", "attribute"} :
        /\ kind = "attribute" => spanProver # "isabelle"
        /\ TypeLine(PlainLine(kind), NoPath, 0)
    /\ header' = NoScope
    /\ UNCHANGED scopes

TypeBlank ==
    /\ Len(lines) < MaxLines /\ current # 0
    /\ lines' = Append(lines, PlainLine("blank"))
    /\ paths' = Append(paths, NoPath)
    /\ owners' = Append(owners, 0)
    /\ UNCHANGED <<spanProver, scopes, header, current>>

SpansNext ==
    \/ OpenScope \/ OpenLocale \/ BeginLocale \/ OpenContext \/ CloseScope
    \/ TypeDecl \/ TypeSplitDecl \/ TypeBody \/ TypeQuoted \/ TypeEndWord
    \/ TypeCommand \/ TypeBlank

SpansSpec == SpansInit /\ [][SpansNext]_spansVars

-----------------------------------------------------------------------------
(* Properties.                                                             *)

\* The key of every declaration is its true qualified name, and every
\* declaration has one and nothing else has: for sections with and without
\* names, closers with and without names, locales that a later begin opens or
\* that nothing opens, inline targets, names glued to punctuation or on the
\* next line, and strings that read as commands.
KeysAreTrueNames ==
    QualifyDeclNames(lines, spanProver)
        = [i \in {k \in DOMAIN lines : paths[k] # NoPath} |-> paths[i]]

\* The two walks of a file agree on where declarations begin, so no span is
\* looked up in vain and no placeholder counted under a name of another walk
\* (sorry_delta.py:_decl_keys relies on it).
WalksAgree ==
    DOMAIN QualifyDeclNames(lines, spanProver) = DOMAIN FindDeclSpans(lines, spanProver)

\* A span leaves out nothing of its declaration, so no edit of it goes
\* uncompared, unless a line of a Rocq body begins with the word end.
SpansCoverBodies ==
    (\A k \in DOMAIN lines : lines[k].kind # "endword") =>
        LET spans == FindDeclSpans(lines, spanProver)
        IN  \A k \in DOMAIN lines :
                owners[k] # 0 => owners[k] \in DOMAIN spans /\ k <= spans[owners[k]]

\* style.py:218: "Lines matching this are *never* body".
TrailersAreNeverBody ==
    LET spans == FindDeclSpans(lines, spanProver)
    IN  \A k \in DOMAIN lines : owners[k] # 0 => k <= spans[owners[k]]

\* A span takes nothing of what is not its declaration's, so that editing the
\* one does not read as changing the other: no command, attribute or scope
\* after it.  Only a Rocq Module is taken, by the declaration before it.
SpansTakeNothingElse ==
    (spanProver = "rocq" => \A k \in DOMAIN lines : lines[k].kind # "scope") =>
        LET spans == FindDeclSpans(lines, spanProver)
        IN  \A i \in DOMAIN spans : \A k \in i..spans[i] :
                lines[k].kind = "blank" \/ owners[k] = i

\* The names of declarations and the lines of their bodies, as scanners of
\* lines find them, are those of the scopes and bodies that were written.
SpansAreTrue ==
    KeysAreTrueNames /\ WalksAgree /\ SpansCoverBodies /\ SpansTakeNothingElse
=============================================================================
