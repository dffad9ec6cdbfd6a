------------------------------ MODULE TaskBodies ------------------------------
(***************************************************************************)
(* The two texts that people write and programs read: the body of a task's *)
(* issue, with its front matter (src/orchestrator/tasks/serialize.py,      *)
(* src/gate/state/intake.py, task_record.py), and the description of a     *)
(* pull request, with its reduction block (reduction_record.py).  A text   *)
(* is a sequence of lines; a line of YAML is a <<key, value>>.  Both are   *)
(* written by a program or from a template, and then edited by hand.       *)
(***************************************************************************)
EXTENDS Naturals, Sequences, SequencesExt, FiniteSetsExt

CONSTANTS
    TaskDrafts,     \* what a maintainer asks for: key -> value
    Proses,         \* what is written below
    BodyLines,      \* the lines that an edit of an issue may insert
    BlockLines,     \* and an edit of a description
    MaxLineEdits    \* bound on the edits

\* What is asked for is a task of this project, of the current version and in a
\* file of its prover.
ASSUME DraftsAreOwn ==
    \A draft \in TaskDrafts :
        /\ \A key \in DOMAIN draft : key \in STRING /\ draft[key] \in STRING \ {"quote opens"}
        /\ draft["version"] = "1" /\ draft["project_ref"] = "here"
        /\ draft["target_file"] # "P.v"

ASSUME LinesAreWords ==
    /\ BodyLines \cup BlockLines \subseteq Seq(STRING)
    /\ Proses \subseteq Seq(Seq(STRING))

VARIABLES
    task, issueBody,   \* the record that the body was written from, the body
    front,             \* ghost: the lines of its front matter, with the fences
    untouched,         \* ghost: no edit was made between the fences
    prBody,            \* the description of a pull request
    lineEdits

bodyVars == <<task, issueBody, front, untouched, prBody, lineEdits>>

Blank == <<"">>
Fence == <<"---">>
CommentOpens == <<"<!--">>
CommentCloses == <<"-->">>
Prose == <<"prose">>
IsField(line) == Len(line) = 2

-----------------------------------------------------------------------------
(* task_record.py.                                                         *)

FieldOrder == <<"version", "type", "target_file", "target_decl", "project_ref", "deps",
                "blueprint_ref">>
Fields == Range(FieldOrder)
Required == {"version", "type", "project_ref", "deps"}

\* _normalize_target_file takes one "./" away.
Normalized(key, value) ==
    CASE key = "target_file" /\ value = "././P.lean" -> "./P.lean"
      [] key = "target_file" /\ value = "./P.lean"   -> "P.lean"
      [] OTHER -> value

\* The validators and _PYDANTIC_CODE_MAP; an optional field may be null.
FieldFault(key, value) ==
    CASE key \notin Fields -> "unknown_field"
      [] key = "type" /\ value \notin {"prove", "golf", "index"} -> "invalid_value"
      [] key \in Fields \ {"type"} /\ value = "wrong type" -> "type_mismatch"
      [] key \in Required \ {"type"} /\ value = "null" -> "type_mismatch"
      [] key = "target_file" /\ value \in {"", "/P.lean", "../P.lean"} -> "invalid_value"
      [] key \in {"target_decl", "project_ref"} /\ value = "ill-formed" -> "invalid_value"
      [] key = "deps" /\ value = "0" -> "invalid_value"
      [] OTHER -> "none"

NoRecord == [k \in Fields |-> "null"]
Given(data) == {k \in DOMAIN data : data[k] # "null"}

\* TaskRecord.model_validate and _translate_validation_errors: every field is
\* looked at, and the target when the fields are sound.
ValidationErrors(data) ==
    LET missing == {<<"missing_field", k>> : k \in Required \ DOMAIN data}
        fault(k) == FieldFault(k, Normalized(k, data[k]))
        faulty == {k \in DOMAIN data : fault(k) # "none"}
        errors == missing \cup {<<fault(k), k>> : k \in faulty}
    IN  IF errors = {} /\ ~{"target_file", "target_decl"} \subseteq Given(data)
        THEN {<<"invalid_value", "target">>} ELSE errors

TaskRecord(data) ==
    [k \in Fields |-> IF k \in DOMAIN data THEN Normalized(k, data[k]) ELSE "null"]

-----------------------------------------------------------------------------
(* serialize.py.                                                           *)

\* What safe_dump writes: a value of several lines is quoted, each of its lines
\* a line of its own.
DumpedField(key, value) ==
    CASE value = "null"    -> << >>
      [] value = "a rule"  -> << <<key, "quote opens">>, Fence, <<"quote closes">> >>
      [] OTHER             -> << <<key, value>> >>

Dumped(record) ==
    FlattenSeq([i \in DOMAIN FieldOrder |->
                    DumpedField(FieldOrder[i], record[FieldOrder[i]])])

TaskToBody(record, prose) ==
    <<Fence>> \o Dumped(record) \o <<Fence>>
    \o (IF prose = << >> THEN << >> ELSE <<Blank>> \o prose)

-----------------------------------------------------------------------------
(* intake.py.                                                              *)

\* The first of the positions, or the one past the end.
FirstOf(text, positions) == Min(positions \cup {Len(text) + 1})
\* lstrip, of lines.
WithoutBlanks(text) ==
    LET first == FirstOf(text, {i \in DOMAIN text : text[i] # Blank})
    IN  SubSeq(text, first, Len(text))

\* Mutant: comments before the front matter are content.
FirstContentBlanksOnly(text) == FirstOf(text, {i \in DOMAIN text : text[i] # Blank})

\* Past blank lines and comments, each to the line that closes it.
FirstContent(text) ==
    LET closing(i) == FirstOf(text, {j \in i..Len(text) : text[j] = CommentCloses})
        from[i \in 1..(Len(text) + 2)] ==
            IF i > Len(text) THEN Len(text) + 1
            ELSE CASE text[i] = Blank        -> from[i + 1]
                   [] text[i] = CommentOpens -> from[closing(i) + 1]
                   [] OTHER                  -> i
    IN  from[1]

\* _extract_frontmatter.
ExtractFrontmatter(text) ==
    LET opening == FirstContent(text)
        closing == FirstOf(text, {j \in (opening + 1)..Len(text) : text[j] = Fence})
    IN  [error |-> IF opening > Len(text) \/ text[opening] # Fence THEN "no_frontmatter"
                   ELSE IF closing > Len(text) THEN "unterminated_frontmatter"
                   ELSE "none",
         yaml |-> SubSeq(text, opening + 1, closing - 1),
         prose |-> WithoutBlanks(SubSeq(text, closing + 1, Len(text)))]

\* yaml.safe_load gives a mapping, in which the last of equal keys counts.
IsMapping(yaml) ==
    /\ \E i \in DOMAIN yaml : IsField(yaml[i])
    /\ \A i \in DOMAIN yaml : yaml[i] = Blank \/ IsField(yaml[i])
    /\ \A i \in DOMAIN yaml : IsField(yaml[i]) => yaml[i][2] # "quote opens"
Mapping(yaml) ==
    LET of(k) == {i \in DOMAIN yaml : IsField(yaml[i]) /\ yaml[i][1] = k}
        keys == {yaml[i][1] : i \in {j \in DOMAIN yaml : IsField(yaml[j])}}
    IN  [k \in keys |-> yaml[Max(of(k))][2]]

\* The gates before the record: what cannot be read further is one error.
VersionErrors(data) ==
    IF "version" \notin Given(data) THEN {<<"missing_field", "version">>}
    ELSE CASE data["version"] = "wrong type" -> {<<"type_mismatch", "version">>}
           [] data["version"] = "1"          -> {}
           [] OTHER                          -> {<<"unknown_version", "version">>}

\* What the record says against the project that reads it.
ProjectErrors(record) ==
    (IF record["project_ref"] = "here" THEN {} ELSE {<<"repo_mismatch", "project_ref">>})
    \cup (IF record["target_file"] = "P.v"
          THEN {<<"target_file_extension", "target_file">>} ELSE {})

\* parse_issue_body, as intake calls it.
ParseIssueBody(text) ==
    LET extracted == ExtractFrontmatter(text)
        data == Mapping(extracted.yaml)
        errors ==
            CASE extracted.error # "none" -> {<<extracted.error, "">>}
              [] extracted.error = "none" /\ ~IsMapping(extracted.yaml) ->
                    {<<"invalid_yaml", "">>}
              [] OTHER -> IF VersionErrors(data) # {} THEN VersionErrors(data)
                          ELSE IF ValidationErrors(data) # {} THEN ValidationErrors(data)
                          ELSE ProjectErrors(TaskRecord(data))
    IN  [errors |-> errors,
         record |-> IF errors = {} THEN TaskRecord(data) ELSE NoRecord,
         prose |-> IF errors = {} THEN extracted.prose ELSE << >>]

-----------------------------------------------------------------------------
(* reduction_record.py.                                                    *)

Opener(indent) == <<"opener", "", indent>>
Closer(indent) == <<"closer", "", indent>>
NoBlock == <<"none">>
BadBlock == <<"error">>
IsOpener(line) == line[1] = "opener"

\* _BLOCK_RE: from the first opener with a closer at its indentation below it
\* to the nearest of these; with _OPENER_RE, which tells an unclosed block from
\* none.
ParseReductionBlock(text) ==
    LET openers == {i \in DOMAIN text : IsOpener(text[i])}
        closers(i) == {j \in (i + 1)..Len(text) : text[j] = Closer(text[i][3])}
        closed == {i \in openers : closers(i) # {}}
        first == Min(closed)
        yaml == SubSeq(text, first + 1, Min(closers(first)) - 1)
        data == Mapping(yaml)
    IN  IF closed = {} THEN IF openers = {} THEN NoBlock ELSE BadBlock
        ELSE IF /\ IsMapping(yaml)
                /\ DOMAIN data = {"reduction-version", "parent", "children"}
                /\ data["reduction-version"] = "1"
                /\ data["parent"] # "ill-formed"
                /\ data["children"] \notin {"none", "ill-formed"}
        THEN <<data["parent"], data["children"]>> ELSE BadBlock

-----------------------------------------------------------------------------
(* Writing and editing.                                                    *)

\* A template's block, at an indentation, for parent c and children e.
Template(indent) ==
    <<Prose, Opener(indent), <<"reduction-version", "1">>, <<"parent", "c">>,
      <<"children", "e">>, Closer(indent)>>

BodiesInit ==
    /\ task \in {TaskRecord(d) : d \in {x \in TaskDrafts : ValidationErrors(x) = {}}}
    /\ \E prose \in Proses : issueBody = TaskToBody(task, prose)
    /\ front = <<1, Len(Dumped(task)) + 2>>
    /\ untouched = TRUE
    /\ prBody \in {Template("0"), Template("4")}
    /\ lineEdits = 0

LineEdit == lineEdits < MaxLineEdits /\ lineEdits' = lineEdits + 1

\* GitHub's issue template puts its comment first; people leave blank lines.
Prepend ==
    /\ LineEdit
    /\ \E lines \in {<<Blank>>, <<CommentOpens, Prose, CommentCloses>>,
                     <<CommentOpens, Fence, CommentCloses, Blank>>} :
        /\ issueBody' = lines \o issueBody
        /\ front' = <<front[1] + Len(lines), front[2] + Len(lines)>>
    /\ UNCHANGED <<task, untouched, prBody>>

InsertLine ==
    /\ LineEdit
    /\ \E at \in 2..(Len(issueBody) + 1), line \in BodyLines :
        /\ issueBody' = InsertAt(issueBody, at, line)
        /\ untouched' = (untouched /\ at > front[2])
    /\ UNCHANGED <<task, front, prBody>>

RemoveLine ==
    /\ LineEdit
    /\ \E at \in DOMAIN issueBody :
        /\ issueBody' = RemoveAt(issueBody, at)
        /\ untouched' = (untouched /\ at > front[2])
    /\ UNCHANGED <<task, front, prBody>>

EditDescription ==
    /\ LineEdit
    /\ \/ \E at \in 1..(Len(prBody) + 1), line \in BlockLines :
            prBody' = InsertAt(prBody, at, line)
       \/ \E at \in DOMAIN prBody : prBody' = RemoveAt(prBody, at)
    /\ UNCHANGED <<task, issueBody, front, untouched>>

BodiesNext == Prepend \/ InsertLine \/ RemoveLine \/ EditDescription

BodiesSpec == BodiesInit /\ [][BodiesNext]_bodyVars

-----------------------------------------------------------------------------
(* Properties.                                                             *)

\* A record whose values are of one line, and whose file needs no second
\* normalisation.
Plain(record) ==
    (\A k \in Fields : record[k] # "a rule") /\ record["target_file"] # "./P.lean"

\* serialize.py: "every issue created via `task_to_body` validates cleanly", and
\* goes on to do so, as the same record, whatever is then written above the
\* front matter or below it, rules and comments included.
OnlyTheFrontMatterSpeaks ==
    untouched /\ Plain(task) =>
        LET parsed == ParseIssueBody(issueBody)
        IN  /\ parsed.errors = {} /\ parsed.record = task
            /\ parsed.prose = WithoutBlanks(SubSeq(issueBody, front[2] + 1, Len(issueBody)))

\* However a body came about, one that intake accepts is a task that a worker
\* can be given, and writing its record anew gives a body that reads the same.
AcceptedBodiesAreTasks ==
    LET parsed == ParseIssueBody(issueBody)
    IN  parsed.errors = {} =>
            /\ {"target_file", "target_decl"} \subseteq Given(parsed.record)
            /\ Plain(parsed.record) =>
                ParseIssueBody(TaskToBody(parsed.record, parsed.prose)) = parsed

\* Whatever the description holds, a reduction is read from the lines between
\* two fences of one indentation, all of which are its fields; a description in
\* which a block is opened is never taken for an ordinary proof's.
BlocksAreWhole ==
    LET read == ParseReductionBlock(prBody)
    IN  IF read \in {NoBlock, BadBlock}
        THEN (read = NoBlock) = (\A i \in DOMAIN prBody : ~IsOpener(prBody[i]))
        ELSE \E i, j \in DOMAIN prBody :
                /\ IsOpener(prBody[i]) /\ prBody[j] = Closer(prBody[i][3])
                /\ \A k \in (i + 1)..(j - 1) : IsField(prBody[k]) \/ prBody[k] = Blank
                /\ \E k \in (i + 1)..(j - 1) : prBody[k] = <<"parent", read[1]>>
                /\ \E k \in (i + 1)..(j - 1) : prBody[k] = <<"children", read[2]>>

\* Front matter and blocks are read where they were written, and accepted bodies
\* are tasks.
BodiesReadBack ==
    OnlyTheFrontMatterSpeaks /\ AcceptedBodiesAreTasks /\ BlocksAreWhole
===============================================================================
