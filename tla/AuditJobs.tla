------------------------------- MODULE AuditJobs -------------------------------
(***************************************************************************)
(* One pull request and three of the jobs that audit it: sorry-delta,      *)
(* statement-immutability and comparator (src/gate/verify/*_cli.py,        *)
(* base_contents.py, comparator.py).  Each job is a process of its own: it *)
(* reads the description and the linked task when it gets there, while the *)
(* contributor may still edit the description, which restarts no workflow; *)
(* a push restarts them all, so that the commits are fixed here once the   *)
(* pull request is open.                                                   *)
(***************************************************************************)
EXTENDS FileAudits

CONSTANTS
    Projects,       \* prover, sorry policy and toolchain, as the base has them
    Descriptions,   \* what the description may say: a link and a block
    MaxCommits,     \* bound on the commits of the pull request
    MaxDescriptionEdits        \* bound on the edits of the description

VARIABLES
    project,
    tree,      \* the head: path -> [from, decls], of the paths that it has
    commits,   \* what each commit did to the names of files
    description,
    opened, descriptionEdits,
    sorryJob, immutabilityJob, comparatorJob,
    edited,    \* ghost: the description changed after a job had read it
    broke      \* ghost: the jobs that took a failing git call for an answer

jobsVars == <<project, tree, commits, description, opened, descriptionEdits,
              sorryJob, immutabilityJob, comparatorJob, edited, broke>>

Declared(leaf, body) ==
    [scope |-> "A", leaf |-> leaf, kind |-> "proof", statement |-> "s1", body |-> body]

\* The names of the declarations below are strings.
ASSUME NamesAssumption == {"A", "c", "d", "e", "f"} \subseteq STRING

\* Two source files with an open obligation each, and a file of another kind.
Paths == {"Target", "Other", "Spare", "notes"}
SourcePaths == Paths \ {"notes"}
Base == [Target |-> <<Declared("c", "hole")>>, Other |-> <<Declared("d", "hole")>>,
         notes |-> << >>]
BaseAt(path) == IF path \in DOMAIN Base THEN Base[path] ELSE << >>
HeadAt(path) == IF path \in DOMAIN tree THEN tree[path].decls ELSE << >>

\* The issues: two tasks, and one whose body does not parse.
Tasks == <<[file |-> "Target", decl |-> "c"], [file |-> "Other", decl |-> "d"]>>
Children == {"e"}
NoTask == [file |-> "nowhere", decl |-> "nothing"]

\* parse_closing_refs and parse_issue_body: the task that the description links.
LinkedTask(read) == IF read.link \in DOMAIN Tasks THEN Tasks[read.link] ELSE NoTask

-----------------------------------------------------------------------------
(* The files of the pull request, and their base versions.                 *)

\* GitHub pairs the versions of a file by name, then by content.
Renamed(path) ==
    /\ path \in DOMAIN tree /\ path \notin DOMAIN Base
    /\ tree[path].from \in DOMAIN Base \ DOMAIN tree

Paired(path) == IF Renamed(path) THEN tree[path].from ELSE path

\* fetch_pr_files: a renamed file under its new name only.
PRFiles ==
    {p \in DOMAIN tree : p \notin DOMAIN Base \/ Base[p] # tree[p].decls}
    \cup {p \in DOMAIN Base \ DOMAIN tree : \A q \in DOMAIN tree : Paired(q) # p}

\* filter_files_by_profile.
ChangedFiles == PRFiles \cap SourcePaths

\* The calls of an audit that may fail and be taken for an answer; one does.
Failures(calls) == {lost \in SUBSET (ChangedFiles \X calls) : Cardinality(lost) <= 1}

\* detect_rename: of the commits that `git log --follow` lists, the newest one
\* that gave the file its name, if it renamed it; no rename if the log fails.
DetectRename(path, lost) ==
    LET naming == {i \in DOMAIN commits : commits[i].new = path}
        last == commits[Max(naming)]
    IN  IF naming # {} /\ last.op = "rename" /\ <<path, "log">> \notin lost
        THEN last.old ELSE path

\* Mutant: a file is read in base under the name that it has in head.
BaseShowSameName(path, lost) == BaseAt(path)

\* _base_show of the immutability audit: any failure of `_exists_at` is absence.
BaseShow(path, lost) ==
    IF <<path, "base">> \in lost THEN << >> ELSE BaseAt(DetectRename(path, lost))
HeadShow(path, lost) == IF <<path, "head">> \in lost THEN << >> ELSE HeadAt(path)

-----------------------------------------------------------------------------
(* Is the submission a reduction?                                          *)

\* sorry_delta_cli._resolve_reduction.
SorryReadsReduction(read) ==
    LET task == LinkedTask(read)
    IN  task # NoTask /\ read.block = task.decl /\ task.file \in ChangedFiles

\* comparator_cli._is_reduction.
IsReduction(read) ==
    read.block = LinkedTask(read).decl /\ LinkedTask(read).file \in ChangedFiles

-----------------------------------------------------------------------------
(* The contributor.                                                        *)

Queued == [at |-> "queued", read |-> [link |-> 0, block |-> "none"], code |-> 0,
           reduction |-> FALSE]

JobsInit ==
    /\ project \in Projects
    /\ tree = [p \in DOMAIN Base |-> [from |-> p, decls |-> Base[p]]]
    /\ commits = << >>
    /\ description \in Descriptions
    /\ opened = FALSE /\ descriptionEdits = 0
    /\ sorryJob = Queued /\ immutabilityJob = Queued /\ comparatorJob = Queued
    /\ edited = FALSE /\ broke = {}

Commit(op, old, new, t) ==
    /\ ~opened /\ Len(commits) < MaxCommits
    /\ tree' = t
    /\ commits' = Append(commits, [op |-> op, old |-> old, new |-> new])
    /\ UNCHANGED <<project, description, opened, descriptionEdits, sorryJob,
                   immutabilityJob, comparatorJob, edited, broke>>

Rewrite(path, decls) == Commit("edit", path, "none", [tree EXCEPT ![path].decls = decls])

Present == DOMAIN tree \cap SourcePaths

\* A proof of its own, or one that uses the obligation "e".
Leans(d) == d.body = "long"

Prove ==
    \E p \in Present : \E i \in DOMAIN tree[p].decls, body \in {"short", "long"} :
        /\ tree[p].decls[i].body = "hole"
        /\ body = "long" => tree[p].decls[i].leaf # "e"
        /\ Rewrite(p, [tree[p].decls EXCEPT ![i].body = body])

Restate ==
    \E p \in Present : \E i \in DOMAIN tree[p].decls :
        /\ tree[p].decls[i].statement = "s1"
        /\ Rewrite(p, [tree[p].decls EXCEPT ![i].statement = "s2"])

LeanOnObligation ==
    \E p \in Present : Rewrite(p, Append(tree[p].decls, Declared("e", "hole")))

EditNotes == Rewrite("notes", <<Declared("f", "short")>>)

Without(path) == [p \in DOMAIN tree \ {path} |-> tree[p]]

With(t, path, file) == [p \in DOMAIN t \cup {path} |-> IF p = path THEN file ELSE t[p]]

Move ==
    \E p \in Present, q \in SourcePaths \ Present :
        Commit("rename", p, q, With(Without(p), q, tree[p]))

Copy ==
    \E p \in Present, q \in SourcePaths \ Present :
        Commit("copy", p, q, With(tree, q, tree[p]))

DeleteFile == \E p \in Present : Commit("delete", p, "none", Without(p))

OpenPullRequest ==
    /\ ~opened /\ commits # << >>
    /\ opened' = TRUE
    /\ UNCHANGED <<project, tree, commits, description, descriptionEdits, sorryJob,
                   immutabilityJob, comparatorJob, edited, broke>>

EditDescription ==
    /\ opened /\ descriptionEdits < MaxDescriptionEdits
    /\ description' \in Descriptions \ {description}
    /\ descriptionEdits' = descriptionEdits + 1
    /\ edited' = (edited \/ sorryJob.at # "queued" \/ comparatorJob.at # "queued")
    /\ UNCHANGED <<project, tree, commits, opened, sorryJob, immutabilityJob,
                   comparatorJob, broke>>

-----------------------------------------------------------------------------
(* The jobs.  A step stands for calls between which nothing that the job   *)
(* reads can change; every call to GitHub may fail.                        *)

JobStep == opened /\ UNCHANGED <<project, tree, commits, description, opened,
                                 descriptionEdits, edited>>

Done(job, code) == [job EXCEPT !.at = "done", !.code = code]

\* sorry_delta_cli.main until the contract is known.
SorryReads ==
    /\ JobStep /\ sorryJob.at = "queued"
    /\ \/ sorryJob' = [sorryJob EXCEPT !.at = "audit", !.read = description,
                                      !.reduction = SorryReadsReduction(description)]
       \/ sorryJob' = Done(sorryJob, 2)
    /\ UNCHANGED <<immutabilityJob, comparatorJob, broke>>

\* The verdict on one file.
SorryVerdict(path, b, h) ==
    LET task == LinkedTask(sorryJob.read)
    IN  IF sorryJob.reduction /\ path = task.file
        THEN CompareReduction(b, h, task.decl, Children)
        ELSE CompareSorries(b, h)

\* The loop of main and exit_code_for.  _show takes a failure for absence.
SorryAudits ==
    /\ JobStep /\ sorryJob.at = "audit"
    /\ \E lost \in Failures({"base", "head"}) :
        /\ broke' = IF lost = {} THEN broke ELSE broke \cup {"sorry-delta"}
        /\ LET text(p, side, t) == IF <<p, side>> \in lost THEN << >> ELSE t
               introduced == {p \in ChangedFiles :
                    SorryVerdict(p, text(p, "base", BaseAt(p)), text(p, "head", HeadAt(p)))
                        = "introduced"}
           IN  sorryJob' = Done(sorryJob,
                    IF introduced # {} /\ project.policy = "block" THEN 1 ELSE 0)
    /\ UNCHANGED <<immutabilityJob, comparatorJob>>

\* statement_immutability_cli.main: a failing `git show` ends the job, a failing
\* `git log` or `git cat-file -e` does not.
ImmutabilityAudits ==
    /\ JobStep /\ immutabilityJob.at = "queued"
    /\ \/ \E lost \in Failures({"log", "base", "head"}) :
            /\ broke' = IF lost = {} THEN broke
                        ELSE broke \cup {"statement-immutability"}
            /\ LET verdicts == {CompareDeclarations(BaseShow(p, lost), HeadShow(p, lost),
                                                    project.prover) : p \in ChangedFiles}
               IN  immutabilityJob' = Done(immutabilityJob,
                        IF verdicts \subseteq {"unchanged"} THEN 0 ELSE 1)
       \/ immutabilityJob' = Done(immutabilityJob, 2) /\ UNCHANGED broke
    /\ UNCHANGED <<sorryJob, comparatorJob>>

\* comparator_cli.main until the workspace: _resolve_pr_target, the gates of
\* _applicability_reason, and the whitelist.
ComparatorReads ==
    /\ JobStep /\ comparatorJob.at = "queued"
    /\ LET task == LinkedTask(description)
           applies == /\ task # NoTask /\ project.prover = "lean4"
                      /\ project.toolchain = "current"
                      /\ task.file \in DOMAIN Base
       IN  \/ /\ applies
              /\ comparatorJob' = [comparatorJob EXCEPT !.at = "run", !.read = description,
                                      !.reduction = IsReduction(description)]
           \/ ~applies /\ comparatorJob' = Done(comparatorJob, 0)
           \/ comparatorJob' = Done(comparatorJob, 2)
    /\ UNCHANGED <<sorryJob, immutabilityJob, broke>>

\* permitted_axioms, beyond the core.
SorryPermitted == comparatorJob.reduction \/ project.policy = "report"

\* A file in which something uses an obligation that is not there does not
\* build.
Builds(side) ==
    \A i \in DOMAIN side : Leans(side[i]) => \E j \in DOMAIN side : side[j].leaf = "e"

\* Whether the axioms of the declarations of one name include sorryAx: by a
\* placeholder of their own, or of the obligation that they use.
RestsOnSorry(side, leaf) ==
    \E i \in DOMAIN side :
        /\ side[i].leaf = leaf
        /\ \/ Holes(side[i]) > 0
           \/ /\ Leans(side[i])
              /\ \E j \in DOMAIN side : side[j].leaf = "e" /\ Holes(side[j]) > 0

\* What the comparator finds of theorem_names = [target_decl]: the workspace
\* holds base's declarations on one side and the head tree on the other, whose
\* root imports the target's file.
Finding ==
    LET task == LinkedTask(comparatorJob.read)
        stated(side) == {side[i].statement : i \in {j \in DOMAIN side : side[j].leaf = task.decl}}
        h == HeadAt(task.file)
        built == task.file \in DOMAIN tree /\ Builds(h)
    IN  CASE ~built -> "build"
          [] built /\ stated(h) = {} -> "missing"
          [] built /\ stated(h) # {} /\ stated(h) # stated(BaseAt(task.file)) -> "mismatch"
          [] built /\ stated(h) = stated(BaseAt(task.file)) /\ ~SorryPermitted
             /\ RestsOnSorry(h, task.decl) -> "axiom"
          [] OTHER -> "match"

\* _FAILURE_PATTERNS, in order.
FailurePatterns == <<"mismatch", "axiom", "missing", "sandbox", "build">>

\* classify_output, of the failure lines in the transcript of a failed run.
ClassifyOutput(lines) ==
    LET found == {i \in DOMAIN FailurePatterns : FailurePatterns[i] \in lines}
    IN  IF found = {} THEN "tool" ELSE FailurePatterns[Min(found)]

\* _report_outcome.
ExitCode(outcome) ==
    CASE outcome \in {"mismatch", "axiom", "build"}   -> 1
      [] outcome \in {"sandbox", "tool", "missing"}   -> 2
      [] OTHER                                        -> 0

\* materialize_workspace and run_comparator: the run renders its finding, with
\* or without a build that failed before, or it breaks.
ComparatorRuns ==
    /\ JobStep /\ comparatorJob.at = "run"
    /\ \/ Finding = "match" /\ comparatorJob' = Done(comparatorJob, 0)
       \/ /\ Finding # "match"
          /\ \E chatter \in SUBSET {"build"} :
                comparatorJob' = Done(comparatorJob,
                                      ExitCode(ClassifyOutput({Finding} \cup chatter)))
       \/ \E lines \in SUBSET {"sandbox", "build"} :
            comparatorJob' = Done(comparatorJob, ExitCode(ClassifyOutput(lines)))
    /\ UNCHANGED <<sorryJob, immutabilityJob, broke>>

JobsNext ==
    \/ Prove \/ Restate \/ LeanOnObligation \/ EditNotes \/ Move \/ Copy \/ DeleteFile
    \/ OpenPullRequest \/ EditDescription
    \/ SorryReads \/ SorryAudits \/ ImmutabilityAudits
    \/ ComparatorReads \/ ComparatorRuns

JobsSpec == JobsInit /\ [][JobsNext]_jobsVars

-----------------------------------------------------------------------------
(* Properties.                                                             *)

Answered(job, code) == job.at = "done" /\ job.code = code
ComparatorRan == comparatorJob.read # Queued.read

\* sorry_delta_cli: the comparator "requires the same of the same submission":
\* where nobody edits the description between their reads, the two jobs read
\* it alike, and neither relaxes what the other holds to the strict contract.
JobsAgreeUnlessEdited ==
    (sorryJob.at # "queued" /\ sorryJob.code # 2 /\ ComparatorRan /\ ~edited) =>
        sorryJob.reduction = comparatorJob.reduction

\* comparator_cli.py: "the two agree on whether a submission is a reduction, and
\* no submission can hold this audit's `sorryAx` relaxation while being read as
\* an ordinary proof there".
NoRelaxationAlone ==
    comparatorJob.reduction /\ sorryJob.read # Queued.read => sorryJob.reduction

\* On a project of the default policy, three green jobs on an unedited
\* description mean that the linked task's target is in its file, as base states
\* it, and proved; and that what it uses is proved too, or, of a reduction, that
\* each placeholder of the file is an obligation that a block for this target
\* declares.  An ordinary file may have other placeholders, as many as in base.
GreenMeansProved ==
    (/\ \A job \in {sorryJob, immutabilityJob, comparatorJob} : Answered(job, 0)
     /\ ComparatorRan /\ project.policy = "block" /\ ~edited /\ broke = {}) =>
        LET task == LinkedTask(comparatorJob.read)
            h == HeadAt(task.file)
        IN  /\ \E i \in DOMAIN h :
                h[i].leaf = task.decl /\ h[i].statement = "s1" /\ h[i].body # "hole"
            /\ \/ ~RestsOnSorry(h, task.decl)
               \/ /\ comparatorJob.read.block = task.decl
                  /\ \A i \in DOMAIN h : h[i].body = "hole" => h[i].leaf \in Children

\* Outside the file of a declared reduction, a green sorry-delta job means that
\* no file of the pull request has more placeholders than base's file of its
\* name, unless a failing `git show` was taken for an empty file.
NoNewPlaceholdersElsewhere ==
    (Answered(sorryJob, 0) /\ project.policy = "block" /\ "sorry-delta" \notin broke) =>
        \A p \in ChangedFiles :
            \/ SorryCount(HeadAt(p)) <= SorryCount(BaseAt(p))
            \/ sorryJob.reduction /\ p = LinkedTask(sorryJob.read).file

\* A file is named anew at most once in the pull request, and by a rename.
MovedOnce ==
    \A i \in DOMAIN commits : commits[i].op # "copy" /\ \A j \in DOMAIN commits :
        i # j => {commits[i].op, commits[j].op} # {"rename"}

\* A green immutability job means that every declaration of every base file
\* that the pull request changes, moves or removes is in the file's head
\* version with its statement, where files are moved at most once and no failing
\* `git log` or `git cat-file -e` was taken for an answer.
NothingIsRestated ==
    (/\ Answered(immutabilityJob, 0) /\ MovedOnce
     /\ "statement-immutability" \notin broke) =>
        \A p \in ChangedFiles : \A i \in DOMAIN BaseAt(Paired(p)) :
            \E j \in DOMAIN HeadAt(p) :
                /\ HeadAt(p)[j].leaf = BaseAt(Paired(p))[i].leaf
                /\ HeadAt(p)[j].statement = BaseAt(Paired(p))[i].statement

\* What the jobs of a pull request say together: of a reduction they say the same,
\* three of them green mean that the target is proved, and what is green alone has
\* added no placeholder elsewhere and restated nothing.
JobsVouch ==
    /\ JobsAgreeUnlessEdited /\ GreenMeansProved
    /\ NoNewPlaceholdersElsewhere /\ NothingIsRestated

-----------------------------------------------------------------------------
(* What is said of the jobs and does not hold of them.                     *)

\* statement_immutability_cli.py, of renames: "`detect_rename` resolves the
\* pre-rename path for every changed file".
RenamesAreFollowed ==
    opened => \A p \in ChangedFiles \cap DOMAIN tree :
                  BaseShow(p, {}) = BaseAt(Paired(p))

\* statement_immutability_cli.py, of `_exists_at`: "an external failure that must
\* not read as a clean pass".
FailuresAreNoPasses ==
    Answered(immutabilityJob, 0) => "statement-immutability" \notin broke
=============================================================================
