----------------------------- MODULE GatePolicies -----------------------------
(***************************************************************************)
(* By which policy a pull request is judged: the files .choir/verify.toml  *)
(* and .choir/project.toml (src/gate/verify/config.py, provers/select.py,  *)
(* verify/prover_dispatch.py) and the four audits that take from them what *)
(* they look at and what they allow: axiom honesty, decidability, style    *)
(* and statement equivalence (src/gate/verify/*_cli.py).  The contributor  *)
(* may edit both files in the pull request; the maintainers may change     *)
(* them on the protected branch while it is open; either may get one of    *)
(* them wrong.  A push restarts the audits, a change of the branch does    *)
(* not.  Any call may fail, and a `git show` that does is swallowed.       *)
(***************************************************************************)
EXTENDS Naturals, Sequences

CONSTANTS
    Policies,      \* [verify, project]: the two files, as somebody leaves them
    MaxPushes,     \* bound on the pushes
    MaxMerges      \* bound on the changes of the branch

VARIABLES
    audit,         \* the audit of this behaviour: they share nothing
    linked,        \* the description links a task
    branch,        \* the policies that the protected branch has had, in order
    own, work,     \* the head: its policies, and what it adds to Lean files
    pushes,
    since,         \* ghost: the branch's policy when the head was pushed
    unread,        \* ghost: the sides of which the audit could read no file
    exit           \* what the audit has exited with, 9 if it has not

policyVars == <<audit, linked, branch, own, work, pushes, since, unread, exit>>

Audits == {"axiom", "decide", "style", "equiv"}
Running == 9

-----------------------------------------------------------------------------
(* config.py: a file is absent, no TOML, or has a value per section, which  *)
(* may be none of those that the section knows.                             *)

Absent == [there |-> FALSE, toml |-> TRUE, axiom |-> "default", style |-> "default"]
Defaults == [axiom |-> "net_zero", style |-> "200"]

\* parse_verify_config raises: one value that is not known spoils the file.
Malformed(file) ==
    \/ ~file.toml
    \/ file.axiom \notin {"default", "net_zero", "whitelist"}
    \/ file.style \notin {"default", "50"}

\* parse_verify_config: what a section leaves out is the default.
ParseVerifyConfig(file) ==
    [section \in DOMAIN Defaults |->
        IF file[section] = "default" THEN Defaults[section] ELSE file[section]]

\* load_verify_config_at_sha: absent, unreadable and unshown are the defaults.
LoadVerifyConfig(policy, shown) ==
    IF ~shown \/ ~policy.verify.there \/ Malformed(policy.verify)
    THEN Defaults ELSE ParseVerifyConfig(policy.verify)

-----------------------------------------------------------------------------
(* select.py and prover_dispatch.py.                                       *)

Provers == {"lean4", "isabelle", "rocq"}

\* read_prover_at_sha, parse_prover: absent and unshown are Lean, and what
\* cannot be read is refused.
ReadProver(policy, shown) ==
    CASE ~shown \/ policy.project = "absent" -> "lean4"
      [] shown /\ policy.project \in Provers -> policy.project
      [] OTHER -> "error"

-----------------------------------------------------------------------------
(* The audits, on the policy at the base of the pull request.  `shown` says *)
(* which calls of `git show` succeed: of the two policy files and, on each  *)
(* side, of the Lean files that the pull request changes.                   *)

\* What these files hold before the pull request.
Old == {"old_axiom", "old_instance"}

\* _show: a file that git does not show is empty.
BaseText(shown) == IF shown["base"] THEN Old ELSE {}
HeadText(shown) == IF shown["head"] THEN Old \cup work ELSE {}

\* What an audit finds new in the files of a prover, filter_files_by_profile.
FoundNew(prover, shown) ==
    IF prover = "lean4" THEN HeadText(shown) \ BaseText(shown) ELSE {}

\* axiom_honesty.compare, of what is new.  The old axiom is on the whitelist
\* too: one that is not is reported under a whitelist though base has it.
NewAxioms(policy, found) ==
    found \cap ({"axiom"} \cup (IF policy = "whitelist" THEN {}
                                ELSE {"allowed_axiom", "old_axiom"}))

\* main of axiom_honesty_cli.
AxiomMain(policy, shown) ==
    LET prover == ReadProver(policy, shown["project"])
        config == LoadVerifyConfig(policy, shown["verify"])
    IN  IF prover = "error" THEN 2
        ELSE IF NewAxioms(config.axiom, FoundNew(prover, shown)) # {} THEN 1 ELSE 0

\* main of decide_instance_cli: an audit of Lean alone.
DecideMain(policy, shown) ==
    LET prover == ReadProver(policy, shown["project"])
    IN  IF prover = "error" THEN 2
        ELSE IF FoundNew(prover, shown) \cap {"instance", "old_instance"} # {}
             THEN 1 ELSE 0

\* main of style_cli: what is long is printed, and no more.
StyleMain(policy, shown) ==
    IF ReadProver(policy, shown["project"]) = "error" THEN 2 ELSE 0

\* statement_equiv.compare, in the syntax of a prover: a statement is read in
\* base and in head, or the comparison is undetermined.
CompareStatements(prover, shown) ==
    LET inBase == prover = "lean4" /\ shown["base"]
        inHead == prover = "lean4" /\ shown["head"] /\ "target_removed" \notin work
    IN  CASE ~inBase \/ ~inHead -> "undetermined"
          [] inBase /\ inHead /\ "restated" \in work -> "changed"
          [] OTHER -> "equivalent"

\* main of statement_equiv_cli: without a task there is nothing to compare; a
\* prover that cannot be read is raised, and Python's own exit is 1.
EquivMain(policy, shown) ==
    LET prover == ReadProver(policy, shown["project"])
    IN  IF ~linked THEN 0
        ELSE IF prover = "error" \/ CompareStatements(prover, shown) = "changed"
             THEN 1 ELSE 0

Main(policy, shown) ==
    CASE audit = "axiom"  -> AxiomMain(policy, shown)
      [] audit = "decide" -> DecideMain(policy, shown)
      [] audit = "style"  -> StyleMain(policy, shown)
      [] audit = "equiv"  -> EquivMain(policy, shown)

-----------------------------------------------------------------------------
PoliciesInit ==
    /\ audit \in Audits /\ linked \in BOOLEAN
    /\ \E policy \in Policies : branch = <<policy>> /\ own = policy
    /\ work = {}
    /\ pushes = 0 /\ since = 1
    /\ unread = {} /\ exit = Running

\* A new head is audited anew.
Pushed ==
    /\ pushes < MaxPushes /\ pushes' = pushes + 1
    /\ since' = Len(branch)
    /\ unread' = {} /\ exit' = Running
    /\ UNCHANGED <<audit, linked, branch>>

Adds ==
    /\ Pushed
    /\ \E x \in {"axiom", "allowed_axiom", "instance", "restated", "target_removed"} :
        work' = work \cup {x}
    /\ UNCHANGED own

EditsPolicy ==
    /\ Pushed
    /\ own' \in Policies \ {own}
    /\ UNCHANGED work

Maintain ==
    /\ Len(branch) <= MaxMerges
    /\ \E policy \in Policies \ {branch[Len(branch)]} : branch' = Append(branch, policy)
    /\ UNCHANGED <<audit, linked, own, work, pushes, since, unread, exit>>

\* Mutant: the policy is read from the head.
PolicyOfTheHead == own

\* fetch_pr_files, fetch_pr_metadata: the base is the branch as it is now.
PolicyAtBase == branch[Len(branch)]

Sides == {"base", "head"}
Shown == [{"verify", "project"} \cup Sides -> BOOLEAN]
Unread(shown) == {side \in Sides : ~shown[side]}

\* The audit runs.  A call of GitHub's that fails ends it with 2; a `git show`
\* that fails reads as a file that is not there.
Runs ==
    /\ exit = Running
    /\ \/ \E shown \in Shown :
            exit' = Main(PolicyAtBase, shown) /\ unread' = Unread(shown)
       \/ exit' = 2 /\ UNCHANGED unread
    /\ UNCHANGED <<audit, linked, branch, own, work, pushes, since>>

PoliciesNext == Adds \/ EditsPolicy \/ Maintain \/ Runs

PoliciesSpec == PoliciesInit /\ [][PoliciesNext]_policyVars

-----------------------------------------------------------------------------
(* Properties.                                                             *)

\* The policies of the branch since the head was pushed.  A whitelist counts
\* where every section of its file is sound.
InForce == {branch[i] : i \in since..Len(branch)}
IsLean(policy) == policy.project \notin {"isabelle", "rocq"}
Allows(policy) ==
    /\ policy.verify.there /\ ~Malformed(policy.verify)
    /\ policy.verify.axiom = "whitelist"

\* config.py: "A contributor can't loosen the audit policy in their own PR", nor
\* does a mistake in a policy file or a policy file that git does not show: an
\* audit that passes a pull request on a Lean project, and could read its files,
\* found nothing that the branch, as it was at some moment since the push, does
\* not allow.
NothingIsLetThrough ==
    (exit = 0 /\ "head" \notin unread /\ \A policy \in InForce : IsLean(policy)) =>
        /\ audit = "axiom" =>
            /\ "axiom" \notin work
            /\ "allowed_axiom" \in work => \E policy \in InForce : Allows(policy)
        /\ audit = "decide" => "instance" \notin work
        /\ audit = "equiv" /\ linked /\ "base" \notin unread
             /\ "target_removed" \notin work => "restated" \notin work

\* The exit contract of the command-line modules: where the files of base are
\* read, 1 is kept for what the contributor did.  (Not so in statement_equiv_cli,
\* which raises.)
RedIsTheContributors ==
    (exit = 1 /\ "base" \notin unread) =>
        \/ work \cap {"axiom", "allowed_axiom", "instance", "restated"} # {}
        \/ audit = "equiv" /\ \E policy \in InForce : ReadProver(policy, TRUE) = "error"

\* A pull request is judged by the branch's policy, whatever it does to the
\* policy files, and red means that it did something.
JudgedByTheBranch == NothingIsLetThrough /\ RedIsTheContributors

-----------------------------------------------------------------------------
(* What the modules say and the code does not do.                          *)

\* "2 = environmental failure (gh / git error, ...)".  A `git show` of a source
\* file that fails is swallowed by _show: where head's is lost everything passes,
\* where base's is lost the contributor is blamed for what was there before.
FailedReadsAreEnvironmental == unread # {} => exit = 2
===============================================================================
