----------------------------- MODULE PullRequest ----------------------------
(***************************************************************************)
(* One pull request on its way through the gate: orchestrator/prs.py,      *)
(* runs.py, salvage.py and the reading of checks in poll.py, with a        *)
(* contributor who pushes, workflows that report when they like, and       *)
(* several callers (the orchestrator, the overseer) of `merge` and         *)
(* `merge-override` whose reads and writes interleave with both.           *)
(***************************************************************************)
EXTENDS Checks, Naturals, FiniteSets

CONSTANTS
    Callers,     \* who runs merge
    Overseers,   \* those of them who may run merge-override
    Names,       \* the checks this repository may report
    Slow,        \* bound: those that take time and may fail; the rest pass
                 \* as soon as they run
    Removals,    \* bound: sets of checks whose workflow a push may delete
    Approvals,   \* bound: the sets of held runs one approval gets through
    Prover,      \* the project's prover
    MaxPushes,   \* bound on pushes
    MaxTrail     \* bound on override comments

ASSUME NamesAssumption == REQUIRED_PRESENT \subseteq Names
ASSUME PushesAssumption == MaxPushes \in Nat \ {0}
ASSUME ProverAssumption == Prover \in Provers

VARIABLES
    head,        \* the pull request's head commit: the number of its push
    status,      \* what GitHub knows of each check on that commit
    vouched,     \* history: the checks that ever reported success on it
    prState,     \* open, closed or merged
    seen,        \* the head the orchestrator last read, 0 before it did
    merger,      \* where each caller is in merge_pr
    trail,       \* the override comments on the pull request
    landed,      \* history: the merge, once there is one
    seeds        \* the heads that salvage tasks start from

vars == <<head, status, vouched, prState, seen, merger, trail, landed, seeds>>

Heads == 1..MaxPushes

\* "held": the run waits for an approval; "absent": no run was ever started.
Statuses == {"absent", "held", "pending", "green", "red"}

Idle == [step |-> "idle", head |-> 0, forced |-> FALSE, overridden |-> {}]

TypeOK ==
    /\ head \in Heads
    /\ status \in [Names -> Statuses]
    /\ vouched \subseteq Names
    /\ prState \in {"open", "closed", "merged"}
    /\ seen \in Heads \cup {0}
    /\ merger \in [Callers ->
          [step: {"idle", "commenting", "pinned"}, head: Heads \cup {0},
           forced: BOOLEAN, overridden: SUBSET Names]]
    /\ trail \subseteq [head: Heads, overridden: SUBSET Names]
    /\ landed \subseteq [head: Heads, forced: BOOLEAN, vouched: SUBSET Names]
    /\ seeds \subseteq Heads
-----------------------------------------------------------------------------
(***************************************************************************)
(* Reading a pull request                                                  *)
(***************************************************************************)
\* The rollup has neither runs that are held nor runs that never were.
Present == {n \in Names : status[n] \in {"pending", "green", "red"}}

BlockingFailures(prover) ==
    {n \in Present : IsBlocking(n, prover) /\ status[n] # "green"}

PendingBlocking(prover) ==
    {n \in Present : IsBlocking(n, prover) /\ status[n] = "pending"}

Missing == MissingRequired(Present)

\* Mutant: pending is not a failure.
PreflightPassesPending(prover) ==
    Present # {} /\ Missing = {}
    /\ BlockingFailures(prover) \subseteq PendingBlocking(prover)

\* What merge_pr asks without force.
PreflightPasses(prover) ==
    Present # {} /\ Missing = {} /\ BlockingFailures(prover) = {}

\* poll's `_checks_state`.
ChecksState(prover) ==
    CASE PendingBlocking(prover) # {}                            -> "pending"
      [] PendingBlocking(prover) = {}
         /\ (BlockingFailures(prover) # {} \/ Missing # {})      -> "red"
      [] OTHER                                                   -> "green"

\* `mergeable_now` of the `pr` and `prs` commands.
MergeableNow(prover) ==
    BlockingFailures(prover) = {} /\ Missing = {}
    /\ PendingBlocking(prover) = {}
-----------------------------------------------------------------------------
(***************************************************************************)
(* The contributor and GitHub                                              *)
(***************************************************************************)
\* Mutant: a status context left in the shape GitHub gave it.
StartedUnnormalised(n) == IF n \in Slow THEN "pending" ELSE "SUCCESS"

\* What a check shows once its run starts.
Started(n) == IF n \in Slow THEN "pending" ELSE "green"

\* The checks of a commit whose workflows lack `gone`; with `held`, its runs
\* wait for an approval, except those of third parties.
FirstStatus(gone, held) ==
    [n \in Names |-> IF n \in gone THEN "absent"
                     ELSE IF held /\ n \in CHECKS THEN "held" ELSE Started(n)]

Green(st) == {n \in Names : st[n] = "green"}

\* Every push, and a reopening, starts the workflows again.
Restart ==
    \E gone \in Removals, held \in BOOLEAN : status' = FirstStatus(gone, held)

Init ==
    /\ head = 1
    /\ \E gone \in Removals, held \in BOOLEAN : status = FirstStatus(gone, held)
    /\ vouched = Green(status)
    /\ prState = "open" /\ seen = 0
    /\ merger = [c \in Callers |-> Idle]
    /\ trail = {} /\ landed = {} /\ seeds = {}

Push ==
    /\ prState = "open" /\ head < MaxPushes
    /\ head' = head + 1
    /\ Restart
    /\ vouched' = Green(status')
    /\ UNCHANGED <<prState, seen, merger, trail, landed, seeds>>

Reopen ==
    /\ prState = "closed"
    /\ prState' = "open"
    /\ Restart
    /\ vouched' = vouched \cup Green(status')
    /\ UNCHANGED <<head, seen, merger, trail, landed, seeds>>

\* A workflow reports.
Report(n) ==
    /\ status[n] = "pending"
    /\ \E s \in {"green", "red"} : status' = [status EXCEPT ![n] = s]
    /\ vouched' = vouched \cup Green(status')
    /\ UNCHANGED <<head, prState, seen, merger, trail, landed, seeds>>

\* Someone asks for a check to run again.
Rerun(n) ==
    /\ n \in Slow /\ status[n] \in {"green", "red"}
    /\ status' = [status EXCEPT ![n] = "pending"]
    /\ UNCHANGED <<head, vouched, prState, seen, merger, trail, landed, seeds>>
-----------------------------------------------------------------------------
(***************************************************************************)
(* The orchestrator                                                        *)
(***************************************************************************)
ReadPullRequest ==
    /\ seen' = head
    /\ UNCHANGED <<head, status, vouched, prState, merger, trail, landed, seeds>>

\* approve_runs_for_sha, for the commit that was read. A call that fails ends
\* the loop, so that only some of the held runs may be started.
Approve ==
    /\ seen = head
    /\ \E some \in Approvals :
          status' = [n \in Names |-> IF status[n] = "held" /\ n \in some
                                     THEN Started(n) ELSE status[n]]
    /\ vouched' = vouched \cup Green(status')
    /\ UNCHANGED <<head, prState, seen, merger, trail, landed, seeds>>

ClosePullRequest ==
    /\ prState = "open"
    /\ prState' = "closed"
    /\ UNCHANGED <<head, status, vouched, seen, merger, trail, landed, seeds>>

\* A salvage task from a red pull request: the caller passes every check that
\* shows and is not green, and guards as classify_failure asks. What it read
\* goes with the commit it read, so a later push does not matter.
Salvage ==
    /\ prState # "merged"
    /\ BlockingFailures(NoProver) # {} /\ Missing = {}
    /\ ClassifyFailure({n \in Present : status[n] # "green"}) = "near_miss"
    /\ seeds' = seeds \cup {head}
    /\ UNCHANGED <<head, status, vouched, prState, seen, merger, trail, landed>>

\* merge_pr without force: one read of commit and checks, and the verdict. A
\* refusal changes nothing. The state of the pull request is not asked.
MergeReads(c) ==
    /\ merger[c].step = "idle"
    /\ \E prover \in {Prover, NoProver} : PreflightPasses(prover)
    /\ merger' = [merger EXCEPT ![c] =
          [step |-> "pinned", head |-> head, forced |-> FALSE,
           overridden |-> {}]]
    /\ UNCHANGED <<head, status, vouched, prState, seen, trail, landed, seeds>>

\* merge_pr with force: the same read; the comment is a call of its own.
OverrideReads(c) ==
    /\ c \in Overseers /\ Cardinality(trail) < MaxTrail
    /\ merger[c].step = "idle"
    /\ \E prover \in {Prover, NoProver} :
          merger' = [merger EXCEPT ![c] =
             [step |-> "commenting", head |-> head, forced |-> TRUE,
              overridden |-> Missing \cup BlockingFailures(prover)]]
    /\ UNCHANGED <<head, status, vouched, prState, seen, trail, landed, seeds>>

OverrideComments(c) ==
    /\ merger[c].step = "commenting"
    /\ trail' = trail \cup {[head |-> merger[c].head,
                             overridden |-> merger[c].overridden]}
    /\ merger' = [merger EXCEPT ![c] =
          [step |-> "pinned", head |-> merger[c].head, forced |-> TRUE,
           overridden |-> merger[c].overridden]]
    /\ UNCHANGED <<head, status, vouched, prState, seen, landed, seeds>>

\* Mutant: a merge without --match-head-commit.
MergeLandsUnpinned(c) ==
    /\ merger[c].step = "pinned" /\ prState = "open"
    /\ prState' = "merged"
    /\ landed' = {[head |-> head, forced |-> merger[c].forced,
                   vouched |-> vouched]}
    /\ merger' = [merger EXCEPT ![c] = Idle]
    /\ UNCHANGED <<head, status, vouched, seen, trail, seeds>>

\* `gh pr merge --match-head-commit`: GitHub merges the commit that was read
\* or none.
MergeLands(c) ==
    /\ merger[c].step = "pinned"
    /\ prState = "open" /\ merger[c].head = head
    /\ prState' = "merged"
    /\ landed' = {[head |-> head, forced |-> merger[c].forced,
                   vouched |-> vouched]}
    /\ merger' = [merger EXCEPT ![c] = Idle]
    /\ UNCHANGED <<head, status, vouched, seen, trail, seeds>>

\* A call fails, GitHub refuses (not open, another head), or the caller dies.
MergeStops(c) ==
    /\ merger[c].step # "idle"
    /\ merger' = [merger EXCEPT ![c] = Idle]
    /\ UNCHANGED <<head, status, vouched, prState, seen, trail, landed, seeds>>

CallerStep(c) ==
    MergeReads(c) \/ OverrideReads(c) \/ OverrideComments(c)
    \/ MergeLands(c) \/ MergeStops(c)

Next ==
    \/ Push \/ Reopen \/ ReadPullRequest \/ Approve \/ ClosePullRequest
    \/ Salvage
    \/ \E n \in Names : Report(n) \/ Rerun(n)
    \/ \E c \in Callers : CallerStep(c)

Spec == Init /\ [][Next]_vars
-----------------------------------------------------------------------------
(***************************************************************************)
(* Properties                                                              *)
(***************************************************************************)
\* What lands without force is a commit on which every required check that
\* blocks for the project's prover did report success, whatever was pushed,
\* re-run or reopened between the read and the merge (merge_pr).
LandedWasAudited ==
    \A l \in landed : ~l.forced =>
        {n \in REQUIRED_PRESENT : IsBlocking(n, Prover)} \subseteq l.vouched

\* What lands by force has a comment that names that commit and every
\* required check that never vouched for it (merge_pr, the override).
TrailNamesTheCommit ==
    \A l \in landed : l.forced =>
        \E e \in trail :
            /\ e.head = l.head
            /\ {n \in REQUIRED_PRESENT : IsBlocking(n, Prover)} \ l.vouched
                   \subseteq e.overridden

\* The poller, the listing and the merge judge the same checks alike, and one
\* that is not told the prover calls green nothing that the merge refuses.
ReadersAgreeOnGreen ==
    \A prover \in Provers :
        /\ (ChecksState(prover) = "green") <=> PreflightPasses(prover)
        /\ MergeableNow(prover) <=> PreflightPasses(prover)
        /\ PreflightPasses(NoProver) => PreflightPasses(prover)

\* A tree is handed on only if each trust check whose name has one meaning
\* vouches for it at that time, on every prover (classify_failure).
SeedsAreVouched ==
    [][seeds' # seeds =>
          TrustChecks \ SALVAGE_OPAQUE \subseteq Green(status)]_vars

\* salvage.py:111-112, "the one property this preserves is that a trust
\* failure never becomes a seed": once every check has reported, the comparator
\* alone may be red, and only where the build that explains it is red too.
TrustFailureNeverSeeds ==
    [][seeds' # seeds /\ PendingBlocking(NoProver) = {} =>
          \A n \in TrustChecks :
              status[n] = "red" => n \in SALVAGE_OPAQUE
                                   /\ status["rebuild"] = "red"]_vars
=============================================================================
