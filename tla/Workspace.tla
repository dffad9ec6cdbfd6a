------------------------------ MODULE Workspace ------------------------------
(***************************************************************************)
(* Setting up and tearing down the workspaces of claimed tasks on one      *)
(* machine (src/client/task.py, workspace.py, repo_store.py, release.py    *)
(* and the claim command of src/client/cli.py), over the three stores the  *)
(* machine's processes share: the project's clone, the dependency store    *)
(* (mathlib_cache.py) and the store of build baselines (build_store.py).   *)
(*                                                                         *)
(* Each issue has one command at a time working on it: `choir claim`, and  *)
(* later `choir release`.  The commands of different issues interleave at  *)
(* every step, any call may fail, and any process may be killed; `faults`  *)
(* counts these.  All issues are of one project, pinned to one commit and  *)
(* one dependency set.                                                     *)
(***************************************************************************)
EXTENDS Naturals

CONSTANTS
    Issues,        \* issues worked on from this machine
    Free,          \* the project lock when nobody holds it
    MaxClaims,     \* bound on the claims of an issue
    MaxFaults      \* bound on failed calls and killed processes

ASSUME WorkspaceAssumption ==
    Free \notin Issues /\ MaxClaims \in Nat /\ MaxFaults \in Nat

VARIABLES
    pc,            \* where the command on each issue stands
    claims,        \* how many times each issue was claimed: the last session
    lease,         \* the session that holds the issue's lease, 0 if none
    tree,          \* the workspace's directory
    meta,          \* the session in .choir-lease.json, 0 if there is no file
    lock,          \* who holds the project's flock
    clone,         \* the shared clone
    branches,      \* issues whose task branch exists in it
    worktrees,     \* issues whose worktree is registered with it
    deps,          \* the workspace's .lake/packages
    aside,         \* workspaces with a .lake/packages.superseded
    entry,         \* the dependency store's entry
    build,         \* the workspace's .lake/build
    baseline,      \* the build store's entry
    withdrawn,     \* history: a published entry was moved back
    byHand,        \* history: branches left where a workspace was removed by hand
    faults

localVars == <<tree, meta, byHand>>
gitVars   == <<lock, clone, branches, worktrees>>
depVars   == <<deps, aside, entry, withdrawn>>
buildVars == <<build, baseline>>
leaseVars == <<claims, lease>>

vars == <<pc, leaseVars, localVars, gitVars, depVars, buildVars, faults>>

-----------------------------------------------------------------------------
\* prepare_task, from the claim that was won to its last step.
Preparing ==
    {"claimed", "waiting", "refreshing", "seeding", "branching", "cloning",
     "writing", "warming", "restoring", "fetching", "promoting",
     "relinking", "publishing", "linking", "saving", "creating", "copying"}

\* _release, once its comment is posted.
Releasing == {"removing", "tearing"}

Settled == {"idle", "ready", "failed", "lost"}

TypeOK ==
    /\ pc \in [Issues -> Preparing \cup Releasing \cup Settled]
    /\ claims \in [Issues -> 0..MaxClaims]
    /\ lease \in [Issues -> 0..MaxClaims]
    /\ tree \in [Issues -> {"absent", "debris", "worktree", "clone"}]
    /\ meta \in [Issues -> 0..MaxClaims]
    /\ lock \in Issues \cup {Free}
    /\ clone \in {"absent", "torn", "ready"}
    /\ branches \subseteq Issues
    /\ worktrees \subseteq Issues
    /\ deps \in [Issues -> {"none", "torn", "own", "link"}]
    /\ aside \subseteq Issues
    /\ entry \in {"absent", "torn", "whole"}
    /\ build \in [Issues -> {"none", "part", "whole"}]
    /\ baseline \in {"absent", "part", "whole"}
    /\ withdrawn \in BOOLEAN
    /\ byHand \subseteq Issues
    /\ faults \in 0..MaxFaults

Init ==
    /\ pc = [i \in Issues |-> "idle"]
    /\ claims = [i \in Issues |-> 0]
    /\ lease = [i \in Issues |-> 0]
    /\ tree = [i \in Issues |-> "absent"]
    /\ meta = [i \in Issues |-> 0]
    /\ lock = Free
    /\ clone = "absent"
    /\ branches = {}
    /\ worktrees = {}
    /\ deps = [i \in Issues |-> "none"]
    /\ aside = {}
    /\ entry = "absent"
    /\ build = [i \in Issues |-> "none"]
    /\ baseline = "absent"
    /\ withdrawn = FALSE
    /\ byHand = {}
    /\ faults = 0

Goes(i, from, to) == pc[i] = from /\ pc' = [pc EXCEPT ![i] = to]

Fault == faults < MaxFaults /\ faults' = faults + 1

-----------------------------------------------------------------------------
(* The lease, as claim() and the arbiter answer (LeaseProtocol has them).  *)

\* claim() mints a session, so a lease of this machine's own earlier session
\* is somebody else's to it.
ClaimWon(i) ==
    /\ pc[i] \in Settled
    /\ claims[i] < MaxClaims
    /\ lease[i] = 0
    /\ pc' = [pc EXCEPT ![i] = "claimed"]
    /\ claims' = [claims EXCEPT ![i] = @ + 1]
    /\ lease' = [lease EXCEPT ![i] = claims[i] + 1]
    /\ UNCHANGED <<localVars, gitVars, depVars, buildVars, faults>>

ClaimLost(i) ==
    /\ Goes(i, "idle", "lost")
    /\ claims[i] < MaxClaims
    /\ lease[i] # 0
    /\ UNCHANGED <<leaseVars, localVars, gitVars, depVars, buildVars, faults>>

\* Nobody has beaten for a day.
Lapse(i) ==
    /\ pc[i] \in Settled
    /\ lease[i] # 0
    /\ lease' = [lease EXCEPT ![i] = 0]
    /\ UNCHANGED <<pc, claims, localVars, gitVars, depVars, buildVars, faults>>

-----------------------------------------------------------------------------
(* prepare_task: the issue read again, then setup_workspace.               *)

SetUpStarts(i) ==
    /\ Goes(i, "claimed", "waiting")
    /\ tree[i] = "absent"
    /\ UNCHANGED <<leaseVars, localVars, gitVars, depVars, buildVars, faults>>

\* The path is taken.
SetUpRefused(i) ==
    /\ Goes(i, "claimed", "failed")
    /\ tree[i] # "absent"
    /\ UNCHANGED <<leaseVars, localVars, gitVars, depVars, buildVars, faults>>

\* The issue cannot be read, or no longer parses.
IssueUnreadable(i) ==
    /\ Goes(i, "claimed", "failed")
    /\ Fault
    /\ UNCHANGED <<leaseVars, localVars, gitVars, depVars, buildVars>>

-----------------------------------------------------------------------------
(* create_worktree, under the project's lock.                              *)

TakeLock(i) ==
    /\ Goes(i, "waiting", "refreshing")
    /\ lock = Free
    /\ lock' = i
    /\ UNCHANGED <<leaseVars, localVars, clone, branches, worktrees, depVars,
                   buildVars, faults>>

\* Mutant: the way out over an error keeps the lock.
FallsBackLocked(i) ==
    /\ pc' = [pc EXCEPT ![i] = "cloning"]
    /\ UNCHANGED lock

\* RepoStoreError: setup_workspace falls back to a full clone.
FallsBack(i) ==
    /\ pc' = [pc EXCEPT ![i] = "cloning"]
    /\ lock' = Free

\* `git worktree prune`: registrations whose directory is gone.
Pruned(ws) == {j \in ws : tree[j] # "absent"}

\* A store is there: a fetch, which nobody checks and which may complete what
\* a killed clone left, and a prune.
RefreshStore(i) ==
    /\ pc[i] = "refreshing"
    /\ clone # "absent"
    /\ worktrees' = Pruned(worktrees)
    /\ \/ /\ clone' = "ready"
          /\ pc' = [pc EXCEPT ![i] = "branching"]
          /\ UNCHANGED <<lock, faults>>
       \/ /\ Fault             \* the pinned commit is not there
          /\ UNCHANGED clone
          /\ FallsBack(i)
    /\ UNCHANGED <<leaseVars, localVars, branches, depVars, buildVars>>

CloneStarts(i) ==
    /\ Goes(i, "refreshing", "seeding")
    /\ clone = "absent"
    /\ clone' = "torn"
    /\ UNCHANGED <<leaseVars, localVars, lock, branches, worktrees, depVars,
                   buildVars, faults>>

CloneEnds(i) ==
    /\ pc[i] = "seeding"
    /\ \/ /\ clone' = "ready"
          /\ pc' = [pc EXCEPT ![i] = "branching"]
          /\ UNCHANGED <<lock, faults>>
       \/ /\ Fault             \* git removes what it had cloned, or the clone
          /\ clone' \in {"absent", "ready"}      \* is made and something else fails
          /\ FallsBack(i)
    /\ UNCHANGED <<leaseVars, localVars, branches, worktrees, depVars, buildVars>>

\* `git worktree add -b`.
AddWorktree(i) ==
    /\ Goes(i, "branching", "writing")
    /\ i \notin branches
    /\ branches' = branches \cup {i}
    /\ worktrees' = worktrees \cup {i}
    /\ tree' = [tree EXCEPT ![i] = "worktree"]
    /\ lock' = Free
    /\ UNCHANGED <<leaseVars, meta, byHand, clone, depVars, buildVars, faults>>

\* git refuses a branch that exists.
BranchExists(i) ==
    /\ pc[i] = "branching"
    /\ i \in branches
    /\ FallsBack(i)
    /\ UNCHANGED <<leaseVars, localVars, clone, branches, worktrees, depVars,
                   buildVars, faults>>

\* It fails, and the branch that it made first may stay.
WorktreeFails(i) ==
    /\ pc[i] = "branching"
    /\ i \notin branches
    /\ Fault
    /\ branches' \in {branches, branches \cup {i}}
    /\ FallsBack(i)
    /\ UNCHANGED <<leaseVars, localVars, clone, worktrees, depVars, buildVars>>

-----------------------------------------------------------------------------
(* The rest of setup_workspace.                                            *)

\* The fallback; git removes a clone that fails, but not one whose checkout
\* does.
FullClone(i) ==
    /\ pc[i] = "cloning"
    /\ \/ /\ tree' = [tree EXCEPT ![i] = "clone"]
          /\ pc' = [pc EXCEPT ![i] = "writing"]
          /\ UNCHANGED faults
       \/ /\ Fault
          /\ tree' \in {tree, [tree EXCEPT ![i] = "debris"]}
          /\ pc' = [pc EXCEPT ![i] = "failed"]
    /\ UNCHANGED <<leaseVars, meta, byHand, gitVars, depVars, buildVars>>

\* TASK.md, the primer, the excludes, the skills and their digest, and last
\* the lease file.  A failure leaves the directory without a lease file.
WriteFiles(i) ==
    /\ pc[i] = "writing"
    /\ \/ /\ meta' = [meta EXCEPT ![i] = claims[i]]
          /\ pc' = [pc EXCEPT ![i] = "warming"]
          /\ UNCHANGED faults
       \/ /\ Fault
          /\ UNCHANGED meta
          /\ pc' = [pc EXCEPT ![i] = "failed"]
    /\ UNCHANGED <<leaseVars, tree, byHand, gitVars, depVars, buildVars>>

-----------------------------------------------------------------------------
(* prepare_workspace_build_cache: the baseline, the dependencies, the      *)
(* baseline's publication.  A workspace just set up has none of them.      *)

\* restore_build_baseline, which goes on without a baseline.
RestoreMisses(i) ==
    /\ Goes(i, "warming", "fetching")
    /\ baseline = "absent"
    /\ UNCHANGED <<leaseVars, localVars, gitVars, depVars, buildVars, faults>>

RestoreStarts(i) ==
    /\ Goes(i, "warming", "restoring")
    /\ baseline # "absent"
    /\ build' = [build EXCEPT ![i] = "part"]
    /\ UNCHANGED <<leaseVars, localVars, gitVars, depVars, baseline, faults>>

\* reflink_tree: a copy of what was there while it ran, or nothing.
RestoreEnds(i) ==
    /\ Goes(i, "restoring", "fetching")
    /\ \/ /\ build' \in {[build EXCEPT ![i] = q] :
                         q \in {"part"} \cup ({baseline} \cap {"whole"})}
          /\ UNCHANGED faults
       \/ /\ Fault
          /\ build' = [build EXCEPT ![i] = "none"]
    /\ UNCHANGED <<leaseVars, localVars, gitVars, depVars, baseline>>

\* prepare_workspace_deps, when the store has the dependencies.
LinkHits(i) ==
    /\ Goes(i, "fetching", "saving")
    /\ entry # "absent"
    /\ deps' = [deps EXCEPT ![i] = "link"]
    /\ UNCHANGED <<leaseVars, localVars, gitVars, aside, entry, withdrawn,
                   buildVars, faults>>

\* Mutant: what `lake exe cache get` leaves when it fails is promoted too.
FetchUnchecked(i) ==
    /\ pc[i] = "fetching"
    /\ \/ /\ entry = "absent"
          /\ UNCHANGED faults
       \/ entry # "absent" /\ Fault
    /\ \E q \in {"own", "torn"} :
        deps' = [deps EXCEPT ![i] = q]
    /\ build' \in {build, [build EXCEPT ![i] = "whole"]}
    /\ pc' = [pc EXCEPT ![i] = "promoting"]
    /\ UNCHANGED <<leaseVars, localVars, gitVars, aside, entry, withdrawn,
                   baseline>>

\* A miss, or a link that failed: `lake exe cache get`, which also fills
\* .lake/build for a project that is in the cache itself.
Fetch(i) ==
    /\ pc[i] = "fetching"
    /\ \/ /\ entry = "absent"
          /\ UNCHANGED faults
       \/ entry # "absent" /\ Fault
    /\ deps' = [deps EXCEPT ![i] = "own"]
    /\ build' \in {build, [build EXCEPT ![i] = "whole"]}
    /\ pc' = [pc EXCEPT ![i] = "promoting"]
    /\ UNCHANGED <<leaseVars, localVars, gitVars, aside, entry, withdrawn,
                   baseline>>

\* "skipped": whatever it left stays in the workspace.
FetchFails(i) ==
    /\ Goes(i, "fetching", "saving")
    /\ entry = "absent"
    /\ Fault
    /\ deps' \in {deps, [deps EXCEPT ![i] = "torn"]}
    /\ UNCHANGED <<leaseVars, localVars, gitVars, aside, entry, withdrawn,
                   buildVars>>

\* _promote_to_store: another workspace seeded the entry meanwhile.  Set this
\* one's copy aside, or keep it ("fetched-nostore").
SetAside(i) ==
    /\ pc[i] = "promoting"
    /\ entry # "absent"
    /\ \/ /\ pc' = [pc EXCEPT ![i] = "relinking"]
          /\ aside' = aside \cup {i}
          /\ deps' = [deps EXCEPT ![i] = "none"]
          /\ UNCHANGED faults
       \/ /\ Fault
          /\ pc' = [pc EXCEPT ![i] = "saving"]
          /\ UNCHANGED <<aside, deps>>
    /\ UNCHANGED <<leaseVars, localVars, gitVars, entry, withdrawn, buildVars>>

\* link_store makes a link whether or not its target is still there; then the
\* copy is deleted, or moved back when the link failed.
Relink(i) ==
    /\ Goes(i, "relinking", "saving")
    /\ aside' = aside \ {i}
    /\ \/ /\ deps' = [deps EXCEPT ![i] = "link"]
          /\ UNCHANGED faults
       \/ /\ Fault
          /\ deps' = [deps EXCEPT ![i] = "own"]
    /\ UNCHANGED <<leaseVars, localVars, gitVars, entry, withdrawn, buildVars>>

EntryMissing(i) ==
    /\ Goes(i, "promoting", "publishing")
    /\ entry = "absent"
    /\ UNCHANGED <<leaseVars, localVars, gitVars, depVars, buildVars, faults>>

\* A rename onto the entry, which fails when somebody published meanwhile.
Publish(i) ==
    /\ pc[i] = "publishing"
    /\ \/ /\ entry = "absent"
          /\ pc' = [pc EXCEPT ![i] = "linking"]
          /\ entry' = IF deps[i] = "torn" THEN "torn" ELSE "whole"
          /\ deps' = [deps EXCEPT ![i] = "none"]
          /\ UNCHANGED faults
       \/ /\ \/ entry # "absent" /\ UNCHANGED faults
             \/ entry = "absent" /\ Fault
          /\ pc' = [pc EXCEPT ![i] = "saving"]
          /\ UNCHANGED <<entry, deps>>
    /\ UNCHANGED <<leaseVars, localVars, gitVars, aside, withdrawn, buildVars>>

\* The link; when it fails, the entry is moved back.
LinkPublished(i) ==
    /\ Goes(i, "linking", "saving")
    /\ \/ /\ deps' = [deps EXCEPT ![i] = "link"]
          /\ UNCHANGED <<entry, withdrawn, faults>>
       \/ /\ Fault
          /\ deps' = [deps EXCEPT ![i] = "own"]
          /\ entry' = "absent"
          /\ withdrawn' = TRUE
    /\ UNCHANGED <<leaseVars, localVars, gitVars, aside, buildVars>>

\* save_build_baseline: nothing to save, or a baseline is there.
SaveSkips(i) ==
    /\ Goes(i, "saving", "ready")
    /\ build[i] = "none" \/ baseline # "absent"
    /\ UNCHANGED <<leaseVars, localVars, gitVars, depVars, buildVars, faults>>

SaveStarts(i) ==
    /\ Goes(i, "saving", "creating")
    /\ build[i] # "none" /\ baseline = "absent"
    /\ UNCHANGED <<leaseVars, localVars, gitVars, depVars, buildVars, faults>>

\* cp makes the directory, or copies into the one another process made.
SaveCreates(i) ==
    /\ Goes(i, "creating", "copying")
    /\ baseline' = IF baseline = "absent" THEN "part" ELSE baseline
    /\ UNCHANGED <<leaseVars, localVars, gitVars, depVars, build, faults>>

\* The copy is done, or failed and what is there is removed.
SaveEnds(i) ==
    /\ Goes(i, "copying", "ready")
    /\ \/ /\ baseline' = IF baseline = "part" THEN build[i] ELSE baseline
          /\ UNCHANGED faults
       \/ /\ Fault
          /\ baseline' = "absent"
    /\ UNCHANGED <<leaseVars, localVars, gitVars, depVars, build>>

-----------------------------------------------------------------------------
(* What people do.                                                         *)

NoTree(i) == tree' = [tree EXCEPT ![i] = "absent"] /\ meta' = [meta EXCEPT ![i] = 0]
NoDeps(i) == deps' = [deps EXCEPT ![i] = "none"] /\ aside' = aside \ {i}
NoBuild(i) == build' = [build EXCEPT ![i] = "none"]

\* The advice of a failed set-up, taken: remove the workspace.
TakeAdvice(i) ==
    /\ Goes(i, "failed", "idle")
    /\ byHand' = byHand \cup ({i} \cap branches)
    /\ NoTree(i) /\ NoDeps(i) /\ NoBuild(i)
    /\ UNCHANGED <<leaseVars, gitVars, entry, withdrawn, baseline, faults>>

\* release: the comment, which needs the lease to be held by this login; then
\* the workspace, if there is one and it is not to be kept.
ReleasePosts(i) ==
    /\ pc[i] \in Settled
    /\ lease[i] # 0
    /\ lease' = [lease EXCEPT ![i] = 0]
    /\ \/ pc' = [pc EXCEPT ![i] = IF tree[i] = "worktree" /\ clone # "absent"
                                  THEN "removing" ELSE "tearing"]
       \/ tree[i] # "absent" /\ UNCHANGED pc
    /\ UNCHANGED <<claims, localVars, gitVars, depVars, buildVars, faults>>

\* Mutant: the task branch stays in the shared clone.
DropWorktreeKeepBranch(i) ==
    /\ Goes(i, "removing", "tearing")
    /\ lock = Free
    /\ NoTree(i) /\ NoDeps(i) /\ NoBuild(i)
    /\ worktrees' = Pruned(worktrees) \ {i}
    /\ UNCHANGED <<leaseVars, byHand, lock, clone, branches, entry, withdrawn, baseline,
                   faults>>

\* remove_workspace, under the lock: the worktree, the branch that the lease
\* file names, a prune.  A worktree that is not removed keeps its branch, which
\* git does not delete while it is checked out.
DropWorktree(i) ==
    /\ Goes(i, "removing", "tearing")
    /\ lock = Free
    /\ \/ /\ NoTree(i) /\ NoDeps(i) /\ NoBuild(i)
          /\ branches' = IF meta[i] # 0 THEN branches \ {i} ELSE branches
          /\ worktrees' = Pruned(worktrees) \ {i}
          /\ UNCHANGED faults
       \/ /\ Fault
          /\ worktrees' = Pruned(worktrees)
          /\ UNCHANGED <<tree, meta, branches, deps, aside, build>>
    /\ UNCHANGED <<leaseVars, byHand, lock, clone, entry, withdrawn, baseline>>

\* What is left of the directory.
RemoveTree(i) ==
    /\ Goes(i, "tearing", "idle")
    /\ NoTree(i) /\ NoDeps(i) /\ NoBuild(i)
    /\ UNCHANGED <<leaseVars, byHand, gitVars, entry, withdrawn, baseline, faults>>

-----------------------------------------------------------------------------
(* A process dies: what it was making stays as it is, and the kernel gives *)
(* back its lock.                                                          *)

Unlock(i) == lock' = IF lock = i THEN Free ELSE lock

Dies(i) ==
    /\ Fault
    /\ pc' = [pc EXCEPT ![i] = "failed"]
    /\ Unlock(i)

\* Between two calls, or in a copy or clone, whose parts stay.
Killed(i) ==
    /\ pc[i] \in Preparing \cup Releasing
    /\ Dies(i)
    /\ UNCHANGED <<leaseVars, localVars, clone, branches, worktrees, depVars,
                   buildVars>>

\* In `git worktree add`: the branch and perhaps the directory are there.
KilledAdding(i) ==
    /\ pc[i] = "branching"
    /\ i \notin branches
    /\ Dies(i)
    /\ branches' = branches \cup {i}
    /\ tree' \in {tree, [tree EXCEPT ![i] = "debris"]}
    /\ UNCHANGED <<leaseVars, meta, byHand, clone, worktrees, depVars, buildVars>>

\* In a full clone, or in the removal of a directory.
KilledInTree(i) ==
    /\ pc[i] \in {"cloning", "tearing"}
    /\ pc[i] = "tearing" => tree[i] # "absent"
    /\ Dies(i)
    /\ tree' = [tree EXCEPT ![i] = "debris"]
    /\ UNCHANGED <<leaseVars, meta, byHand, clone, branches, worktrees, depVars,
                   buildVars>>

\* In `lake exe cache get`.
KilledFetching(i) ==
    /\ pc[i] = "fetching"
    /\ Dies(i)
    /\ deps' = [deps EXCEPT ![i] = "torn"]
    /\ UNCHANGED <<leaseVars, localVars, clone, branches, worktrees, aside,
                   entry, withdrawn, buildVars>>

-----------------------------------------------------------------------------
SetUp(i) ==
    \/ SetUpStarts(i) \/ SetUpRefused(i) \/ IssueUnreadable(i)
    \/ TakeLock(i) \/ RefreshStore(i) \/ CloneStarts(i) \/ CloneEnds(i)
    \/ AddWorktree(i) \/ BranchExists(i) \/ WorktreeFails(i)
    \/ FullClone(i) \/ WriteFiles(i)

Warm(i) ==
    \/ RestoreMisses(i) \/ RestoreStarts(i) \/ RestoreEnds(i)
    \/ LinkHits(i) \/ Fetch(i) \/ FetchFails(i)
    \/ SetAside(i) \/ Relink(i) \/ EntryMissing(i) \/ Publish(i)
    \/ LinkPublished(i)
    \/ SaveSkips(i) \/ SaveStarts(i) \/ SaveCreates(i) \/ SaveEnds(i)

Remove(i) == DropWorktree(i) \/ RemoveTree(i)

Dying(i) == Killed(i) \/ KilledAdding(i) \/ KilledInTree(i) \/ KilledFetching(i)

Next ==
    \E i \in Issues :
        \/ ClaimWon(i) \/ ClaimLost(i) \/ Lapse(i)
        \/ SetUp(i) \/ Warm(i)
        \/ TakeAdvice(i) \/ ReleasePosts(i) \/ Remove(i)
        \/ Dying(i)

\* A process that runs goes on.
Fairness == \A i \in Issues : WF_vars(SetUp(i)) /\ WF_vars(Warm(i)) /\ WF_vars(Remove(i))

Spec == Init /\ [][Next]_vars /\ Fairness

-----------------------------------------------------------------------------
(* Properties.                                                             *)

\* What `choir submit`, `choir status` and `choir release` read is the file
\* that setup_workspace writes last: a workspace whose lease file names the
\* session that holds the lease is whole, and when it is a worktree the shared
\* clone knows it and its branch.
LeaseFileMeansWhole ==
    \A i \in Issues :
        (meta[i] # 0 /\ meta[i] = lease[i]) =>
            /\ tree[i] \in {"worktree", "clone"}
            /\ tree[i] = "worktree" => i \in worktrees \cap branches

\* Sharing the clone is the rule and full clones the exception: as long as no
\* call failed and no process died, every set-up, after releases and together
\* with other set-ups too, ends in a worktree or finds its path taken; but not
\* where a workspace was removed by hand, whose branch the clone still has.
CleanRunsShare ==
    faults = 0 => \A i \in Issues :
        /\ i \notin byHand => tree[i] # "clone" /\ pc[i] # "cloning"
        /\ pc[i] = "failed" => tree[i] # "absent"

\* A workspace that links to the dependency store finds dependencies there,
\* unless a publication whose link failed was taken back.
LinksResolve ==
    \A i \in Issues : deps[i] = "link" => (entry = "whole" \/ withdrawn)

\* A baseline in the build store is partial only while it is copied, or after
\* a call failed or a process died: cp is not atomic, and a reader cannot tell.
PartialBaselineIsExplained ==
    baseline = "part" => (faults > 0 \/ \E i \in Issues : pc[i] = "copying")

\* All that a workspace and the stores are said to be.
WorkspacesAreWhole ==
    /\ LeaseFileMeansWhole
    /\ CleanRunsShare
    /\ LinksResolve
    /\ PartialBaselineIsExplained

\* The dependency store implements its contract: whole or absent, whoever
\* publishes, fails and dies.
Contract == INSTANCE DependencyStore
ImplementsStore == Contract!Spec

\* Whatever a process that sets up a workspace waits for comes: no interleaving
\* of the lock, failures and deaths keeps it from ending.
SetUpsEnd ==
    \A i \in Issues : []<>(pc[i] \notin Preparing)

\* cli.py:204 tells a claimant whose set-up failed: "To retry: remove
\* <workspace>, then claim again. The lease is held".  A claim with the
\* workspace removed is not refused for the lease that the failure left held.
AdviceCanBeTaken ==
    \A i \in Issues : pc[i] = "lost" => tree[i] # "absent"
=============================================================================
