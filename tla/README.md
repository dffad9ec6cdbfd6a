# A TLA+ verification of Choir in ProbMethodCombinatorics

This directory specifies and checks the program that this repository runs its
formalisation with: how contributors' agents lease a task through comments, set
up a workspace and submit; how labels follow; how the orchestrator sweeps,
merges, polls and keeps the plan; and how the gate reads texts and judges pull
requests. The mathematics itself is not modelled.

Paths are relative to the repository. `tlc -config X.cfg M` runs a
configuration; `tlapm M.tla` checks a module's proofs.

## 1. The system

GitHub is the only shared store. Contributors have no write access: they
comment, and push to forks. Nobody arbitrates. On a contributor's machine several
commands share one clone and two stores. Each gate job is a process of its own.

| part | state | operations | talks to |
|---|---|---|---|
| lease comments and arbiter (`gate/state/lease_comment.py`, `lease_arbiter.py`) | none (a pure function of the thread) | `parse_lease_comment`, `lease_comments_from_api`, `latest_by_worker`, `decide_lease` | called by the client and the orchestrator |
| client lease commands (`client/lease.py`, `heartbeat.py`, `release.py`, `cli.py`) | the thread; a session id | `claim`, `heartbeat`, `release` | GitHub's comments, the arbiter |
| workspace and stores (`client/task.py`, `workspace.py`, `repo_store.py`, `mathlib_cache.py`, `build_store.py`) | shared clone, worktrees, lease files, dependency and build stores | set up, roll back, warm, save, remove | the claim, the local disk |
| submission (`client/submit.py`, `fork.py`) | fork, branch, pull request | fork, sync, push, find or open, comment | GitHub |
| update and pin (`client/update.py`, `gate/protocol.py`) | the checkout `choir` runs from, its environment | refuse or claim; pull and repair | the pin in the project |
| label sync (`orchestrator/leases.py`, `labels.py`) | labels | `sync_lease_labels` | arbiter, issue labels |
| intake (`issue-intake.yml`, `gate/state/intake*.py`) | labels, acknowledgements, workflow runs | validate, comment, label | issue events, the sync's among them |
| task bodies and descriptions (`orchestrator/tasks/serialize.py`, `gate/state/intake.py`, `task_record.py`, `reduction_record.py`) | a text | serialise, parse, validate | people, who edit the texts |
| close-on-merge, reconciliation (`issue-close-on-merge.yml`, `gate/reconcile/`) | labels, open or closed | mark done; demote idle claims | merges; a daily schedule |
| merge (`orchestrator/prs.py`, `gate/checks.py`) | pull requests and their checks | `merge_pr`, `close_pr`, comments | GitHub, check policy |
| held runs, salvage (`orchestrator/runs.py`, `salvage.py`) | workflow runs; follow-up tasks | approve by commit; classify a failure, seed a task | GitHub, check policy |
| poll and loop (`orchestrator/poll.py`, `cli.py`) | a baseline | sweep, merge, wait for a change | GitHub |
| roadmap graph (`orchestrator/graph/`) | `roadmap/graph.json` | reconcile with the built source, sync | source, orchestrator |
| overlay upgrade (`gate/upgrade/manifest.py`) | the manifest | retire, record | the overseer's files |
| provers and inventory (`gate/provers/`, `gate/inventory/scan.py`) | none | blank comments, find declarations, statements, scopes | all audits |
| audits (`gate/verify/*.py`) | none | compare two versions of a file; build the comparator's workspace; exit | a checkout, the description, the linked task, two policy files |
| ready frontier, indexer, fingerprint, metrics | none | reports | people |

### What makes it hard, and what makes it correct

*Leases.* A claim is read, comment, wait, re-read. Other sessions (of other
logins and of the same one) act between any two of these; reads lag; a request
fails after it took effect; the agent dies. A lease goes stale when its holder
is quiet and passes to the next in line, while comments of the old holder may be
in flight. Correct: one worker at most believes it won; readers agree; a lease
is lost only by release or silence; a beat reaches the comment that counts;
bodies cannot speak for other logins.

*Labels.* Four writers list, decide and edit in separate calls, and none knows
the others; workflow runs are cancelled by later events; edits fail and the
failure is tolerated. Correct: an issue is never without a lifecycle label,
a verdict agrees with body and labels, and the label catches up with the thread.

*Machines.* Several commands publish into shared directories by renames and
copies, may be killed at any step, and are run again over what is left. Correct:
what a workspace links to is whole, a lease file is on a whole workspace only,
sharing is lost only where something failed, and every command ends.

*Submissions.* Forks appear late and lose their names, a call fails after it took
effect, the pull request is merged or closed between two runs. Correct: a submit
that reports success offers its own work, on its own pull request.

*Merges and the loop.* Commit and checks are read, a comment is posted, a merge is
asked for: separate calls, between which contributors push, workflows report or
are run again, and another caller merges. The poller compares two listings taken
at different times. Correct: what lands was audited, or an override says what it
lacked; all readers of the checks judge alike; unsound work is not handed on; no
news that was read is slept over, and one failing call does not stop the loop.

*Plan and overlay.* The source changes under the plan, names collide, an upgrade
dies in the middle of a release. Correct: the plan's edges are the source's, what
people wrote in it survives, and a retirement deletes only what Choir installed.

*Gate.* Every audit reads texts through scanners that must agree with three
proof languages on what is a comment, a statement, a scope; a scanner that runs on
hides declarations. Policy files are read at two commits. Jobs read the
description at different times. Correct: scanners agree with definitions that
scan nothing, permitted work passes and forbidden work does not, green means
proved, and a pull request is judged by the protected branch.

## 2. Modules

| module | models | kind |
|---|---|---|
| `LeaseArbiter` | comment bodies, freshness, the walk, the decision, the comment a beat edits | operators only |
| `LeaseThread` | a thread as anyone may write it, with `decide_lease` evaluated on it | specification |
| `LeaseProtocol` | claim, heartbeat and release by concurrent sessions | specification |
| `Intake` | the intake workflow on an issue | specification |
| `LifecycleLabels` | all writers of an issue's labels; extends `Intake` | composition |
| `DependencyStore` | a dependency set, absent or whole | abstract specification |
| `Workspace` | set-up, warming and removal of workspaces over shared stores | specification |
| `Submission` | `choir submit`, run again and again | specification |
| `ChoirUpdate` | the protocol pin and `choir update` in a shared checkout | specification |
| `Checks` | the check table, what blocks, what must be present, how failures are classified | operators only |
| `PullRequest` | one pull request: pushes, workflows, merge, override, salvage | specification |
| `OrchestratorLoop` | sweep, merge and poll over several tasks | composition |
| `RoadmapGraph` | the plan, its regeneration and the source under it | specification |
| `OverlayManifest` | upgrades, retirements and the overseer's edits | specification |
| `TaskBodies` | task bodies and reduction blocks, line by line | specification |
| `CommentBlanking` | comment blankers and the line scanner, over texts being typed | specification |
| `IsabelleStatement`, `RocqStatement` | where a statement ends in these texts; extend `CommentBlanking` | operators, properties |
| `LeanStatement` | the same for Lean, token by token | specification |
| `Statements` | the three side by side | properties |
| `DeclSpans` | keys, scopes and line spans of declarations in three languages | specification |
| `FileAudits` | the audits that compare two versions of a file | operators only |
| `DeclAudits` | a file that is edited, under these audits | specification |
| `AuditJobs` | three jobs on a pull request whose description may change | composition |
| `TrustCounts` | axioms and decidability instances counted in two versions | specification |
| `ComparatorWorkspace` | the tree of modules the comparator builds | specification |
| `GatePolicies` | the two policy files at base and head and the audits they govern | specification |
| `MCLease`, `MCClient`, `MCOrchestrator`, `MCGate` | parts that share nothing, side by side: a behaviour is of one part | instances |
| other `MC*` | one specification each | instances |
| `LeaseProofs` | lemmas about the arbiter's walk; theorems about `LeaseThread` and `LeaseProtocol` | proofs |
| `PullRequestProofs` | theorems about `PullRequest` | proofs |
| `ClientProofs` | theorems about `Workspace`, `Submission` and `ChoirUpdate` | proofs |
| `OrchestratorProofs` | theorems about `Intake`, `LifecycleLabels`, `OrchestratorLoop`, `OverlayManifest`, `RoadmapGraph` and `TaskBodies` | proofs |
| `GateProofs` | theorems about `GatePolicies`, `ComparatorWorkspace`, `TrustCounts`, `DeclAudits` and `AuditJobs` | proofs |
| `TextProofs` | theorems about `CommentBlanking` | proofs |
| `StatementProofs` | theorems about the statements of the three provers and about `DeclSpans` | proofs |
| `FoldLemmas` | lemmas about folds, iteration, sequences of a set, and walks over a text | lemmas |

### LeaseArbiter

`parse_lease_comment` is `IsLeaseBlock`: which bodies count; `LeaseComment` is
the row built by `lease_comments_from_api`, with the row's login rather than the
body's. `WalkStep` is the body of the loop in `decide_lease`, `Decide` what
follows the loop, `FreshCandidates` the line behind a stale holder,
`HeartbeatTarget` the function of that name. A body is a record saying for each
key whether its value is well-formed and what it is. Left out: the list
`superseded` and the wording of reasons, which nothing reads. A timestamp is a
tick or `Garbled`, which `_is_fresh` takes for fresh.

### LeaseThread

`rows` are API rows, posted and edited by anyone under their own login.
`DecideLease` walks them and decides. `WalkOf`, in `LeaseArbiter`, is the loop
over the sorted comments: a recursive function over sets of rows, whose value at
a set is the step of its newest comment after the walk over the rest. The
properties compare it with `Tenures`, a definition of who holds the lease that
walks nothing.

### LeaseProtocol

`thread` is the issue's lease comments in id order. A session's `pc` says where
`claim()` is (`reading`, `posting`, `settling`) or how it ended; `startedAt` is
the `now` that `claim()` takes once and uses for both decisions; `beats` and
`releasing` hold what `heartbeat()` and `release()` decided to write and have
not yet written. Each read and each write is an action of its own:

| action | code |
|---|---|
| `StartClaim`, `ReadBefore`, `PostClaim`, `ReadAfter` | `claim()`, its steps 1-5 |
| `ClaimStops`, `ClaimReplyLost` | the `ERROR` outcomes, and a death at any point; in the second the comment landed |
| `BeatRead`, `BeatWrite`, `BeatStops` | `heartbeat()`: read and decide; post or edit; fail silently |
| `ReleaseRead`, `ReleasePost`, `ReleaseReplyLost`, `ReleaseStops` | `_release()` |
| `Tick` | time |

A read returns the thread without its last `0..MaxLag` comments, the
read-after-write miss that `claim()` has a branch for. A beat is made with the
claim's session (`prepare_task`) or with none (`choir worker heartbeat`, and the
default argument). `walks` holds the walk over each prefix of the thread, so that a
reader of the first k comments decides from `walks[k + 1]`. No code keeps it: it
saves walking again at each step, and `LeaseProofs` proves as a lemma that it is
what walking the prefix gives (`WalksAreFolds`). `DecideView` is `decide_lease` on
such a read.

A session that ended with LOST_RACE is `idle`: it may still become the holder
when the winner goes stale, and its comment stays in line, as in the code.

### Intake and LifecycleLabels

One issue. `run` is the workflow run in progress: the body its event carried,
whether to post, and the label edits left. Every event replaces the run, even
one whose job is then skipped, because the concurrency group is the workflow's
and is entered before the job's `if` is evaluated. `judged` is history: the
verdict of the last completed run, while no later event has asked for another.
`LifecycleLabels` adds the sync (`SyncLists`, `SyncDecides`, `SyncEdits`,
`SyncFails`), reconciliation, close-on-merge and the claim's pre-check. The
lease is what `decide_lease` would say: `free`, `held`, or `lapsed`, from which a
beat in flight brings it back. The sync edits under the orchestrator's login, so
adding a label starts or cancels an intake run; workflows use the bot's token,
whose edits start nothing.

Abstractions: the removal and addition in one `gh issue edit` are one step; a
label edit of intake or close-on-merge is one `gh` call, which works or fails
without anybody's being told (`|| true`, `EditLabel`), and `missed` is history: the
edits that failed and that no later edit of the same label has made good;
reconciliation's threshold is at least a day (`gate/reconcile/config.py`) and
the arbiter's window is a day, so an issue it finds quiet holds no lease; legacy
heartbeat labels, which no code writes any more, do not occur.

### Workspace and DependencyStore

For each issue `pc` says which call of which command is next; `tree`, `deps`,
`build` are its directory, `meta` the session in its lease file; `lock`, `clone`,
`worktrees` and `branches` are the shared clone; `entry` and `baseline` are what
the two stores hold. Set-up runs from the won claim to
the lease file (`ClaimWon` to `WriteFiles`), warming fills dependencies and
baseline (`RestoreHit`, `LinkHits`, `Fetch`, `Promote...`, `Save...`), removal
posts the release and takes the tree away (`ReleasePosts`, `DropWorktree`,
`RemoveTree`). Each call may fail, and `Killed...` ends a process between any
two; `faults` counts both. A `git worktree add` that fails may leave the branch that it
made (`WorktreeFails`), and a clone whose fetch fails stays (`CloneEnds`).
`TakeAdvice` is a user who does what the error message
says. `withdrawn` and `byHand` are history. `DependencyStore` has two states and
two actions, and `ImplementsStore` maps the renames, links and half-fetched
directories of any number of processes to it.

### Submission and ChoirUpdate

`stage` follows `submit_at`: finding the fork, waiting for it to appear, syncing,
pushing, looking for the pull request, creating it, commenting. Branches carry
the same name in every repository, so `prs` records whose repository a pull
request comes from. A fork whose owner is a `Namesake` may have another name than
its upstream. Pull requests are merged or closed and branches get commits at any
moment. In `ChoirUpdate` a version is a number; a process keeps what it `loaded`
while `checkout` and `env` change under it.

### Checks and PullRequest

`Checks` holds the tables of `gate/checks.py` as they are. `status` is what
GitHub knows of each check on the head commit; `held` runs and `absent` ones are
not in the rollup, which is `Present`. `merger[c]` says where caller `c` is in
`merge_pr`, with the commit it read:

| action | code |
|---|---|
| `MergeReads` | `get_pr` and the preflight; a refusal changes nothing |
| `OverrideReads`, `OverrideComments` | the same read with `force`; the comment that names commit and state |
| `MergeLands`, `MergeStops` | `gh pr merge --match-head-commit`; a failed call, a refusal by GitHub or a death |
| `Approve` | `approve_runs_for_sha` for the commit last read, up to the call that fails |
| `Salvage` | `classify_failure` and `create_salvage_task` |
| `ClosePullRequest`, `ReadPullRequest` | `close_pr`, `get_pr` |
| `Push`, `Reopen`, `Report`, `Rerun` | contributor and GitHub Actions: the workflows start on `opened`, `synchronize` and `reopened` |

`vouched`, the checks that ever reported success on the head, and `landed` are
history. A caller names the project's prover or none. `Salvage` takes every check
that shows and is not green, and asks of the caller what `classify_failure`'s
comment does: some blocking failure, no required check missing. What it read
travels with the commit, so reading and creating are one step. A check has one
entry in the rollup, and its name stands for the segment `_canonical` reads.

### OrchestratorLoop, RoadmapGraph, OverlayManifest, TaskBodies

`loopPc` follows the three commands: `listing`, `sweeping` and `editing` for the
sweep over all tasks; `merging`; and in the poller `basing`, `sleeping`,
`reading`. A baseline and a snapshot are two listings with time between them,
each an action. A failed call in the sweep ends the sweep, in a snapshot it is
tried again, as the code does. Merging stands for any pull request that may have
closed between being read and being merged.

In `RoadmapGraph`, `source` is what contributors have, `built` what the last build
saw, `graph` the plan; `synced` remembers what a regeneration was given. Node ids
are derived from names by the code's two ways of shortening them, which is why
the instance has names that collide.

A regeneration mints, for the declarations in order, the nodes that are missing,
and then rewires them all: a fold and a function over the nodes.

In `OverlayManifest` a file's content is the one who wrote it. An upgrade copies,
plans, deletes and writes the manifest, and may die at each point, the write
included, which leaves a manifest that the next run refuses. A path may be
managed in one release, seeded in a later one and gone in the next: what is then
there was handed over to the overseer (`HandedOver`), and is not retired.

In `TaskBodies` a text is a sequence of lines, each a key with a value of some
class (plain, quoted, empty, a list, ...). A record is written as a body, edited
by hand line by line, and read back by validator and project checks; a reduction
block is looked for in a description. Values that take several lines, and paths
with a doubled `./`, are outside its `Plain` values: see section 6.

### The gate

`CommentBlanking` types a text symbol by symbol, and evaluates `strip_comments`,
`_blank_isabelle_comments` and the line scanner on each text. A delimiter is one
symbol. `IsabelleStatement` and `RocqStatement` evaluate the statement extractors
on the same texts, `LeanStatement` on declarations of tokens whose author
remembers where the value began; their types may have an unbracketed `:=`, `where`
or arrow, as `let` and `fun` do. `DeclSpans` types files line by line; `paths` and
`owners` say what the author means by each line, which the walks are not told.

`FileAudits` takes the declarations of two versions of a file as given; `DeclAudits`
edits the head in permitted and in forbidden ways. A file's targets for the trust
report are cut to `Cap`, of which the files before it may have taken any part.
`AuditJobs` has three jobs of one pull request read commits, description and linked
task at moments of their own. The comparator is asked for the axioms of the target
alone, which are those of what it uses (`RestsOnSorry`). A call of git that fails
and is taken for an answer is one of `Failures`, at most one in a job, and `broke`
remembers which job had one. `TrustCounts` counts what the patterns of the axiom and
decidability audits meet. `ComparatorWorkspace` rewrites imports of base's modules
under a prefix and resolves a module's imports in the tree that results.
`GatePolicies` has the two policy files, absent, malformed or sound, at base and
head, while a push restarts the audits and a change of the protected branch does
not. `since` is where the branch was when the head was pushed. A `git show` may fail
for either policy file and for the audited files of either side, which then read as
empty; `unread` remembers for which side. The audited files of a side are one file
there: in the code each is shown by a call of its own, so that a part of them may be
lost.

## 3. Runs

| run | question | bounds |
|---|---|---|
| `lease` | does the arbiter compute the lease; do readers agree; who may take it from the walk's holder? | 2 logins, 3 workers, 4 rows, 5 bodies, clock up to 2; beside it 2 workers, 5 comments, exact reads |
| `race` | can two sessions win? | 3 workers (2 of one login, one without session), 3 comments, reads may miss one |
| `board` | do four writers keep the labels sound, and do labels catch up? | 1 record and a bad body, 1 event, any number of sweeps; calls fail, of label edits 1 at a time that is not made good |
| `merge` | is what lands audited, or named; do all readers of checks agree; are seeds sound? | 2 callers, one of them an overseer, 2 pushes, 9 checks of which 2 are slow, 1 override comment |
| `client` | are workspaces whole and shared, submissions one's own, updates repairs; do commands end? | 2 issues, 2 claims, 2 faults; owner and contributor, 2 commits, 2 pull requests, 1 failing call; 2 processes, 3 versions |
| `orchestrator` | acknowledgements under failing calls; is news slept over; does the loop go on; plan, overlay and texts | 2 records, 4 events; 2 tasks, 2 events, 2 ticks, 1 fault; 3 declarations, 3 changes; 3 releases, 2 edits, 1 death; 2 line edits |
| `gate` | do scanners agree with definitions that scan nothing; do audits, jobs, counts and policies judge by what they should? | texts of 6 symbols over 9 alphabets; 5 tokens; 4 lines, 2 scopes, 3 provers; 2 declarations of 10 drafts, 2 edits, 1 target probed; 2 projects, 2 commits, 1 edit of the description; 1 item of base, 2 edits; modules P and Q, 2 writes; 2 pushes, 1 change of the branch |
| `live_holder`, `release_frees`, `intake_answers`, `salvage_seed`, `advice` | statements of the repository that do not hold: see section 6 | |

Why the bounds suffice. A mistake of the arbiter shows on a holder, a competitor, a
later comment of the holder and one more comment: four rows. Two winners need two
claims, and a third comment for what disturbs them; the third worker distinguishes a
session's rival under its own login from one under another. Five comments let a
lease be claimed, go stale, be taken over, and be beaten or released by either. In
`race` and on the longer thread of `lease`, `StaleAfter = 1` and `Stride = 2` make
the one step of the clock a stale interval; more steps repeat it. On the thread of
`lease` that anyone writes to the clock moves by 1 up to 2, so that a comment may
also be old and still fresh: a beat that edited the wrong comment would only show
there. `MaxEvents` counts only what people do: cancellations also come from the
sync, which is unbounded, and so do new runs, so that one event is enough for a run
after a verdict. With `MaxMissed = 1` one failed edit is outstanding at a time and
any number fail in turn. `MaxAcks` only stops the count. In `merge` a second push is
what a read can be stale against, and a third would only be another one. Of the slow
checks one blocks on every prover and one is relaxed for Lean; a push may delete the
workflow of a third. The checks that are not slow pass as soon as they run: what
they could add is red where the slow ones are.

In `client` two issues are two processes at one store, and a second claim of an
issue finds what the first left; one fault breaks something and the second breaks
its repair. A second commit is what a pull request lacks after a lost push, and a
second pull request what a merged one is confused with. Three versions let a process
run an old one, the pin name the next and the checkout hold the newest. In
`orchestrator` two tasks let a sweep end between them; each event may fall before
the baseline, inside it or inside a snapshot; three releases let a path go, come
back and change class. In `gate` six symbols hold an opener, a closer and what may
hide either; each alphabet has the symbols one hazard needs. Four lines hold two
scopes, or a scope and two declarations. Two edits compensate each other where
counts are compared, and replace the one construct of base by another; with `Cap =
1` the second target of a file, and the first one after another file, are over the
cap; files of any length are what `TrustGrowsInSightHolds` is about.

Deadlock is not checked because bounded threads, texts and counts end, and an
issue at rest is a legitimate end. That everyone waits on everyone is instead
`CommandsEnd` and `LoopGoesOn`, liveness under fairness.

The properties of the passing runs:

- `HolderIsTenant`, `AuthorIsTheRows`, `HolderAskedAndIsThere`, `BeatIsVisible`:
  the walk gives the earliest unreleased claim; bodies do not speak
  for logins; a lease never passes to a worker that left; a beat counts.
  `ReadersAgreeOnAWinner`, `HolderLosesOnlyByItsRelease` (`lease`). The last says
  that nobody else takes a lease, and not that its holder can give it back: a
  worker to whom a stale lease passed cannot (`release_frees`).
- `OneWinner` (`race`).
- `StrandedOnlyByFailure` (without a lifecycle label only where the addition of one
  failed), `VerdictStands` (but for the label whose own edit failed),
  `LabelFollowsLease` (`board`).
- `LandedWasAudited`, `TrailNamesTheCommit`, `ReadersAgreeOnGreen`,
  `SeedsAreVouched` (`merge`).
- `WorkspacesAreWhole` (a lease file means a whole workspace, clean runs share
  the clone, links resolve, a partial baseline has its fault), `ImplementsStore`,
  `SubmissionsLand` (success means offered, comments are on one's own pull
  request, nothing goes elsewhere), `ClaimsAndUpdatesAgree`, `CommandsEnd`
  (`client`).
- `AcceptedIsAcknowledged`, `NothingIsSleptOver`, `LoopGoesOn` (every poll ends;
  the board catches up), `PlanIsTheSource` (regeneration is idempotent; edges are
  the terms' own), `IntentSurvives`, `OnlyOwnIsDeleted`, `NothingIsLeftBehind`,
  `BodiesReadBack` (only the front matter speaks, accepted bodies are tasks,
  blocks are whole) (`orchestrator`).
- `LexersAgree`, `StatementsAreExact`, `SpansAreTrue`, `AuditsRefuse`,
  `AuditsPermit`, `JobsVouch`, `TrustGrowsInSight`, `SidesStandApart`,
  `JudgedByTheBranch` (`gate`). `LexersAgree` (in `CommentBlanking`),
  `StatementsAreExact` (`Statements`) and `SpansAreTrue` (`DeclSpans`) are the
  conjunctions of what the modules of their part state, as `JobsVouch` is in
  `AuditJobs`, and as `AuditsRefuse` (no statement lost or changed; in a reduction,
  no placeholder moved, none added but as an obligation, the target proved; long
  proofs not longer; restatements probed, or the report says that it is cut) and
  `AuditsPermit` (permitted work, untouched files) are in `DeclAudits`. Of green
  jobs `JobsVouch` says that the target and what it uses are proved, and not that
  its file has no other placeholder; it says nothing of a job that took a failing
  git call for an answer. `JudgedByTheBranch` speaks of audits that could read what
  they compare. Section 6 says what happens otherwise.

Each has a mutant, an operator named after the definition it replaces and placed
before it (`WalkStepAnyRelease`, `ReadAfterByLogin`, `SyncEditsAlone`, ...), with
which TLC finds the property violated.

`OneWinner` speaks of `won`, a claim of a free lease. A session that took over a
stale lease (`took`) may be displaced by the old holder and is the subject of
`live_holder`.

### Fairness

Safety assumes none. Liveness assumes, and the code justifies:

- `board`: the sync's loop is run again and again (`WF` of `SyncLists`) and not
  every sweep fails (`SF` of `SyncDecides` and `SyncEdits`): the orchestrator's
  playbook repeats the loop, and a failed call ends a sweep and not the loop.
  Nothing is assumed of intake, reconciliation, merges or workers, and the
  property concludes only about an issue whose lease stays as it is.
- `client`: a command that is running takes its next step (`WF` of `SetUp`,
  `Warm` and `Remove` for each issue, of `Submit` for each contributor). A step
  may be the failure. Nothing is assumed of users, of the other command's being
  run at all, or of GitHub: a fork need not ever appear, and the wait for it ends
  by its own count.
- `orchestrator`: the loop takes its next step (`WF` of `Sweep`, `Merge` or
  `Poll`, which is one process). Nothing is assumed of contributors. Failed calls
  are bounded by `MaxFaults`, so none fails for ever; that every poll ends does
  not need this, because failed snapshots use up its wait.

## 4. Theorems

Each is for every value of the constants.

| module | theorems | assumed of the constants |
|---|---|---|
| `LeaseProofs` (`LeaseProtocol`) | `TypeCorrect`, `OneWinnerHolds`, `ReadersAgreeHolds`, `HolderLosesOnlyByItsReleaseHolds` | sessions of one login differ (`new_session`), markers are no members of what they mark, bounds are naturals |
| `LeaseProofs` (`LeaseThread`) | `HolderIsTenantHolds`, `AuthorIsTheRowsHolds`, `HolderAskedAndIsThereHolds`, `BeatIsVisibleHolds` | a body's fields are of their types or `"bad"`, which is no login; the rest as above |
| `PullRequestProofs` | `TypeCorrect`, `LandedWasAuditedHolds`, `TrailNamesTheCommitHolds`, `SeedsAreVouchedHolds`, `ReadersAgreeOnGreenHolds` | the repository may report each required check |
| `ClientProofs` (`Workspace`) | `TypeCorrect`, `WorkspacesAreWholeHolds`, `StoreImplemented` | the marker of a free lock is no issue; bounds are naturals |
| `ClientProofs` (`Submission`) | `SubmissionsLandHolds` | none |
| `ClientProofs` (`ChoirUpdate`) | `ClaimsAndUpdatesAgreeHolds` | there is a version; bounds are naturals |
| `OrchestratorProofs` (`Intake`) | `AcceptedIsAcknowledgedHolds` | bodies, records and markers differ; bounds are naturals |
| `OrchestratorProofs` (`LifecycleLabels`) | `StrandedOnlyByFailureHolds`, `VerdictStandsHolds` | as for `Intake`: any label may be undefined and any label edit may fail |
| `OrchestratorProofs` (`OrchestratorLoop`) | `NothingIsSleptOverHolds` | none |
| `OrchestratorProofs` (`OverlayManifest`) | `OnlyOwnIsDeletedHolds`, `NothingIsLeftBehindHolds` | the number of releases is a natural |
| `OrchestratorProofs` (`RoadmapGraph`) | `PlanIsTheSourceHolds`, `IntentSurvivesHolds` | the declarations are a sequence of names |
| `OrchestratorProofs` (`TaskBodies`) | `BodiesAlwaysReadBack` | drafts are of this project and version and in a file of its prover, and no value of theirs is the opening of a quoted one; lines are sequences of strings |
| `GateProofs` (`GatePolicies`) | `JudgedByTheBranchHolds` | none |
| `GateProofs` (`ComparatorWorkspace`) | `SidesStandApartHolds` | there are finitely many modules; none is external or named as a side of the workspace is |
| `GateProofs` (`DeclAudits`) | `AuditsRefuseHolds`, `AuditsPermitHolds` | drafts are declarations; no scope is named as the `<anon>` of a key, no task as a nameless declaration; a base version's length has a bound; the cap is a natural |
| `GateProofs` (`AuditJobs`) | `JobsVouchHolds` | the names that the model gives to declarations are strings, of which the provers have no fact of their own |
| `GateProofs` (`TrustCounts`) | `TrustGrowsInSightHolds` | a base version's length has a bound |
| `TextProofs` | `LexersAlwaysAgree` | what is typed are symbols |
| `StatementProofs` | `StatementsAlwaysExact` | what is typed are symbols |
| `StatementProofs` (`DeclSpans`) | `SpansAlwaysTrue` | none |

*Leases.* `OneWinner` is not inductive: that a session won says nothing of the
thread. The invariant is `Typed /\ Persists /\ WonThen`. `Persists`: between two
prefixes of the thread the walk's holder is the same unless its login released
between them. `WonThen`: the walk over the view a winner read names that winner. Two
winners then hold in a common prefix, and one of them released. `Persists` is kept
because `WalkStep` changes a holder only on a release of its login
(`WalkStepKeepsHolder`) and a new comment only extends the prefixes; beats edit a
comment's stamp, which the walk does not read. `WonThen` rests on `DecideClaimed`:
the reason "claimed" is given only to the walk's own holder. Agreement uses
`DecideFresh`: a fresh holder of the walk is decided. That the walks kept are walks
(`WalksAreFolds`) follows prefix by prefix: the newest comment of a prefix is its
last.

*The thread.* The invariant of the thread is that ids are `1..n`, each once. That
the walk's holder is the one open tenure is an induction over sets of comments:
the theorem states it of every set of well-formed comments, by the minimal
counterexample, whose newest comment is a claim, a release or neither. `Tenures` is
a `CHOOSE`, so the same induction first shows that exactly one set satisfies it
(`FoldLemmas`). `AuthorIsTheRows` needs that reading a row takes the author from
the row alone, so that both threads have the same comments; `BeatIsVisible`, that
a beat changes no holder, that the holder's newest beat is what `heartbeat_target`
finds, and that a comment posted or edited now is fresh for a window.

*Labels.* The strengthening says what is left of a run (`RunInv`), that what it is
about to remove is not the only lifecycle label, unless the addition before it is
among the edits that failed (`CoveredInv`), and that close-on-merge added `done`, or
failed to, before it removes anything (`CloseInv`). Any number of edits may have
failed; what each fact excepts is the one edit that would have made it true, and a
later edit of that label that works makes it good. `AcceptedIsAcknowledged` needs
that a run that judged a record posts before its first edit, and that the edits of a
rejection accept nothing (`AckInv`). That a run always posts (`AlwaysPosts`) is the
`jq` filter that section 6 names.

*Pull requests.* A merge's property speaks of a commit that was read earlier, so
the invariant (`MergerInv`) says what a caller in the middle of `merge_pr` knows
*if the commit it read is still the head*: its auditors vouched for it, or what
they lack is in the override. A push makes the condition false for every caller,
because commits only grow; no other step forgets what was vouched. That an
omitted prover is safe rests on `OverridesRelax`, and salvage on `TrustIsTrust`.

*Workspaces.* The invariant is `TypeInv /\ StoreInv /\ BaselineInv /\ LeaseInv /\
CleanInv`. A link resolves because what is promoted was fetched whole and what is
being linked is this process's publication (`StoreInv`). A lease file is on a whole
workspace because it is written last and a release ends the lease before it takes
anything away (`LeaseInv`). Runs without faults share the clone because a branch
always belongs to a worktree with its lease file, so that a removal finds what to
delete (`CleanInv`). `StepsAreLocal` says once that a command disturbs only its own
issue, so that each proof speaks of one.

*Submissions.* The property speaks of the end of a run, so `Runs(c)` says what each
stage already knows: before a push the remote is one's own fork, after it the
branch has what was there at the start, and a number to be posted is of an own
pull request. Pull requests keep numbers and owners (`OwnersStay`).

*Updates.* The gate compares the pin with the code its process loaded, which no
update changes under it, and before the gate the process asked for nothing
(`GateInv`). Only the step that installs what the checkout has at that moment
reports an update as done.

*Poll.* Since the baseline `updated_at` only grows, and has grown at each task with
news; so two equal listings have no news between them (`BaselineInv`).

*Overlay.* What the manifest would delete was written by a release
(`ManifestInv`), and what a running upgrade is about to delete is not the
overseer's (`RunInv`), also when an earlier run died between its steps. That
nothing is left behind needs (`LineageInv`) that what a release wrote is, at each
step of a run, dead or not, in the manifest as managed with the hash of what is
there, or handed over, or about to be deleted. A release left half installed, or a
manifest thrown away, loses this, which is what `abandoned` says.

*Plan.* `PlanIsTheSource` is inductive with the types (`GraphInv`); the work is in a
regeneration. Minting is an induction over the sequence of declarations
(`FoldLemmas`): after each, the nodes that were there are as they were and the new
one's id is fresh, because a number up to two more than there are ids is free
(pigeonhole). Rewiring reads a declaration's node the same before and after, so a
second regeneration changes nothing and the edges are those of the terms.

*Policies.* What an audit exits with is its verdict by one of the policies that the
branch had since the push, on the files that `git show` gave it (`PoliciesInv`): a
policy file that is not shown is the default, which allows no more than any policy
of a Lean project. Nothing follows from a green audit that could not read the head,
nor from a red one that could not read the base, and nothing is claimed of them. The
policies in force only grow until the next push, which starts the audit again.

*Comparator.* The trees hold each module under the name of its side, with its
imports rewritten where they are base's own (`TreesOK`, `FilesOfTheWorkspace`). A
set that has a module and is closed under imports has what the module reaches, an
induction on the number of steps (`ReachesWithin`), and the modules of one side are
such a set because names of the two sides differ (`NamesApart`).

*Counts.* That the axiom audit sees what is added compares counts of one sequence.
The decidability count is over the flattened text: an induction over the file
(`FlattenIs`) says where each item's text begins, so that the header of an
instance ends inside its own text or at the next `:=` (`HeaderIs`,
`HeadersApart`), and the positions counted are the instances, one each
(`CountsGrowTogether`).

*Audits.* All that is needed of a state is that both versions are sequences of
declarations (`AuditsTypeOK`): the properties are about functions of the two. That
nothing is lost asks for one injection from base's declarations to head's. A key
on which the texts decided has, for each text, equally many declarations on both
sides, and one on which the parser decided has one on each; so there are bijections
of these classes, and since classes of different declarations are equal or apart,
they join into an injection (`Matching`). A reduction's verdict is read
backwards from a declaration with a placeholder: it is alone under its key, is not
the target, and did not rise or was declared (`CleanReduction`); that a key's
count is positive only where a declaration has one is an induction over finite
sets (`SumOfHoles`). What is permitted keeps its key, and the parser sees no change
in it (`KeptHasKey`, `KeptIsUnchanged`); untouched declarations make the counts of
texts equal by the injection that shows them untouched.

*Jobs.* None of the four parts of `JobsVouch` is inductive. `JobsInv` says what each
job knows when it has read, that a job which is not in `broke` had every call
answered, and that a pass is a verdict on the commits, which stand still once the
pull request is open: so agreement is the comparison of two readings of one
description. A green comparator's target does not rest on a placeholder, by
`Finding`, or it is a reduction, and a green one is `CleanReduction` on the target's
file, where base has nothing but the target. For files that move, `FilesInv` says
that where names are given at most once, either no file has moved or one has, and
where it came from; so `detect_rename` finds what GitHub pairs (`RenameIsDetected`),
except where a file moved onto the name of a deleted one, and there the name it left
is audited and cannot pass. The tasks and the base files are those of the model;
commits, edits, projects and descriptions are unbounded.

*Texts.* A lexer that reads every symbol once is a run of states (`LexStatesRun`).
Each scanner is a walk whose next position depends on what it found; `WalkExists`
gives such a walk its equations, because it only goes forward, and `Backwards`
proves a fact about it from the end of the text to its beginning. The fact about a
span is where it ends: at the first position after which the lexer is in code
again, or past the text (`NestEndSpans`, `StringSpans`). So what `strip_comments` blanks
from a position is what the lexer calls a comment from there on. The Isabelle
blanker differs in what it does inside a cartouche and in how it counts escapes;
where no mark has a cartouche its walk meets the other's at every position in code.
The line scanner reads the blanked text, so that what must be carried over is what
a lexer in code would do with each symbol that blanking leaves (`BlankedReads`):
`ScanReads` says that the scan of any part of a line takes what the lexer has open
at its first symbol to what it has open past its last.

*Statements.* Isabelle: within a line the cut is the first position where code
opens or completes a proof (`CutsAtProof`, from `ScanReads`), and the test before a
line fires where code begins a declaration or a command, or, inside a string or a
cartouche, where `ReadsAsEnd` says so (`EndsInCode`). One line then captures what is
before every end of the header, if the following lines do (`LineCaptured`,
`LineKept`). Rocq: from each position the sentence scan finds the first dot that
the lexer has in code (`SentenceStep`). Lean: the scan carries the depth of the
brackets and the place of a bar that may begin alternatives; the invariant
(`LeanInv`) says what has been typed since the author began the value, so that the
scan ends there (`SignaturesEnd`) where no token of the type misleads it
(`NothingMisleads`). Where an unbracketed `:=` or `where` of the type does, it is
proved that the scan ends at the first one (`LetEndsTheStatement`).

*Spans.* `SpansInv` relates what was typed to what the author meant by it. Each line
is of a declaration, which begins where the line says and of which every line since
but a blank one is, or it separates declarations (`LineMeant`). The walk over the
scopes is one function of the lines (`WalkIsOne`), which another line only extends;
it has the author's scopes open, except for the names of sections that Lean alone
keeps (`Seen`), and an Isabelle locale's header waits for its `begin`
(`HeaderMeant`). A closer then pops the scope that it closes (`PopsInnermost`): the
last one of that name, in Lean because it is the innermost, in Rocq because the
names of nested scopes differ, so that no scope further out is popped for a section
whose name was not kept. So the prefix at each declaration is the author's
(`WalkMeant`), and its name is on its line or on the first line below that is not
blank (`NameMeant`). From the owners of the lines it follows that the next
declaration or trailer after a declaration comes after the last of its lines
(`SpanCovers`), and that no other line comes before (`SpanTakes`).

*Bodies.* `BodiesInv` says where the front matter stands: between two fences, the
first of which the reader comes to, and line for line what was written (`Stands`).
Edits below it leave those lines where they are (`InsertKeeps`, `RemoveKeeps`,
`FrontKept`), and what is put above moves them and is passed by (`FrontMoved`); of
other edits only the types are kept. The reader's walk goes only forward, over
blank lines and comments, and stops at the first fence because every place on the
way is one that it passes (`ContentIs`, with `WalkExists` and `Backwards`). What is
then read is a mapping in which each field is said once, as it was dumped
(`DumpedIs`, `SaidIs`), and no rule of validation speaks against a record that was
written from a valid draft (`RecordSound`, `SoundReads`). An accepted body, however
it came about, has such a record, so that writing it anew reads the same
(`AcceptedReads`). Blocks need only the types: the opener and the closer are the
least of two sets, and each field of the mapping is on a line between them
(`BlocksRead`).

Induction. The library's induction theorems take a predicate as a parameter, which
the provers cannot instantiate. What is proved by induction here states the set of
counterexamples instead, which is a term: the least element of a set of naturals,
or of sets ordered by inclusion, gives the step. `FoldLemmas` does this once for
folds over sequences and for iteration. It works where the operator is a fold or
an iteration by single steps.

Left to TLC: `LabelFollowsLease`, `CommandsEnd` and `LoopGoesOn`, liveness under
fairness, because no backend reasons about it with `ENABLED`. Every safety invariant
and every action property that a run checks is a theorem.
No module declares a `RECURSIVE` operator.

## 5. Not modelled

- *Ready frontier and scheduling* (`client/deps.py`, `client/scheduling.py`):
  one-shot orderings of a listing; nothing is kept, and nothing but the order of a
  printed list depends on them.
- *Indexer and protocol fingerprint*: reports and hashes of one checkout in one run.
- *Metrics*: counts over comments and pull requests that the other parts own.
- *Lean development and roadmap data*: mathematics and data.
- *Rendering*: the wording of comments, issues, reports and pull requests, except
  for the two texts that are read back (`TaskBodies`).
- *Processes outside the repository*: what `lake`, `rocq`, `isabelle` and the
  comparator's binary compute. Jobs take their result as given.

Partly modelled, and what is left out:

- *Lease comment format*: rendering and the line grammar of a comment; a body is
  what it parses to.
- *Close-on-merge*: the pattern that finds the closing keywords.
- *Reconciliation*: thresholds, and labels no code writes any more.
- *Merge, held runs and salvage*: the list of a pull request's files, the deletion
  of its branch, the text of a seeded task.
- *Orchestrator commands*: commands that only print what a module returns.
- *Gate jobs*: the comparator's configuration file and how its process is confined;
  a job in which several calls of git fail.
- *Audits of files*: a placeholder outside every declaration, which the reduction
  audit refuses (`sorry_delta.py:355`); a head file that cannot be read, which the
  trust report skips (`changed_decls.py:297-299`).
- *Declaration spans*: scopes that the code does not open, Lean's `mutual .. end` and
  Isabelle's `instantiation`, `notepad` and `bundle .. end`. In Isabelle the bare
  `end` of such a block pops a locale (`isabelle.py:1346-1353`, which says so), so
  `SpansAreTrue` speaks of files without them.
- *Policies*: an audit some of whose source files are shown and some are not; an
  axiom of base that is not on the whitelist, which under a whitelist fails each
  pull request that touches its file (`axiom_honesty.py:204-206`).
- *Provers*: session and project files, search paths, recognition of error output.
  The lexers are run over bounded alphabets; characters beyond those count as words.
- *Inventory*: the report and its labels.

## 6. Where code and documents part

With a run that shows it:

- `live_holder`: a late comment of the old holder displaces a live reclaimer
  (`gate/state/lease_arbiter.py:203`; `client/lease.py:153-157`).
- `release_frees`: a worker that took over a stale lease cannot release it: the
  arbiter matches releases with the stale holder (`lease_arbiter.py:188`;
  `client/release.py:6-7`).
- `intake_answers`: a skipped run cancels the run in progress
  (`issue-intake.yml:15-17`; `orchestrator/tasks/api.py:95-97`).
- `salvage_seed`: a red comparator beside a red `decide-instance` and a green
  build is a near miss, so a tree whose statement may be changed is handed on
  (`orchestrator/salvage.py:127`; doc 111-112).
- `advice`: who removes a workspace whose set-up failed and claims again, as told,
  presents a new session and is refused for the earlier one
  (`client/cli.py:204`).

Stated in a module, violated there, without a run of their own:

| statement | module, configuration | what happens |
|---|---|---|
| `CliBeatKeepsClaimAlive` | `LeaseProtocol`, as an INVARIANT in `MCLease.cfg` | `choir worker heartbeat` passes no session, so it never writes a beat for a lease taken with one (`client/cli.py:317`; doc 313-315) |
| `NeverStranded` | `Intake`, `MCLifecycleLabels.cfg` | an issue loses its last lifecycle label: the addition fails and is tolerated, the removal after it works (`issue-intake.yml:113-121`) |
| `AckOnce` | `Intake`, `MCOrchestratorAnswers.cfg` | `jq`'s `//` turns `false` into `true`, so the idempotency check never takes effect (`issue-intake.yml:100`; doc 97-99) |
| `RefusedIsNotMerged` | `OrchestratorLoop`, `MCOrchestrator.cfg` | a merge whose reply is lost is answered `merged: false`, as a refusal is (`orchestrator/cli.py:194`; doc 187-188) |
| `StatementTextIsKept` | `IsabelleStatement`, `MCGate.cfg` | a line inside a quoted statement or cartouche that begins with a stop word ends the capture (`gate/provers/isabelle.py:940-946`) |
| `TrailersAreNeverBody` | `DeclSpans`, `MCGate.cfg` | a line of a Rocq body that begins with the word `End` is taken for a trailer, so the body ends before it (`gate/verify/style.py:218`) |
| `RenamesAreFollowed` | `AuditJobs`, `MCGate.cfg` | the newest rename in the history is resolved, not the pair that the pull request lists: after two moves, or a move to a name that another file had, the wrong base version is read (`statement_immutability_cli.py:24-28`) |
| `FailuresAreNoPasses` | `AuditJobs`, `MCGate.cfg` | a `git log` or a `git cat-file -e` that fails is taken for absence, so that a file is compared with nothing and passes (`base_contents.py:74`, `statement_immutability_cli.py:84-90`; doc 79-80) |
| `FailedReadsAreEnvironmental` | `GatePolicies`, `MCGate.cfg` | a `git show` of a source file that fails reads as an empty file: where head's is lost an audit passes what every policy forbids, where base's is lost it blames the contributor for what was there (`axiom_honesty_cli.py:52-57`, `decide_instance_cli.py:56-60`, `base_contents.py:95-106`) |
| `NoRelaxationAlone` | `AuditJobs`, `MCGate.cfg` | the comparator reads the description after sorry-delta did, and it was edited between (`comparator_cli.py:34-40`) |

Noticed while modelling, stated nowhere:

- *Leases and labels.* A claim not found on re-read may not be the lease for the
  next reader (`client/lease.py:225-226`); the sync edits an issue it listed with
  both a lease label and `choir/done` (`orchestrator/leases.py:131`; doc 119-121);
  an issue with two lease labels is never repaired (`leases.py:137`), and the
  sync's edit, decided on labels listed earlier, can leave two (`leases.py:142`;
  doc 115-117).
- *Workspaces.* A baseline is copied in place, and a killed copy stays partial
  (`client/build_store.py:45`); `_promote_to_store` "never raises" and has an
  unguarded rename (`client/mathlib_cache.py:211`); a workspace removed by hand
  leaves its branch, so the next set-up falls back to a full clone.
- *Submission.* `submit_at` is "idempotent" and yet comments at each run, and
  opens a second pull request when the first was merged; `cmd_submit` lets a
  `ForkError` through.
- *Loop.* `updated_at` counts whole seconds, so a second comment within the
  baseline's second is slept over until the wait ends (`orchestrator/poll.py:283`).
- *Plan and texts.* A regeneration rewrites a file somebody formatted by hand
  although nothing changed; the uses of a proof stay on a node whose proof became
  a placeholder; "always round-trips" (`tasks/serialize.py`) is not so of a value
  that has a line `---`, nor of a path with a doubled `./`.
- *Overlay.* "Can only ever remove what its own lineage installed" is not so of a
  managed path of another prover, which is recorded without having been copied
  (`OnlyOwnIsDeleted` excepts these).
- *Policies.* A `git show` that fails reads as an absent file
  (`gate/verify/config.py:200`, `gate/provers/select.py:94`), so that an Isabelle
  project may be audited as Lean; one malformed value in `verify.toml` drops every
  section to its defaults; `statement_equiv_cli` exits 1 on a prover error although
  2 is environmental; audits read base's tip and not the fork point.
- *Audits.* The ordinary contract compares one count of placeholders for each file,
  so that one may move from a declaration of the file to another; only a reduction
  is held to more. Three green jobs speak of the linked target and what it uses: its
  file may have other placeholders, as many as in base. The trust report probes no
  more than 50 targets of a pull request and says when there were more
  (`changed_decls.py:60`, `325-328`). A blueprint of Isabelle's that has no name is
  known by its body, so that filling it reads as a deletion and an addition, and is
  refused (`statement_immutability.py:337-355`; `PermittedWorkPasses` excepts it).
  Sorry-delta, style, axiom and decidability audits do not follow renames, and map a
  failing `git show` to an empty file (`sorry_delta_cli.py:87`); an axiom whose name
  is not ASCII is not seen (`axiom_honesty.py:206`); "any net increase" misses a
  decidability instance after a `where` instance.
- *Lexers.* A Lean type ends for the extractor at an unbracketed `:=` or `where` of
  its own, as of `let x := ..`, and at a bar that begins a line if an unbracketed
  `=>` comes after it, as of `fun x => ..` (`lean4.py:351-353` says so) or of the
  alternatives of the value (`lean4.py:385-390`): what is after that point may be
  restated unseen. `StatementsAreExact` excepts these three and says where the cut
  is. A restated `B.c` is not probed when `A.c` comes before it
  (`gate/provers/lean4.py`, "prefer fully-qualified"); a blank line inside a quoted
  Isabelle statement ends it; a line `Module` in Rocq belongs to the declaration
  before it; `noncomputable section` opens no scope.
- *Comparator.* `public import` and `import all` are not rewritten; the minimum
  version in `verify-comparator.yml` needs a `v` that `parse_toolchain_version`
  does not.
