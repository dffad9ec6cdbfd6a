--------------------------- MODULE OrchestratorLoop ---------------------------
(***************************************************************************)
(* The orchestrator's loop, as the commands that it runs make it: a sweep  *)
(* that brings the labels of all tasks into line with their threads        *)
(* (src/orchestrator/leases.py), a merge (src/orchestrator/cli.py), and    *)
(* the poller that waits for the next change (src/orchestrator/poll.py).   *)
(* Contributors claim, release and push at any moment between, a snapshot  *)
(* is two listings with time between them, and any call may fail.          *)
(***************************************************************************)
EXTENDS Naturals

CONSTANTS
    LastTask,     \* the tasks are 1..LastTask, in the order of the listing
    MaxLoopEvents,    \* bound on what contributors do
    MaxTicks,     \* --max-wait, in intervals
    MaxFaults     \* bound on the calls that fail outside the poller

VARIABLES
    loopPc,           \* where the loop stands
    held,         \* task -> somebody holds its lease, by its thread
    claimed,      \* task -> it is labelled choir/claimed, else choir/available
    updated,      \* task -> its updated_at
    pr,           \* the pull request: its state, head and verdict
    listed,       \* the labels that the sweep was given
    next, want,   \* the task it is at, and what it wants there
    answer,       \* what the last merge command printed
    baseline,     \* the poller's first snapshot
    prsRead,      \* the first half of a snapshot
    waited,       \* the poller's clock
    news, readNews, \* ghosts: tasks commented on since the baseline, by the
                    \* last snapshot that succeeded
    loopEvents, faults

worldVars == <<held, updated, news, loopEvents>>
sweepVars == <<listed, next, want>>
pollVars  == <<baseline, prsRead, waited, readNews>>
loopVars == <<loopPc, worldVars, claimed, pr, sweepVars, answer, pollVars, faults>>

Tasks == 1..LastTask
Polling == {"basing", "basing tasks", "sleeping", "reading", "reading tasks"}

Goes(from, to) == loopPc = from /\ loopPc' = to
Fault == faults < MaxFaults /\ faults' = faults + 1

-----------------------------------------------------------------------------
(* Contributors and their checks.                                          *)

LoopEvent == loopEvents < MaxLoopEvents /\ loopEvents' = loopEvents + 1

\* A claim or a release: a comment.  updated_at counts whole seconds, so that
\* it shows no second comment of a second.
Comment(i) ==
    /\ LoopEvent
    /\ held' = [held EXCEPT ![i] = ~@]
    /\ \/ updated' = [updated EXCEPT ![i] = @ + 1] /\ news' = news \cup {i}
       \/ UNCHANGED <<updated, news>>
    /\ UNCHANGED <<loopPc, claimed, pr, sweepVars, answer, pollVars, faults>>

Push ==
    /\ LoopEvent
    /\ pr.state = "open"
    /\ pr' = [pr EXCEPT !.head = @ + 1, !.verdict = "pending"]
    /\ UNCHANGED <<loopPc, held, updated, news, claimed, sweepVars, answer, pollVars,
                   faults>>

ChecksEnd ==
    /\ pr.state = "open" /\ pr.verdict = "pending"
    /\ \E verdict \in {"green", "red"} : pr' = [pr EXCEPT !.verdict = verdict]
    /\ UNCHANGED <<loopPc, worldVars, claimed, sweepVars, answer, pollVars, faults>>

-----------------------------------------------------------------------------
(* choir orch sync-leases: the listing is read once, and a call that fails *)
(* ends the sweep for the tasks that are left.                             *)

SweepLists ==
    /\ \/ Goes("listing", "sweeping") /\ listed' = claimed /\ next' = 1 /\ UNCHANGED faults
       \/ Goes("listing", "merging") /\ Fault /\ UNCHANGED <<listed, next>>
    /\ answer' = "none"
    /\ UNCHANGED <<worldVars, claimed, pr, want, pollVars>>

\* decide_for_issue.
SweepDecides ==
    /\ next \in Tasks
    /\ \/ /\ Goes("sweeping", "editing")
          /\ want' = held[next]
          /\ UNCHANGED faults
       \/ Goes("sweeping", "merging") /\ Fault /\ UNCHANGED want
    /\ UNCHANGED <<worldVars, claimed, pr, listed, next, answer, pollVars>>

\* Mutant: only tasks that read choir/available are looked after.
SweepEditsAvailable ==
    /\ loopPc = "editing"
    /\ \/ /\ loopPc' = "sweeping" /\ next' = next + 1
          /\ claimed' = IF want # listed[next] /\ ~listed[next]
                        THEN [claimed EXCEPT ![next] = want] ELSE claimed
          /\ UNCHANGED faults
       \/ /\ want # listed[next]
          /\ loopPc' = "merging" /\ Fault
          /\ UNCHANGED <<claimed, next>>
    /\ UNCHANGED <<worldVars, pr, listed, want, answer, pollVars>>

\* The paired edit, when the listing says otherwise than the thread.
SweepEdits ==
    /\ loopPc = "editing"
    /\ \/ /\ loopPc' = "sweeping" /\ next' = next + 1
          /\ claimed' = IF want # listed[next] THEN [claimed EXCEPT ![next] = want]
                        ELSE claimed
          /\ UNCHANGED faults
       \/ /\ want # listed[next]
          /\ loopPc' = "merging" /\ Fault
          /\ UNCHANGED <<claimed, next>>
    /\ UNCHANGED <<worldVars, pr, listed, want, answer, pollVars>>

SweepEnds ==
    /\ Goes("sweeping", "merging") /\ next \notin Tasks
    /\ UNCHANGED <<worldVars, claimed, pr, sweepVars, answer, pollVars, faults>>

-----------------------------------------------------------------------------
(* choir orch merge: the pull request is resolved, then merge_pr.          *)

NoMerge ==
    /\ Goes("merging", "basing")
    /\ UNCHANGED <<worldVars, claimed, pr, sweepVars, answer, pollVars, faults>>

MergeReads ==
    /\ pr.state = "open"
    /\ \/ Goes("merging", "resolved") /\ UNCHANGED <<answer, faults>>
       \/ Goes("merging", "basing") /\ Fault /\ answer' = "exit 2"
    /\ UNCHANGED <<worldVars, claimed, pr, sweepVars, pollVars>>

\* A PRError is answered as a refusal: what the gate decided, a call that did
\* not reach GitHub, or one whose reply was lost.
Merges ==
    /\ Goes("resolved", "basing")
    /\ LET refused == answer' = "refused"
           merged  == pr' = [pr EXCEPT !.state = "merged"]
       IN  \/ pr.verdict = "green" /\ merged /\ answer' = "merged" /\ UNCHANGED faults
           \/ pr.verdict # "green" /\ UNCHANGED pr /\ refused /\ UNCHANGED faults
           \/ Fault /\ UNCHANGED pr /\ refused
           \/ pr.verdict = "green" /\ Fault /\ merged /\ refused
    /\ UNCHANGED <<worldVars, claimed, sweepVars, pollVars>>

-----------------------------------------------------------------------------
(* choir orch poll.                                                        *)

\* make_snapshot, of each listing.
PRsPrint == IF pr.state = "open" THEN {<<pr.head, pr.verdict>>} ELSE {}
TasksPrint == [i \in Tasks |-> <<claimed[i], updated[i]>>]

\* Mutant: a snapshot of labels alone.
DiffSnapshotsLabels(old, new) ==
    \/ old.prs # new.prs
    \/ \E i \in Tasks : old.tasks[i][1] # new.tasks[i][1]

\* diff_snapshots: is there any change?
DiffSnapshots(old, new) == old.prs # new.prs \/ old.tasks # new.tasks

\* A poll that ends keeps nothing.
NoBaseline == [prs |-> {}, tasks |-> << >>]
Ends == loopPc' = "listing" /\ baseline' = NoBaseline /\ waited' = 0

BaseReads ==
    /\ \/ Goes("basing", "basing tasks") /\ prsRead' = PRsPrint /\ UNCHANGED faults
       \/ Goes("basing", "listing") /\ Fault /\ UNCHANGED prsRead     \* exit 2
    /\ UNCHANGED <<worldVars, claimed, pr, sweepVars, answer, baseline, waited, readNews>>

BaseReadsTasks ==
    /\ \/ /\ Goes("basing tasks", "sleeping")
          /\ baseline' = [prs |-> prsRead, tasks |-> TasksPrint]
          /\ news' = {} /\ readNews' = {}
          /\ waited' = 0 /\ prsRead' = {}
          /\ UNCHANGED faults
       \/ /\ Goes("basing tasks", "listing") /\ Fault
          /\ prsRead' = {}
          /\ UNCHANGED <<baseline, news, readNews, waited>>
    /\ UNCHANGED <<held, updated, loopEvents, claimed, pr, sweepVars, answer>>

\* time.sleep: the wait counts whether the snapshot after it succeeds or not.
Tick ==
    /\ Goes("sleeping", "reading")
    /\ waited < MaxTicks /\ waited' = waited + 1
    /\ UNCHANGED <<worldVars, claimed, pr, sweepVars, answer, baseline, prsRead,
                   readNews, faults>>

\* A snapshot that fails is logged and tried again at the next tick.
ReadFails ==
    /\ loopPc \in {"reading", "reading tasks"} /\ loopPc' = "sleeping"
    /\ prsRead' = {}
    /\ UNCHANGED <<worldVars, claimed, pr, sweepVars, answer, baseline, waited, readNews,
                   faults>>

Reads ==
    /\ Goes("reading", "reading tasks") /\ prsRead' = PRsPrint
    /\ UNCHANGED <<worldVars, claimed, pr, sweepVars, answer, baseline, waited,
                   readNews, faults>>

ReadsTasks ==
    /\ loopPc = "reading tasks"
    /\ IF DiffSnapshots(baseline, [prs |-> prsRead, tasks |-> TasksPrint])
       THEN Ends /\ readNews' = {}
       ELSE loopPc' = "sleeping" /\ readNews' = news /\ UNCHANGED <<baseline, waited>>
    /\ prsRead' = {}
    /\ UNCHANGED <<worldVars, claimed, pr, sweepVars, answer, faults>>

GivesUp ==
    /\ loopPc = "sleeping"
    /\ waited >= MaxTicks
    /\ Ends
    /\ readNews' = {}
    /\ UNCHANGED <<worldVars, claimed, pr, sweepVars, answer, prsRead, faults>>

-----------------------------------------------------------------------------
LoopWorld ==
    /\ held = [i \in Tasks |-> FALSE] /\ claimed = [i \in Tasks |-> FALSE]
    /\ updated = [i \in Tasks |-> 0]
    /\ pr = [state |-> "open", head |-> 0, verdict |-> "pending"]
    /\ listed = claimed /\ next = 1 /\ want = FALSE
    /\ answer = "none"
    /\ baseline = NoBaseline /\ prsRead = {} /\ waited = 0
    /\ news = {} /\ readNews = {}
    /\ loopEvents = 0 /\ faults = 0

LoopInit == loopPc = "listing" /\ LoopWorld

Sweep == SweepLists \/ SweepDecides \/ SweepEdits \/ SweepEnds
Merge == NoMerge \/ MergeReads \/ Merges
Poll == BaseReads \/ BaseReadsTasks \/ Tick \/ ReadFails \/ Reads \/ ReadsTasks \/ GivesUp

LoopNext ==
    \/ \E i \in Tasks : Comment(i)
    \/ Push \/ ChecksEnd
    \/ Sweep \/ Merge \/ Poll

\* The commands are run one after the other and forever, and each goes on.
LoopSpec == LoopInit /\ [][LoopNext]_loopVars /\ WF_loopVars(Sweep \/ Merge \/ Poll)

-----------------------------------------------------------------------------
(* Properties.                                                             *)

\* The poller never goes back to sleep over a comment of a later second than
\* its baseline's that was there when it read the tasks: a claim, which changes
\* no label, wakes the orchestrator at the next snapshot that succeeds.
NothingIsSleptOver == loopPc = "sleeping" => readNews = {}

\* Whatever fails and however often, a poll ends: failed snapshots use up the
\* wait as the others do.
PollsEnd == []<>(loopPc \notin Polling)

\* However the sweeps are cut short and whatever a poller sleeps over, every
\* label comes to say what the thread of its task says.
BoardCatchesUp == \A i \in Tasks : []<>(claimed[i] = held[i])

\* cli.py:188, of a pull request that reads: "only once it reads can a PRError
\* be what the gate decided, which is an answer": a refused one is not merged.
RefusedIsNotMerged == answer = "refused" => pr.state # "merged"
===============================================================================
