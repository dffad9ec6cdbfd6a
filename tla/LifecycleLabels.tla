-------------------------- MODULE LifecycleLabels ---------------------------
(***************************************************************************)
(* The lifecycle labels of one task issue and everyone who writes them:    *)
(*   - intake (module Intake, whose variables and runs these are);         *)
(*   - the orchestrator's lease sync (src/orchestrator/leases.py);         *)
(*   - the daily reconciliation (src/gate/reconcile);                      *)
(*   - issue-close-on-merge, when a pull request for the issue merges.     *)
(* Each lists, decides and edits in calls of its own, and none of them     *)
(* knows of the others.  The lease itself is a comment thread; of it,      *)
(* LeaseProtocol models the rest and this module only what the sync would  *)
(* decide.                                                                 *)
(***************************************************************************)
EXTENDS Intake

VARIABLES
    open,          \* whether the issue is open
    lease,         \* what decide_lease makes of the thread
    asking,        \* whether a claim has passed its pre-check
    sync,          \* the orchestrator's sync, at this issue
    reclaiming,    \* whether reconciliation is about to demote the issue
    closing        \* close-on-merge's next call; 0 until the merge

boardVars == <<open, lease, asking, sync, reclaiming, closing>>

vars == <<body, labels, acks, run, judged, missed, events,
          open, lease, asking, sync, reclaiming, closing>>

-----------------------------------------------------------------------------
\* "lapsed": the holder went quiet and nobody is in line.
Leases == {"free", "held", "lapsed"}

LeaseLabels == {"available", "claimed"}

Idle == [step |-> "idle", listed |-> {}, want |-> "available"]

\* Mutant: the lease labels go before done comes.
CloseCallsDoneLast ==
    << <<"remove", "claimed">>, <<"remove", "available">>, <<"add", "done">>,
       <<"close", "">> >>

\* The calls of "Mark linked issues as done", each `|| true`.
CloseCalls ==
    << <<"add", "done">>, <<"remove", "claimed">>, <<"remove", "available">>,
       <<"close", "">> >>

BoardInit ==
    /\ Init
    /\ open = TRUE
    /\ lease = "free"
    /\ asking = FALSE
    /\ sync = Idle
    /\ reclaiming = FALSE
    /\ closing = 0

-----------------------------------------------------------------------------
(* Workers: claim()'s pre-check of the issue, and the lease from afar.     *)

PreCheck ==
    /\ ~asking
    /\ open
    /\ "invalid" \notin labels
    /\ "available" \in labels
    /\ asking' = TRUE
    /\ UNCHANGED <<intakeVars, open, lease, sync, reclaiming, closing>>

\* A claim comment that takes the lease, or one that stops short of it.
ClaimLands ==
    /\ asking
    /\ asking' = FALSE
    /\ lease' \in IF lease = "held" THEN {lease} ELSE {lease, "held"}
    /\ UNCHANGED <<intakeVars, open, sync, reclaiming, closing>>

\* A release or a day of silence; a beat in flight brings a lapsed lease back.
LeaseTurns ==
    /\ \/ lease = "held" /\ lease' \in {"free", "lapsed"}
       \/ lease = "lapsed" /\ lease' = "held"
    /\ UNCHANGED <<intakeVars, open, asking, sync, reclaiming, closing>>

-----------------------------------------------------------------------------
(* sync_lease_labels, at this issue of the sweep.                          *)

\* list_choir_tasks(state="open")
SyncLists ==
    /\ sync.step = "idle"
    /\ open
    /\ "task" \in labels
    /\ sync' = [sync EXCEPT !.step = "listed", !.listed = labels]
    /\ UNCHANGED <<intakeVars, open, lease, asking, reclaiming, closing>>

Want == IF lease = "held" THEN "claimed" ELSE "available"

\* Mutant: an issue listed as claimed is left alone.
SyncDecidesUnlessClaimed ==
    /\ sync.step = "listed"
    /\ sync' = IF "claimed" \in sync.listed \/ Want \in sync.listed
               THEN Idle
               ELSE [sync EXCEPT !.step = "decided", !.want = Want]
    /\ UNCHANGED <<intakeVars, open, lease, asking, reclaiming, closing>>

\* Both `continue`s leave the issue to the next sweep.
SyncDecides ==
    /\ sync.step = "listed"
    /\ sync' = IF sync.listed \cap LeaseLabels = {} \/ Want \in sync.listed
               THEN Idle
               ELSE [sync EXCEPT !.step = "decided", !.want = Want]
    /\ UNCHANGED <<intakeVars, open, lease, asking, reclaiming, closing>>

Drop == LeaseLabels \ {sync.want}

\* Mutant: every other lifecycle label goes.
SyncEditsAlone ==
    /\ sync.step = "decided"
    /\ labels' = (labels \ Lifecycle) \cup {sync.want}
    /\ IF sync.want \in labels
       THEN UNCHANGED <<run, judged>>
       ELSE Event("labeled", sync.want, body, labels')
    /\ sync' = Idle
    /\ UNCHANGED <<body, acks, missed, events, open, lease, asking, reclaiming,
                   closing>>

\* _edit_labels: what to remove is read off the listing.  Made under the
\* orchestrator's login, the addition is an event for intake.
SyncEdits ==
    /\ sync.step = "decided"
    /\ labels' = (labels \cup {sync.want}) \ (Drop \cap sync.listed)
    /\ IF sync.want \in labels
       THEN UNCHANGED <<run, judged>>
       ELSE Event("labeled", sync.want, body, labels')
    /\ sync' = Idle
    /\ UNCHANGED <<body, acks, missed, events, open, lease, asking, reclaiming,
                   closing>>

\* A call fails: the sweep ends here.
SyncFails ==
    /\ sync.step # "idle"
    /\ sync' = Idle
    /\ UNCHANGED <<intakeVars, open, lease, asking, reclaiming, closing>>

-----------------------------------------------------------------------------
(* gate.reconcile: a claimed issue without activity for a week.  A thread  *)
(* that old holds no lease: every stamp in it is older than the arbiter's  *)
(* window, which is shorter than any threshold the configuration allows.   *)

ReconcileLists ==
    /\ ~reclaiming
    /\ open
    /\ "claimed" \in labels
    /\ lease # "held"
    /\ reclaiming' = TRUE
    /\ UNCHANGED <<intakeVars, open, lease, asking, sync, closing>>

\* apply_stale.  The bot's edits are not events for intake.
ReconcileEdits ==
    /\ reclaiming
    /\ reclaiming' = FALSE
    /\ labels' = (labels \ {"claimed"}) \cup {"available"}
    /\ UNCHANGED <<body, acks, run, judged, missed, events,
                   open, lease, asking, sync, closing>>

ReconcileFails ==
    /\ reclaiming
    /\ reclaiming' = FALSE
    /\ UNCHANGED <<intakeVars, open, lease, asking, sync, closing>>

-----------------------------------------------------------------------------
(* issue-close-on-merge.                                                   *)

\* "Closes #N" may have closed the issue before the workflow starts.
PullRequestMerges ==
    /\ closing = 0
    /\ closing' = 1
    /\ open' \in {open, FALSE}
    /\ UNCHANGED <<intakeVars, lease, asking, sync, reclaiming>>

CloseOnMerge ==
    /\ closing \in 1..Len(CloseCalls)
    /\ closing' = closing + 1
    /\ LET call == CloseCalls[closing]
       IN  \/ /\ call[1] = "close"
              /\ open' \in IF Flaky THEN {open, FALSE} ELSE {FALSE}
              /\ UNCHANGED <<labels, missed>>
           \/ /\ call[1] # "close"
              /\ EditLabel(call)
              /\ UNCHANGED open
    /\ UNCHANGED <<body, acks, run, judged, events,
                   lease, asking, sync, reclaiming>>

-----------------------------------------------------------------------------
BoardOnly ==
    \/ PreCheck \/ ClaimLands \/ LeaseTurns
    \/ SyncLists \/ SyncDecides \/ SyncEdits \/ SyncFails
    \/ ReconcileLists \/ ReconcileEdits \/ ReconcileFails
    \/ PullRequestMerges \/ CloseOnMerge

BoardNext == BoardOnly \/ (Next /\ UNCHANGED boardVars)

BoardSpec == BoardInit /\ [][BoardNext]_vars

\* The orchestrator runs its loop again and again, and not every sweep of
\* it fails.  Nothing is assumed of the others.
BoardFairness == WF_vars(SyncLists) /\ SF_vars(SyncDecides) /\ SF_vars(SyncEdits)

FairBoardSpec == BoardSpec /\ BoardFairness

-----------------------------------------------------------------------------
Managed == open /\ "task" \in labels /\ labels \cap LeaseLabels # {}

\* An issue whose lease is held for good comes to be labelled claimed and
\* stays so, whatever intake, reconciliation and the sync have in flight
\* (leases.py, "a projection of the comment thread, maintained on a loop").
HeldShowsClaimed ==
    <>[](lease = "held" /\ Managed) => <>[]("claimed" \in labels)

\* One whose lease nobody holds is not left claimed and out of reach.
FreeShowsAvailable ==
    <>[](lease # "held" /\ Managed) => <>[]("available" \in labels)

\* Both: labels come to follow the lease (leases.py, sync_lease_labels).
LabelFollowsLease == HeldShowsClaimed /\ FreeShowsAvailable
=============================================================================
