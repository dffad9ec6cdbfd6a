------------------------------- MODULE Intake -------------------------------
(***************************************************************************)
(* The issue-intake workflow on one task issue                             *)
(* (.github/workflows/issue-intake.yml, src/gate/state/intake_cli.py).     *)
(*                                                                         *)
(* An event on the issue starts a run; the run reads the comments, judges  *)
(* the body its event carried, acknowledges it in a comment and edits the  *)
(* labels one call at a time.  All runs of an issue are one concurrency    *)
(* group with cancel-in-progress: an event stops the run before it at      *)
(* whatever step that is, and does so before its own job is filtered.      *)
(*                                                                         *)
(* A body is the canonical record it parses to (so also that record's      *)
(* hash), or Bad.  Left out: the other labels, and what a rejection says.  *)
(***************************************************************************)
EXTENDS Naturals, Sequences, FiniteSets

CONSTANTS
    Records,       \* canonical records a body may hold
    Bad,           \* a body that does not parse
    Nothing,       \* no verdict
    Undefined,     \* labels the repository has not defined
    Flaky,         \* whether calls may fail for no reason of their own
    MaxEvents,     \* bound on what people do to the issue
    MaxMissed,     \* bound on the failed label edits not made good
    MaxAcks        \* acknowledgements are counted up to here

ASSUME BadAssumption     == Bad \notin Records
ASSUME NothingAssumption == Nothing \notin Records \cup {Bad}
ASSUME BoundsAssumption  ==
    Flaky \in BOOLEAN /\ MaxEvents \in Nat /\ MaxMissed \in Nat /\ MaxAcks \in Nat \ {0}

Bodies == Records \cup {Bad}

\* "type" is choir/type:<value>; "done" and "claimed" are not intake's.
Labels == {"task", "type", "available", "claimed", "invalid", "done"}

\* The labels one of which every issue shows (the lifecycle labels).
Lifecycle == {"available", "claimed", "invalid", "done"}

VARIABLES
    body,          \* the issue's body
    labels,        \* the issue's labels
    acks,          \* choir-intake-ack comments, by the hash they carry
    run,           \* the workflow run in progress
    judged,        \* the verdict no later event has put in doubt (history)
    missed,        \* ghost: label edits that failed and were not made good
    events         \* how much people have done to the issue

intakeVars == <<body, labels, acks, run, judged, missed, events>>

-----------------------------------------------------------------------------
Edits == {"add", "remove"} \X Labels

\* gh issue edit with one label: adding one the repository lacks fails.
Edited(ls, edit) ==
    IF edit[1] = "remove" THEN ls \ {edit[2]} ELSE ls \cup {edit[2]}

CanFail(edit) ==
    \/ Flaky /\ Cardinality(missed \cup {edit}) <= MaxMissed
    \/ edit[1] = "add" /\ edit[2] \in Undefined
CanWork(edit) == edit[1] = "remove" \/ edit[2] \notin Undefined

\* `gh issue edit ... || true`: an edit that works makes good what failed for
\* its label before.
EditLabel(edit) ==
    \/ /\ CanWork(edit)
       /\ labels' = Edited(labels, edit)
       /\ missed' = missed \ {<<"add", edit[2]>>, <<"remove", edit[2]>>}
    \/ /\ CanFail(edit)
       /\ missed' = missed \cup {edit}
       /\ UNCHANGED labels

\* build_payload: additions come first.
BuildPayload(b, hashes) ==
    IF b \in Records
    THEN [should_post_comment |-> b \notin hashes,
          edits |-> << <<"add", "task">>, <<"add", "type">>,
                       <<"add", "available">>, <<"remove", "invalid">> >>]
    ELSE [should_post_comment |-> TRUE,
          edits |-> << <<"add", "task">>, <<"add", "invalid">>,
                       <<"remove", "available">> >>]

\* jq's `.should_post_comment // true`: `//` passes over null and false.
ShouldPost(payload) ==
    IF payload.should_post_comment = FALSE THEN TRUE
                                           ELSE payload.should_post_comment

ExistingHashes == {r \in Records : acks[r] > 0}

-----------------------------------------------------------------------------
NoRun == [step |-> "none", body |-> Bad, post |-> FALSE, todo |-> << >>]

NewRun(b) == [step |-> "fetch", body |-> b, post |-> FALSE, todo |-> << >>]

\* The job's `if`: the event's action and label, and the labels it carries.
JobIf(action, label, ls) ==
    /\ action = "labeled" => label \in {"available", "invalid"}
    /\ ls \cap {"available", "invalid"} # {}

\* An event by anyone but the bot.  Its run takes the place of the one in
\* progress even when the job is then skipped.
Event(action, label, b, ls) ==
    /\ run' = IF JobIf(action, label, ls) THEN NewRun(b) ELSE NoRun
    /\ judged' = IF JobIf(action, label, ls) \/ action = "edited"
                 THEN Nothing ELSE judged

TypeOK ==
    /\ body \in Bodies
    /\ labels \subseteq Labels
    /\ acks \in [Records -> 0..MaxAcks]
    /\ run \in [step : {"none", "fetch", "comment", "labels"},
                body : Bodies, post : BOOLEAN, todo : Seq(Edits)]
    /\ judged \in Bodies \cup {Nothing}
    /\ missed \subseteq Edits
    /\ events \in 0..MaxEvents

\* Opened from the issue template, or by create_task_issue.
Init ==
    /\ body \in Bodies
    /\ labels \in {{"available"}, {"task", "available"}}
    /\ acks = [r \in Records |-> 0]
    /\ run = NewRun(body)
    /\ judged = Nothing
    /\ missed = {}
    /\ events = 0

\* The maintainer edits the issue; the record may stay what it was.
EditBody(b) ==
    /\ events < MaxEvents
    /\ events' = events + 1
    /\ body' = b
    /\ Event("edited", "", b, labels)
    /\ UNCHANGED <<labels, acks, missed>>

\* `labeled` events that leave the lifecycle label alone: those of the
\* labels an issue is created with, and those of a priority or difficulty
\* (set_priority, set_difficulty, bump_priority).
LabelEvent(label) ==
    /\ events < MaxEvents
    /\ label = "available" => label \in labels
    /\ events' = events + 1
    /\ Event("labeled", label, body, labels)
    /\ UNCHANGED <<body, labels, acks, missed>>

\* Read the comments (a failed read counts as none) and judge the body.
RunJudges ==
    /\ run.step = "fetch"
    /\ \E hashes \in {ExistingHashes} \cup (IF Flaky THEN {{}} ELSE {}) :
           LET payload == BuildPayload(run.body, hashes)
           IN  run' = [run EXCEPT !.step = "comment",
                                  !.post = ShouldPost(payload),
                                  !.todo = payload.edits]
    /\ UNCHANGED <<body, labels, acks, judged, missed, events>>

Acknowledged ==
    IF run.post /\ run.body \in Records /\ acks[run.body] < MaxAcks
    THEN [acks EXCEPT ![run.body] = @ + 1] ELSE acks

RunComments ==
    /\ run.step = "comment"
    /\ acks' = Acknowledged
    /\ run' = [run EXCEPT !.step = "labels"]
    /\ UNCHANGED <<body, labels, judged, missed, events>>

\* The next label edit, and the end of the run after the last one.
RunEdits ==
    /\ run.step = "labels"
    /\ EditLabel(Head(run.todo))
    /\ IF Len(run.todo) = 1
       THEN run' = NoRun /\ judged' = run.body
       ELSE /\ run' = [run EXCEPT !.todo = Tail(@)]
            /\ UNCHANGED judged
    /\ UNCHANGED <<body, acks, events>>

\* Mutant: a failed comment is tolerated like a failed label edit.
RunFailsOn ==
    /\ run.step = "comment"
    /\ run' = [run EXCEPT !.step = "labels"]
    /\ UNCHANGED <<body, labels, acks, judged, missed, events>>

\* A step before the label edits fails, the comment landed or not: the job
\* ends there (`set -e`).
RunFails ==
    /\ Flaky
    /\ run.step \in {"fetch", "comment"}
    /\ run' = NoRun
    /\ acks' \in IF run.step = "comment" THEN {acks, Acknowledged} ELSE {acks}
    /\ UNCHANGED <<body, labels, judged, missed, events>>

People ==
    \/ \E b \in Bodies : EditBody(b)
    \/ \E label \in {"available", "priority"} : LabelEvent(label)

Run == RunJudges \/ RunComments \/ RunEdits \/ RunFails

Next == People \/ Run

Spec == Init /\ [][Next]_intakeVars
-----------------------------------------------------------------------------
\* Wherever runs are stopped and whatever is left of them, an issue without a
\* lifecycle label is one of which the addition of a lifecycle label failed: it
\* is not listed for claiming, not synced, not reconciled, and no edit of it is
\* ever judged again (intake_cli.build_payload and the workflows, additions
\* before removals).  No other edit that fails has this effect.
StrandedOnlyByFailure ==
    labels \cap Lifecycle = {} => \E l \in Lifecycle : <<"add", l>> \in missed

\* A verdict that nothing has put in doubt is the one on the body as it is,
\* and the claim pre-check reads it off the labels, whatever halves of
\* earlier runs are left in them, unless the run's own edit of that label failed.
VerdictStands ==
    judged # Nothing =>
        /\ judged = body
        /\ judged = Bad => "invalid" \in labels \/ <<"add", "invalid">> \in missed
        /\ judged # Bad =>
               "invalid" \notin labels \/ <<"remove", "invalid">> \in missed

\* An issue that intake has labelled as accepted carries an acknowledgement,
\* whichever calls fail: only label edits are tolerated failures.
AcceptedIsAcknowledged ==
    "type" \in labels => \E r \in Records : acks[r] > 0

-----------------------------------------------------------------------------
(* What is said of the workflow and does not hold of it.                   *)

\* A label that the repository does not define does no harm (issue-intake.yml,
\* "failures are tolerated because a label may already exist [...] or may not
\* yet be defined").
NeverStranded == labels \cap Lifecycle # {}

\* One acknowledgement per canonical record (issue-intake.yml, "Skip the
\* comment post on issues.edited events that didn't change the canonical
\* record").
AckOnce == \A r \in Records : acks[r] <= 1

\* A task issue that was opened is judged: when no run is left, every event
\* that asked for one had it (create_task_issue, "the intake workflow's
\* label-normalization step will succeed without manual fixup").
IntakeAnswers ==
    run.step = "none" => "type" \in labels \/ "invalid" \in labels
=============================================================================
