------------------------- MODULE OrchestratorProofs -------------------------
(***************************************************************************)
(* The workflows and tools around a project.  Acceptance and               *)
(* acknowledgement at intake, for any records, any number of events and any*)
(* labels that the repository lacks, with calls that fail and without; and,*)
(* when label edits do not fail, that no interleaving of intake, sync,     *)
(* reconciliation and close-on-merge strands the issue or belies a standing*)
(* verdict.  The poller sleeps over no comment that it has read, for any   *)
(* number of tasks, comments, failures and intervals.  An upgrade deletes  *)
(* nothing of the overseer's and leaves nothing of an earlier release's,   *)
(* for any releases, prover, edits and deaths.  A regeneration of the plan *)
(* is idempotent, true to the terms and keeps what no term answers for,    *)
(* for any names, ids and sources.  The body of an issue reads back as the *)
(* task that it was written from, and a reduction from between its fences, *)
(* for any drafts, prose and lines, and any number of edits.               *)
(***************************************************************************)
EXTENDS LifecycleLabels, OrchestratorLoop, OverlayManifest, RoadmapGraph, TaskBodies,
        FoldLemmas

-----------------------------------------------------------------------------
(* Intake alone, whatever fails.                                           *)

\* Some record of this issue was acknowledged.
SomeAck == \E r \in Records : acks[r] > 0

\* An edit list that accepts nothing.
AcceptsNothing(todo) == \A k \in 1..Len(todo) : todo[k] # <<"add", "type">>

RunTyped ==
    run \in [step : {"none", "fetch", "comment", "labels"}, body : Bodies,
             post : BOOLEAN, todo : Seq(Edits)]

\* A run that has judged a record posts its acknowledgement before the first
\* edit; a run that has judged another body has no edit that accepts it.
AckInv ==
    /\ acks \in [Records -> 0..MaxAcks]
    /\ body \in Bodies
    /\ RunTyped
    /\ run.step \in {"comment", "labels"} =>
           /\ Len(run.todo) > 0
           /\ run.body \notin Records => AcceptsNothing(run.todo)
    /\ run.step = "comment" => run.post
    /\ run.step = "labels" /\ run.body \in Records => SomeAck
    /\ AcceptedIsAcknowledged

\* The two edit lists of build_payload.
LEMMA EditLists ==
    ASSUME NEW b \in Bodies, NEW hashes
    PROVE  LET todo == BuildPayload(b, hashes).edits
           IN  /\ todo \in Seq(Edits)
               /\ Len(todo) > 0
               /\ b \notin Records => AcceptsNothing(todo)
<1>1. CASE b \in Records
  BY <1>1 DEF BuildPayload, Edits, Labels
<1>2. CASE b \notin Records
  BY <1>2 DEF BuildPayload, Edits, Labels, AcceptsNothing
<1> QED
  BY <1>1, <1>2

\* The workflow's filter makes every comment due.
LEMMA AlwaysPosts ==
    ASSUME NEW b, NEW hashes
    PROVE  ShouldPost(BuildPayload(b, hashes)) = TRUE
BY DEF ShouldPost, BuildPayload

LEMMA InitAck == Init => AckInv
<1> SUFFICES ASSUME Init PROVE AckInv
  OBVIOUS
<1> USE DEF Init
<1>1. run \in [step : {"none", "fetch", "comment", "labels"}, body : Bodies,
               post : BOOLEAN, todo : Seq(Edits)] /\ run.step = "fetch"
  BY DEF NewRun
<1>2. acks \in [Records -> 0..MaxAcks]
  BY BoundsAssumption
<1> QED
  BY <1>1, <1>2 DEF AckInv, RunTyped, AcceptedIsAcknowledged

\* Acknowledgements are never taken back.
LEMMA AcksStay ==
    ASSUME acks \in [Records -> 0..MaxAcks]
    PROVE  /\ Acknowledged \in [Records -> 0..MaxAcks]
           /\ \A r \in Records : acks[r] > 0 => Acknowledged[r] > 0
           /\ run.post /\ run.body \in Records => Acknowledged[run.body] > 0
BY BoundsAssumption DEF Acknowledged

LEMMA AckKept == AckInv /\ [Next]_intakeVars => AckInv'
<1> SUFFICES ASSUME AckInv, [Next]_intakeVars PROVE AckInv'
  OBVIOUS
<1> USE DEF AckInv, RunTyped, SomeAck, AcceptedIsAcknowledged
<1>0. body' \in Bodies
  BY DEF Next, intakeVars, People, EditBody, LabelEvent, Run, RunJudges, RunComments, RunEdits,
     RunFails
<1>1. CASE UNCHANGED intakeVars
  BY <1>1 DEF intakeVars, AcceptsNothing
\* An event starts a run or stops the one there was.
<1>2. CASE People
  <2>1. /\ UNCHANGED <<labels, acks>>
        /\ run' = NoRun \/ run' = NewRun(body')
    BY <1>2 DEF People, EditBody, LabelEvent, Event
  <2>2. RunTyped' /\ run'.step \in {"none", "fetch"}
    <3>1. CASE run' = NoRun
      BY <3>1 DEF NoRun, Bodies
    <3>2. CASE run' = NewRun(body')
      BY <1>0, <3>2 DEF NewRun
    <3> QED
      BY <2>1, <3>1, <3>2
  <2> QED
    BY <1>0, <2>1, <2>2
<1>3. CASE RunJudges
  <2>1. PICK hashes \in {ExistingHashes} \cup (IF Flaky THEN {{}} ELSE {}) :
            run' = [run EXCEPT !.step = "comment",
                               !.post = ShouldPost(BuildPayload(run.body, hashes)),
                               !.todo = BuildPayload(run.body, hashes).edits]
    BY <1>3 DEF RunJudges
  <2>2. run.body \in Bodies
    OBVIOUS
  <2>3. /\ run'.step = "comment" /\ run'.post = TRUE /\ run'.body = run.body
        /\ run'.todo = BuildPayload(run.body, hashes).edits
    BY <2>1, AlwaysPosts
  <2>4. RunTyped'
    BY <2>1, <2>2, AlwaysPosts, EditLists
  <2> QED
    BY <1>0, <1>3, <2>2, <2>3, <2>4, EditLists DEF RunJudges
<1>4. CASE RunComments
  <2>1. /\ run.step = "comment" /\ acks' = Acknowledged /\ UNCHANGED labels
        /\ run' = [run EXCEPT !.step = "labels"]
    BY <1>4 DEF RunComments
  <2>2. RunTyped' /\ run'.step = "labels" /\ run'.body = run.body /\ run'.todo = run.todo
    BY <2>1
  <2>3. AcceptsNothing(run.todo) => AcceptsNothing(run'.todo)
    BY <2>2
  <2> QED
    BY <1>0, <2>1, <2>2, <2>3, AcksStay
<1>5. CASE RunEdits
  <2>1. /\ run.step = "labels" /\ UNCHANGED acks
        /\ UNCHANGED labels \/ labels' = Edited(labels, Head(run.todo))
    BY <1>5 DEF RunEdits, EditLabel
  <2>2. AcceptedIsAcknowledged'
    <3>1. CASE run.body \in Records
      BY <2>1, <3>1
    <3>2. CASE run.body \notin Records
      <4>1. Head(run.todo) \in Edits /\ Head(run.todo) # <<"add", "type">>
        BY <2>1, <3>2 DEF AcceptsNothing
      <4>2. "type" \in labels' => "type" \in labels
        BY <2>1, <4>1 DEF Edited, Edits
      <4> QED
        BY <2>1, <4>2
    <3> QED
      BY <3>1, <3>2
  <2>3. CASE Len(run.todo) = 1
    <3>1. run' = NoRun
      BY <1>5, <2>3 DEF RunEdits
    <3> QED
      BY <1>0, <2>1, <2>2, <3>1 DEF NoRun, Bodies
  <2>4. CASE Len(run.todo) # 1
    <3>1. run' = [run EXCEPT !.todo = Tail(run.todo)]
      BY <1>5, <2>4 DEF RunEdits
    <3>2. PICK todo \in Seq(Edits) : todo = run.todo
      OBVIOUS
    <3>0. Len(todo) \in Nat /\ Len(todo) > 0 /\ Len(todo) # 1
      BY <2>1, <2>4, <3>2
    <3>3. todo # << >> /\ Len(todo) \in Nat /\ Len(todo) > 1
      BY ONLY <3>0, todo \in Seq(Edits)
    <3>4. Tail(todo) \in Seq(Edits) /\ Len(Tail(todo)) = Len(todo) - 1
      BY ONLY <3>3
    <3>5. \A k \in 1..Len(todo) - 1 : Tail(todo)[k] = todo[k + 1]
      BY ONLY <3>3
    <3>6. AcceptsNothing(todo) => AcceptsNothing(Tail(todo))
      BY <3>3, <3>4, <3>5 DEF AcceptsNothing
    <3>7. /\ run'.todo = Tail(todo) /\ run'.step = "labels" /\ run'.body = run.body
          /\ run' \in [step : {"none", "fetch", "comment", "labels"}, body : Bodies,
                       post : BOOLEAN, todo : Seq(Edits)]
      BY <2>1, <3>1, <3>2, <3>4
    <3>8. run.body \notin Records => AcceptsNothing(run.todo)'
      BY <2>1, <3>2, <3>6, <3>7 DEF AcceptsNothing
    <3> QED
      BY <1>0, <2>1, <2>2, <3>3, <3>4, <3>7, <3>8
  <2> QED
    BY <2>3, <2>4
<1>6. CASE RunFails
  <2>1. run' = NoRun /\ UNCHANGED labels /\ acks' \in {acks, Acknowledged}
    BY <1>6 DEF RunFails
  <2>2. RunTyped' /\ run'.step = "none"
    BY <2>1 DEF NoRun, Bodies
  <2> QED
    BY <1>0, <2>1, <2>2, AcksStay
<1> QED
  BY <1>1, <1>2, <1>3, <1>4, <1>5, <1>6 DEF Next, Run

\* An issue that intake accepted carries an acknowledgement, wherever runs are
\* stopped and whichever calls fail: in issue-intake.yml the comment comes before
\* the first label edit, and a comment that fails ends the job.
THEOREM AcceptedIsAcknowledgedHolds == Spec => []AcceptedIsAcknowledged
<1>1. AckInv => AcceptedIsAcknowledged
  BY DEF AckInv
<1> QED
  BY <1>1, InitAck, AckKept, PTL DEF Spec

-----------------------------------------------------------------------------
(* All writers of the labels.                                              *)

\* What is left of an accepted run, or of a rejected one.
OkTodos ==
    { << <<"add", "task">>, <<"add", "type">>, <<"add", "available">>,
         <<"remove", "invalid">> >>,
      << <<"add", "type">>, <<"add", "available">>, <<"remove", "invalid">> >>,
      << <<"add", "available">>, <<"remove", "invalid">> >>,
      << <<"remove", "invalid">> >> }

BadTodos ==
    { << <<"add", "task">>, <<"add", "invalid">>, <<"remove", "available">> >>,
      << <<"add", "invalid">>, <<"remove", "available">> >>,
      << <<"remove", "available">> >> }

\* A run judges the body as it is, and works off what that calls for.
RunInv ==
    /\ body \in Bodies
    /\ run.step \in {"none", "fetch", "comment", "labels"}
    /\ run = [step |-> run.step, body |-> run.body, post |-> run.post,
              todo |-> run.todo]
    /\ run.step # "none" => run.body = body /\ judged = Nothing
    /\ run.step \in {"comment", "labels"} =>
           run.todo \in IF run.body \in Records THEN OkTodos ELSE BadTodos

\* An addition of this label failed.
Lost(l) == <<"add", l>> \in missed

\* A label beside `invalid`, or an addition of one that failed.
Beside ==
    \/ labels \cap {"available", "claimed", "done"} # {}
    \/ Lost("available") \/ Lost("done")

\* The label a run is about to remove is not the only one left, unless the
\* addition of the other one failed.
CoveredInv ==
    /\ (/\ run.step \in {"comment", "labels"}
        /\ run.todo = << <<"remove", "invalid">> >>) => Beside
    /\ (/\ run.step \in {"comment", "labels"}
        /\ run.todo = << <<"remove", "available">> >>) =>
           "invalid" \in labels \/ Lost("invalid")

CloseInv ==
    /\ closing \in 0..5
    /\ closing >= 2 => "done" \in labels \/ Lost("done")

SyncInv ==
    /\ sync = [step |-> sync.step, listed |-> sync.listed, want |-> sync.want]
    /\ sync.want \in LeaseLabels

IInv ==
    /\ StrandedOnlyByFailure
    /\ VerdictStands
    /\ RunInv
    /\ CoveredInv
    /\ CloseInv
    /\ SyncInv

-----------------------------------------------------------------------------
\* The calls of a run in turn.
LEMMA Tails ==
    /\ \A t \in OkTodos :
         \/ /\ Len(t) = 1 /\ t = << <<"remove", "invalid">> >>
            /\ Head(t) = <<"remove", "invalid">>
         \/ /\ Len(t) = 2 /\ Head(t) = <<"add", "available">>
            /\ Tail(t) = << <<"remove", "invalid">> >>
         \/ /\ Len(t) # 1 /\ Head(t) \in {<<"add", "task">>, <<"add", "type">>}
            /\ Tail(t) \in OkTodos /\ Tail(t) # << <<"remove", "invalid">> >>
    /\ \A t \in BadTodos :
         \/ /\ Len(t) = 1 /\ t = << <<"remove", "available">> >>
            /\ Head(t) = <<"remove", "available">>
         \/ /\ Len(t) = 2 /\ Head(t) = <<"add", "invalid">>
            /\ Tail(t) = << <<"remove", "available">> >>
         \/ /\ Len(t) # 1 /\ Head(t) = <<"add", "task">>
            /\ Tail(t) \in BadTodos /\ Tail(t) # << <<"remove", "available">> >>
BY DEF OkTodos, BadTodos

\* A run that starts, or none.
LEMMA RunStarts ==
    ASSUME NEW b, NEW r \in {NewRun(b), NoRun}
    PROVE  /\ r.step \in {"none", "fetch"}
           /\ r.step # "none" => r = NewRun(b) /\ r.body = b
           /\ r = [step |-> r.step, body |-> r.body, post |-> r.post,
                   todo |-> r.todo]
PROOF
  <1>1. NewRun(b) = [step |-> "fetch", body |-> b, post |-> FALSE,
                     todo |-> << >>]
    BY DEF NewRun, NoRun
  <1>2. CASE r = NewRun(b)
    BY <1>1, <1>2
  <1>3. CASE r = NoRun
    BY <1>3 DEF NoRun
  <1> QED
    BY <1>2, <1>3

LEMMA InitIInv == BoardInit => IInv
PROOF
  <1> SUFFICES ASSUME BoardInit PROVE IInv
    OBVIOUS
  <1>1. StrandedOnlyByFailure
    BY DEF BoardInit, Init, StrandedOnlyByFailure, Lifecycle
  <1>2. VerdictStands
    BY DEF BoardInit, Init, VerdictStands
  <1>3. RunInv
    BY RunStarts DEF BoardInit, Init, RunInv
  <1>4. CoveredInv
    BY RunStarts DEF BoardInit, Init, CoveredInv
  <1>5. CloseInv /\ SyncInv
    BY DEF BoardInit, CloseInv, SyncInv, Idle, LeaseLabels
  <1> QED
    BY <1>1, <1>2, <1>3, <1>4, <1>5 DEF IInv

\* An edit of one label, which may fail, leaves the others as they are.
LEMMA EditEffect ==
    ASSUME NEW edit, NEW kind \in {"add", "remove"}, NEW label \in Labels,
           edit = <<kind, label>>, EditLabel(edit)
    PROVE  /\ \A l \in Labels \ {label} :
               /\ l \in labels' <=> l \in labels
               /\ \A k \in {"add", "remove"} :
                      <<k, l>> \in missed' <=> <<k, l>> \in missed
           /\ kind = "add" => label \in labels' \/ Lost(label)'
           /\ kind = "remove" =>
                  label \notin labels' \/ <<"remove", label>> \in missed'
<1>1. CASE /\ labels' = Edited(labels, edit)
           /\ missed' = missed \ {<<"add", edit[2]>>, <<"remove", edit[2]>>}
  BY <1>1 DEF Edited, Lost
<1>2. CASE missed' = missed \cup {edit} /\ labels' = labels
  BY <1>2 DEF Lost
<1> QED
  BY <1>1, <1>2 DEF EditLabel

\* Events only start and stop runs, and withdraw verdicts.
LEMMA EventKeeps ==
    ASSUME IInv,
           NEW action, NEW label, NEW b \in Bodies, NEW ls,
           Event(action, label, b, ls),
           body' = b, b = body \/ action = "edited", missed' = missed,
           StrandedOnlyByFailure',
           "invalid" \in labels' <=> "invalid" \in labels
    PROVE  StrandedOnlyByFailure' /\ VerdictStands' /\ RunInv' /\ CoveredInv'
PROOF
  <1>1. run' \in {NewRun(b), NoRun}
    BY DEF Event
  <1>2. judged' = Nothing \/ (judged' = judged /\ body' = body /\ run' = NoRun)
    BY DEF Event
  <1>3. run'.step # "none" => judged' = Nothing
    BY DEF Event, NoRun, NewRun
  <1>4. /\ run'.step \in {"none", "fetch"}
        /\ run'.step # "none" => run'.body = b
        /\ run' = [step |-> run'.step, body |-> run'.body, post |-> run'.post,
                   todo |-> run'.todo]
    BY <1>1, RunStarts
  <1>5. RunInv'
    BY <1>3, <1>4 DEF RunInv
  <1>6. VerdictStands'
    BY <1>2 DEF IInv, VerdictStands
  <1>7. CoveredInv'
    BY <1>4 DEF CoveredInv
  <1> QED
    BY <1>5, <1>6, <1>7

\* A change of labels that intake has no part in.
LEMMA LabelsKeep ==
    ASSUME IInv,
           UNCHANGED <<body, run, judged>>,
           labels' \cap {"available", "claimed", "done"} # {} \/ Lost("done")',
           "invalid" \in labels' <=> "invalid" \in labels,
           \A k \in {"add", "remove"} :
               <<k, "invalid">> \in missed' <=> <<k, "invalid">> \in missed
    PROVE  StrandedOnlyByFailure' /\ VerdictStands' /\ RunInv' /\ CoveredInv'
PROOF
  <1>1. StrandedOnlyByFailure'
    BY DEF StrandedOnlyByFailure, Lifecycle, Lost
  <1>2. VerdictStands'
    BY DEF IInv, VerdictStands
  <1>3. RunInv'
    BY DEF IInv, RunInv
  <1>4. CoveredInv'
    BY DEF IInv, CoveredInv, Beside, Lost
  <1> QED
    BY <1>1, <1>2, <1>3, <1>4

-----------------------------------------------------------------------------
LEMMA PeopleKeep == IInv /\ People /\ UNCHANGED boardVars => IInv'
PROOF
  <1> SUFFICES ASSUME IInv, People, UNCHANGED boardVars PROVE IInv'
    OBVIOUS
  <1>1. CloseInv' /\ SyncInv'
    BY DEF IInv, People, EditBody, LabelEvent, boardVars, CloseInv, SyncInv, Lost
  <1>2. ASSUME NEW b \in Bodies, EditBody(b)
        PROVE  StrandedOnlyByFailure' /\ VerdictStands' /\ RunInv' /\ CoveredInv'
    BY <1>2, EventKeeps DEF EditBody, IInv, StrandedOnlyByFailure, Lifecycle
  <1>3. ASSUME NEW label, LabelEvent(label)
        PROVE  StrandedOnlyByFailure' /\ VerdictStands' /\ RunInv' /\ CoveredInv'
    BY <1>3, EventKeeps DEF LabelEvent, IInv, StrandedOnlyByFailure, Lifecycle, RunInv
  <1> QED
    BY <1>1, <1>2, <1>3 DEF People, IInv

LEMMA RunKeeps ==
    ASSUME IInv, Run, UNCHANGED boardVars
    PROVE  IInv'
PROOF
  <1>1. SyncInv' /\ closing' = closing
    BY DEF IInv, boardVars, SyncInv
  <1>2. CASE RunJudges
    <2>1. /\ UNCHANGED <<body, labels, judged, missed>>
          /\ run.step = "fetch"
          /\ run'.step = "comment"
          /\ run'.body = run.body
          /\ run' = [step |-> run'.step, body |-> run'.body,
                     post |-> run'.post, todo |-> run'.todo]
          /\ run'.todo \in IF run.body \in Records THEN OkTodos ELSE BadTodos
          /\ run'.todo # << <<"remove", "invalid">> >>
          /\ run'.todo # << <<"remove", "available">> >>
      <3>1. PICK hashes :
                run' = [run EXCEPT !.step = "comment",
                          !.post = ShouldPost(BuildPayload(run.body, hashes)),
                          !.todo = BuildPayload(run.body, hashes).edits]
        BY <1>2 DEF RunJudges
      <3> DEFINE todo == BuildPayload(run.body, hashes).edits
      <3>2. /\ todo \in IF run.body \in Records THEN OkTodos ELSE BadTodos
            /\ todo # << <<"remove", "invalid">> >>
            /\ todo # << <<"remove", "available">> >>
        BY DEF BuildPayload, OkTodos, BadTodos
      <3>3. UNCHANGED <<body, labels, judged, missed>> /\ run.step = "fetch"
        BY <1>2 DEF RunJudges
      <3> HIDE DEF todo
      <3>4. run'.todo = todo /\ run'.step = "comment" /\ run'.body = run.body
            /\ run' = [step |-> run'.step, body |-> run'.body,
                       post |-> run'.post, todo |-> run'.todo]
        BY <3>1 DEF IInv, RunInv, todo
      <3> QED
        BY <3>2, <3>3, <3>4
    <2> QED
      BY <1>1, <2>1 DEF IInv, StrandedOnlyByFailure, VerdictStands, RunInv, CoveredInv,
                        CloseInv, Beside, Lost
  <1>3. CASE RunComments
    <2>1. /\ UNCHANGED <<body, labels, judged, missed>>
          /\ run.step = "comment"
          /\ run' = [run EXCEPT !.step = "labels"]
      BY <1>3 DEF RunComments
    <2> QED
      BY <1>1, <2>1 DEF IInv, StrandedOnlyByFailure, VerdictStands, RunInv, CoveredInv,
                        CloseInv, Beside, Lost
  <1>4. CASE RunEdits
    <2>0. PICK edit : edit = Head(run.todo) /\ EditLabel(edit)
      BY <1>4, Zenon DEF RunEdits
    <2>1. /\ run.step = "labels"
          /\ EditLabel(edit)
          /\ UNCHANGED body
          /\ IF Len(run.todo) = 1
             THEN run' = NoRun /\ judged' = run.body
             ELSE run' = [run EXCEPT !.todo = Tail(@)] /\ judged' = judged
      BY <1>4, <2>0 DEF RunEdits
    <2>2. run.body = body /\ judged = Nothing /\ body \in Bodies
      BY <2>1 DEF IInv, RunInv
    <2>3. CASE run.body \in Records
      <3>0. run.todo \in OkTodos
        BY <2>1, <2>3 DEF IInv, RunInv
      <3>1. CASE Len(run.todo) = 1
        <4>1. run.todo = << <<"remove", "invalid">> >>
              /\ edit = <<"remove", "invalid">>
          BY <2>0, <3>0, <3>1, Tails
        <4>3. /\ \A l \in Labels \ {"invalid"} :
                     /\ l \in labels' <=> l \in labels
                     /\ Lost(l)' <=> Lost(l)
              /\ "invalid" \notin labels' \/ <<"remove", "invalid">> \in missed'
          BY <2>1, <4>1, EditEffect DEF Labels, Lost
        <4>4. Beside
          BY <2>1, <4>1 DEF IInv, CoveredInv
        <4>5. run' = NoRun /\ judged' = body /\ body # Bad
          BY <2>1, <2>2, <2>3, <3>1, BadAssumption
        <4>6. StrandedOnlyByFailure'
          BY <4>3, <4>4 DEF StrandedOnlyByFailure, Lifecycle, Labels, Beside, Lost
        <4>7. VerdictStands' /\ RunInv' /\ CoveredInv'
          BY <2>1, <2>2, <4>3, <4>5 DEF VerdictStands, RunInv, CoveredInv, NoRun
        <4>8. CloseInv'
          BY <1>1, <4>3 DEF IInv, CloseInv, Labels
        <4> QED
          BY <1>1, <4>6, <4>7, <4>8 DEF IInv
      <3>2. CASE Len(run.todo) # 1
        <4>1. /\ run' = [run EXCEPT !.todo = Tail(run.todo)]
              /\ UNCHANGED judged
          BY <2>1, <3>2
        <4>2. /\ edit \in {<<"add", "available">>, <<"add", "task">>,
                            <<"add", "type">>}
              /\ Tail(run.todo) \in OkTodos
              /\ Tail(run.todo) = << <<"remove", "invalid">> >>
                     => edit = <<"add", "available">>
          BY <2>0, <3>0, <3>2, Tails DEF OkTodos
        <4>3. /\ \A l \in Labels \ {edit[2]} :
                     (l \in labels' <=> l \in labels) /\ (Lost(l)' <=> Lost(l))
              /\ edit[2] \in labels' \/ Lost(edit[2])'
          <5>1. edit = <<"add", edit[2]>> /\ edit[2] \in Labels
            BY <4>2 DEF Labels
          <5> QED
            BY <2>1, <5>1, EditEffect DEF Lost
        <4>4. Tail(run.todo) # << <<"remove", "available">> >>
          BY <4>2 DEF OkTodos
        <4>5. run'.todo = Tail(run.todo) /\ run'.body = run.body
              /\ run'.step = "labels" /\ run'.post = run.post
              /\ run' = [step |-> run'.step, body |-> run'.body,
                         post |-> run'.post, todo |-> run'.todo]
          BY <2>1, <4>1 DEF IInv, RunInv
        <4>6. Tail(run.todo) = << <<"remove", "invalid">> >> => Beside'
          <5>1. edit = <<"add", "available">> => edit[2] = "available"
            OBVIOUS
          <5> QED
            BY <4>2, <4>3, <5>1 DEF Beside, Lost
        <4>7. CoveredInv'
          BY <4>4, <4>5, <4>6 DEF CoveredInv
        <4>8. StrandedOnlyByFailure'
          <5>1. CASE edit = <<"add", "available">>
            <6>1. "available" \in labels' \/ Lost("available")'
              BY <4>3, <5>1
            <6> QED
              BY <6>1 DEF StrandedOnlyByFailure, Lifecycle, Lost
          <5>2. CASE edit # <<"add", "available">>
            <6>1. \A l \in Lifecycle :
                     (l \in labels' <=> l \in labels) /\ (Lost(l)' <=> Lost(l))
              BY <4>2, <4>3, <5>2 DEF Lifecycle, Labels
            <6> QED
              BY <6>1 DEF IInv, StrandedOnlyByFailure, Lost
          <5> QED
            BY <5>1, <5>2
        <4>9. VerdictStands' /\ RunInv'
          BY <2>1, <2>2, <2>3, <4>1, <4>2, <4>5 DEF VerdictStands, IInv, RunInv
        <4>10. CloseInv'
          <5>1. edit[2] # "done" /\ "done" \in Labels
            BY <4>2 DEF Labels
          <5> QED
            BY <1>1, <4>3, <5>1 DEF IInv, CloseInv
        <4> QED
          BY <1>1, <4>7, <4>8, <4>9, <4>10 DEF IInv
      <3> QED
        BY <3>1, <3>2
    <2>4. CASE run.body \notin Records
      <3>0. run.todo \in BadTodos /\ body = Bad
        BY <2>1, <2>2, <2>4 DEF IInv, RunInv, Bodies
      <3>1. CASE Len(run.todo) = 1
        <4>1. run.todo = << <<"remove", "available">> >>
              /\ edit = <<"remove", "available">>
          BY <2>0, <3>0, <3>1, Tails
        <4>3. \A l \in Labels \ {"available"} :
                  (l \in labels' <=> l \in labels) /\ (Lost(l)' <=> Lost(l))
          BY <2>1, <4>1, EditEffect DEF Labels, Lost
        <4>4. "invalid" \in labels' \/ Lost("invalid")'
          BY <2>1, <4>1, <4>3 DEF IInv, CoveredInv, Labels
        <4>5. run' = NoRun /\ judged' = body
          BY <2>1, <2>2, <3>1
        <4>6. StrandedOnlyByFailure'
          BY <4>4 DEF StrandedOnlyByFailure, Lifecycle, Lost
        <4>7. VerdictStands' /\ RunInv' /\ CoveredInv'
          BY <2>1, <2>2, <3>0, <4>4, <4>5 DEF VerdictStands, RunInv, CoveredInv, NoRun,
             Lost
        <4>8. CloseInv'
          BY <1>1, <4>3 DEF IInv, CloseInv, Labels
        <4> QED
          BY <1>1, <4>6, <4>7, <4>8 DEF IInv
      <3>2. CASE Len(run.todo) # 1
        <4>1. /\ run' = [run EXCEPT !.todo = Tail(run.todo)]
              /\ UNCHANGED judged
          BY <2>1, <3>2
        <4>2. /\ edit \in {<<"add", "invalid">>, <<"add", "task">>}
              /\ Tail(run.todo) \in BadTodos
              /\ Tail(run.todo) = << <<"remove", "available">> >>
                     => edit = <<"add", "invalid">>
          BY <2>0, <3>0, <3>2, Tails DEF BadTodos
        <4>3. /\ \A l \in Labels \ {edit[2]} :
                     (l \in labels' <=> l \in labels) /\ (Lost(l)' <=> Lost(l))
              /\ edit[2] \in labels' \/ Lost(edit[2])'
          <5>1. edit = <<"add", edit[2]>> /\ edit[2] \in Labels
            BY <4>2 DEF Labels
          <5> QED
            BY <2>1, <5>1, EditEffect DEF Lost
        <4>4. Tail(run.todo) # << <<"remove", "invalid">> >>
          BY <4>2 DEF BadTodos
        <4>5. run'.todo = Tail(run.todo) /\ run'.body = run.body
              /\ run'.step = "labels" /\ run'.post = run.post
              /\ run' = [step |-> run'.step, body |-> run'.body,
                         post |-> run'.post, todo |-> run'.todo]
          BY <2>1, <4>1 DEF IInv, RunInv
        <4>6. CoveredInv'
          <5>1. edit = <<"add", "invalid">> => edit[2] = "invalid"
            OBVIOUS
          <5>2. Tail(run.todo) = << <<"remove", "available">> >>
                    => "invalid" \in labels' \/ Lost("invalid")'
            BY <4>2, <4>3, <5>1
          <5> QED
            BY <4>4, <4>5, <5>2 DEF CoveredInv
        <4>7. StrandedOnlyByFailure'
          <5>1. CASE edit = <<"add", "invalid">>
            <6>1. "invalid" \in labels' \/ Lost("invalid")'
              BY <4>3, <5>1
            <6> QED
              BY <6>1 DEF StrandedOnlyByFailure, Lifecycle, Lost
          <5>2. CASE edit = <<"add", "task">>
            <6>1. \A l \in Lifecycle :
                     (l \in labels' <=> l \in labels) /\ (Lost(l)' <=> Lost(l))
              BY <4>3, <5>2 DEF Lifecycle, Labels
            <6> QED
              BY <6>1 DEF IInv, StrandedOnlyByFailure, Lost
          <5> QED
            BY <4>2, <5>1, <5>2
        <4>8. VerdictStands' /\ RunInv'
          BY <2>1, <2>2, <2>4, <4>1, <4>2, <4>5 DEF VerdictStands, IInv, RunInv
        <4>9. CloseInv'
          <5>1. edit[2] # "done" /\ "done" \in Labels
            BY <4>2 DEF Labels
          <5> QED
            BY <1>1, <4>3, <5>1 DEF IInv, CloseInv
        <4> QED
          BY <1>1, <4>6, <4>7, <4>8, <4>9 DEF IInv
      <3> QED
        BY <3>1, <3>2
    <2> QED
      BY <2>3, <2>4
  <1>5. CASE RunFails
    <2>1. /\ UNCHANGED <<body, labels, judged, missed>>
          /\ run.step \in {"fetch", "comment"} /\ run' = NoRun
      BY <1>5 DEF RunFails
    <2>2. RunInv' /\ CoveredInv'
      BY <2>1 DEF IInv, RunInv, CoveredInv, NoRun
    <2> QED
      BY <1>1, <2>1, <2>2 DEF IInv, StrandedOnlyByFailure, VerdictStands, CloseInv, Lost
  <1> QED
    BY <1>2, <1>3, <1>4, <1>5 DEF Run

LEMMA BoardKeeps == ASSUME IInv, BoardOnly PROVE IInv'
PROOF
  <1>1. CASE PreCheck \/ ClaimLands \/ LeaseTurns \/ SyncLists \/ SyncFails
             \/ ReconcileLists \/ ReconcileFails \/ PullRequestMerges
    <2>1. UNCHANGED intakeVars
      BY <1>1 DEF PreCheck, ClaimLands, LeaseTurns, SyncLists, SyncFails,
                  ReconcileLists, ReconcileFails, PullRequestMerges
    <2>2. closing' = closing \/ (closing = 0 /\ closing' = 1)
      BY <1>1 DEF PreCheck, ClaimLands, LeaseTurns, SyncLists, SyncFails,
                  ReconcileLists, ReconcileFails, PullRequestMerges
    <2>3. \/ sync' = sync \/ sync' = Idle
          \/ sync' = [sync EXCEPT !.step = "listed", !.listed = labels]
      BY <1>1 DEF PreCheck, ClaimLands, LeaseTurns, SyncLists, SyncFails,
                  ReconcileLists, ReconcileFails, PullRequestMerges
    <2>4. SyncInv'
      <3>1. CASE sync' = sync
        BY <3>1 DEF IInv, SyncInv
      <3>2. CASE sync' = Idle
        BY <3>2 DEF SyncInv, Idle, LeaseLabels
      <3>3. CASE sync' = [sync EXCEPT !.step = "listed", !.listed = labels]
        BY <3>3 DEF IInv, SyncInv
      <3> QED
        BY <2>3, <3>1, <3>2, <3>3
    <2>5. CloseInv'
      BY <2>1, <2>2 DEF IInv, intakeVars, CloseInv, Lost
    <2>6. StrandedOnlyByFailure' /\ VerdictStands'
      BY <2>1 DEF IInv, intakeVars, StrandedOnlyByFailure, VerdictStands
    <2>7. RunInv' /\ CoveredInv'
      BY <2>1 DEF IInv, intakeVars, RunInv, CoveredInv, Beside, Lost
    <2> QED
      BY <2>4, <2>5, <2>6, <2>7 DEF IInv
  <1>2. CASE SyncDecides
    BY <1>2 DEF SyncDecides, Idle, Want, LeaseLabels, IInv, intakeVars,
                StrandedOnlyByFailure, VerdictStands, RunInv, CoveredInv, CloseInv, SyncInv,
                Beside, Lost
  <1>3. CASE SyncEdits
    <2>1. labels' = (labels \cup {sync.want}) \ (Drop \cap sync.listed)
          /\ sync.want \in LeaseLabels /\ body' = body /\ body \in Bodies
          /\ closing' = closing /\ sync' = Idle /\ missed' = missed
      BY <1>3 DEF SyncEdits, IInv, SyncInv, RunInv
    <2>2. sync.want \in labels'
      BY <2>1 DEF Drop
    <2>3. /\ labels' \cap {"available", "claimed", "done"} # {}
          /\ StrandedOnlyByFailure'
          /\ "invalid" \in labels' <=> "invalid" \in labels
          /\ "done" \in labels => "done" \in labels'
      BY <2>1, <2>2 DEF Drop, LeaseLabels, Lifecycle, StrandedOnlyByFailure
    <2>4. StrandedOnlyByFailure' /\ VerdictStands' /\ RunInv' /\ CoveredInv'
      <3>1. CASE sync.want \in labels
        BY <1>3, <2>1, <2>3, <3>1, LabelsKeep DEF SyncEdits
      <3>2. CASE sync.want \notin labels
        BY <1>3, <2>1, <2>3, <3>2, EventKeeps DEF SyncEdits
      <3> QED
        BY <3>1, <3>2
    <2> QED
      BY <2>1, <2>3, <2>4 DEF IInv, CloseInv, SyncInv, Idle, LeaseLabels, Lost
  <1>4. CASE ReconcileEdits
    <2>1. StrandedOnlyByFailure' /\ VerdictStands' /\ RunInv' /\ CoveredInv'
      BY <1>4, LabelsKeep DEF ReconcileEdits
    <2> QED
      BY <1>4, <2>1 DEF ReconcileEdits, IInv, CloseInv, SyncInv, Lost
  <1>5. CASE CloseOnMerge
    <2>1. /\ UNCHANGED <<body, run, judged, sync>>
          /\ closing' = closing + 1 /\ closing \in 1..4
      BY <1>5 DEF CloseOnMerge, CloseCalls
    <2>2. PICK call : /\ call = CloseCalls[closing]
                      /\ \/ call[1] = "close" /\ UNCHANGED <<labels, missed>>
                         \/ call[1] # "close" /\ EditLabel(call)
      <3> DEFINE c == CloseCalls[closing]
      <3>1. \/ c[1] = "close" /\ UNCHANGED <<labels, missed>>
            \/ c[1] # "close" /\ EditLabel(c)
        BY <1>5, Zenon DEF CloseOnMerge
      <3> HIDE DEF c
      <3>2. c = CloseCalls[closing]
        BY DEF c
      <3> QED
        BY <3>1, <3>2, Zenon
    <2>3. /\ "done" \in labels' \/ Lost("done")'
          /\ "invalid" \in labels' <=> "invalid" \in labels
          /\ \A k \in {"add", "remove"} :
                 <<k, "invalid">> \in missed' <=> <<k, "invalid">> \in missed
      <3>1. CASE closing = 1
        <4>1. call = <<"add", "done">> /\ EditLabel(call)
          <5>1. call = <<"add", "done">>
            BY <2>2, <3>1 DEF CloseCalls
          <5>2. call[1] # "close"
            BY <5>1
          <5> QED
            BY <2>2, <5>1, <5>2
        <4> QED
          BY <4>1, EditEffect DEF Labels
      <3>2. CASE closing \in 2..4
        <4>1. "done" \in labels \/ Lost("done")
          BY <3>2 DEF IInv, CloseInv
        <4>2. \/ call = <<"remove", "claimed">>
              \/ call = <<"remove", "available">>
              \/ call = <<"close", "">>
          <5>1. closing = 2 \/ closing = 3 \/ closing = 4
            BY <3>2
          <5>2. CASE closing = 2
            BY <2>2, <5>2 DEF CloseCalls
          <5>3. CASE closing = 3
            BY <2>2, <5>3 DEF CloseCalls
          <5>4. CASE closing = 4
            BY <2>2, <5>4 DEF CloseCalls
          <5> QED
            BY <5>1, <5>2, <5>3, <5>4
        <4>3. CASE EditLabel(call) /\ call # <<"close", "">>
          BY <4>1, <4>2, <4>3, EditEffect DEF Labels, Lost
        <4>4. CASE UNCHANGED <<labels, missed>>
          BY <4>1, <4>4 DEF Lost
        <4>5. call = <<"close", "">> => call[1] = "close"
          <5>1. <<"close", "">>[1] = "close"
            OBVIOUS
          <5> QED
            BY <5>1, Zenon
        <4> QED
          BY <2>2, <4>3, <4>4, <4>5, Zenon
      <3> QED
        BY <2>1, <3>1, <3>2
    <2>4. StrandedOnlyByFailure' /\ VerdictStands' /\ RunInv' /\ CoveredInv'
      BY <2>1, <2>3, LabelsKeep
    <2> QED
      BY <2>1, <2>3, <2>4 DEF IInv, CloseInv, SyncInv
  <1> QED
    BY <1>1, <1>2, <1>3, <1>4, <1>5 DEF BoardOnly

LEMMA NextIInv == IInv /\ [BoardNext]_vars => IInv'
PROOF
  <1> SUFFICES ASSUME IInv, [BoardNext]_vars PROVE IInv'
    OBVIOUS
  <1>1. CASE BoardOnly
    BY <1>1, BoardKeeps
  <1>2. CASE People /\ UNCHANGED boardVars
    BY <1>2, PeopleKeep
  <1>3. CASE Run /\ UNCHANGED boardVars
    BY <1>3, RunKeeps
  <1>4. CASE UNCHANGED vars
    BY <1>4 DEF vars, IInv, StrandedOnlyByFailure, VerdictStands, RunInv, CoveredInv,
                CloseInv, SyncInv, Beside, Lost
  <1> QED
    BY <1>1, <1>2, <1>3, <1>4 DEF BoardNext, Next

-----------------------------------------------------------------------------
\* Whatever intake, sync, reconciliation and close-on-merge interleave and
\* whichever of their calls fail, an issue without a lifecycle label is one of
\* which the addition of such a label failed (build_payload and the workflows'
\* order of edits, additions before removals).
THEOREM StrandedOnlyByFailureHolds == BoardSpec => []StrandedOnlyByFailure
PROOF
  <1>1. IInv => StrandedOnlyByFailure
    BY DEF IInv
  <1> QED
    BY <1>1, InitIInv, NextIInv, PTL DEF BoardSpec

\* A verdict that stands is the one on the present body, and the label the
\* claim pre-check reads says so, whatever the other writers do and whichever
\* calls fail, but for an edit of that very label that failed.
THEOREM VerdictStandsHolds == BoardSpec => []VerdictStands
PROOF
  <1>1. IInv => VerdictStands
    BY DEF IInv
  <1> QED
    BY <1>1, InitIInv, NextIInv, PTL DEF BoardSpec

-----------------------------------------------------------------------------
(* The loop.                                                               *)

\* The poller has a baseline and has not ended.
Waiting == loopPc \in {"sleeping", "reading", "reading tasks"}

\* The updated_at of a task when the baseline was read.
BaseOf(i) == baseline.tasks[i][2]

\* Since the baseline each updated_at has only grown, and has grown at the
\* tasks with news.
BaselineInv ==
    /\ updated \in [Tasks -> Nat]
    /\ news \subseteq Tasks
    /\ Waiting =>
        /\ \A i \in Tasks : BaseOf(i) \in Nat /\ BaseOf(i) <= updated[i]
        /\ \A i \in news : BaseOf(i) < updated[i]
        /\ readNews = {}

-----------------------------------------------------------------------------
LEMMA InitBaseline == LoopInit => BaselineInv
BY DEF LoopInit, LoopWorld, BaselineInv, Waiting

\* What leaves clock, baseline and ghosts alone, and wakes no poller up.
LEMMA OthersKeep ==
    ASSUME BaselineInv, UNCHANGED <<updated, news, baseline, readNews>>, Waiting' => Waiting
    PROVE  BaselineInv'
BY DEF BaselineInv, Waiting, BaseOf

\* A comment within the second of the one before is no news.
LEMMA CommentKeeps ==
    ASSUME BaselineInv, NEW i \in Tasks, Comment(i)
    PROVE  BaselineInv'
<1>1. UNCHANGED <<loopPc, baseline, readNews>>
  BY DEF Comment, pollVars
<1>2. CASE UNCHANGED <<updated, news>>
  BY <1>1, <1>2, OthersKeep DEF Waiting
<1>3. CASE updated' = [updated EXCEPT ![i] = @ + 1] /\ news' = news \cup {i}
  <2>1. updated' \in [Tasks -> Nat] /\ news' \subseteq Tasks
    BY <1>3 DEF BaselineInv
  <2>2. \A j \in Tasks : updated'[j] = IF j = i THEN updated[j] + 1 ELSE updated[j]
    BY <1>3 DEF BaselineInv
  <2>3. \A j \in Tasks : updated[j] \in Nat
    BY DEF BaselineInv
  <2>4. ASSUME Waiting
        PROVE  /\ \A j \in Tasks : BaseOf(j) \in Nat /\ BaseOf(j) <= updated'[j]
               /\ \A j \in news' : BaseOf(j) < updated'[j]
    <3>1. /\ \A j \in Tasks : BaseOf(j) \in Nat /\ BaseOf(j) <= updated[j]
          /\ \A j \in news : BaseOf(j) < updated[j]
      BY <2>4 DEF BaselineInv
    <3>2. news \subseteq Tasks
      BY DEF BaselineInv
    <3> QED
      BY <1>3, <2>2, <2>3, <3>1, <3>2
  <2>5. \A j : BaseOf(j)' = BaseOf(j)
    BY <1>1 DEF BaseOf
  <2> QED
    BY <1>1, <2>1, <2>4, <2>5 DEF BaselineInv, Waiting
<1> QED
  BY <1>2, <1>3 DEF Comment

\* The baseline is what is there when its second listing is read.
LEMMA BaseReadsTasksKeeps ==
    ASSUME BaselineInv, BaseReadsTasks
    PROVE  BaselineInv'
<1>1. updated' = updated
  BY DEF BaseReadsTasks
<1>2. CASE /\ Goes("basing tasks", "sleeping")
           /\ baseline' = [prs |-> prsRead, tasks |-> TasksPrint]
           /\ news' = {} /\ readNews' = {}
  <2>1. \A i \in Tasks : BaseOf(i)' = updated[i]
    BY <1>2 DEF TasksPrint, BaseOf
  <2> QED
    <3>1. updated' \in [Tasks -> Nat]
      BY <1>1 DEF BaselineInv
    <3>2. \A i \in Tasks : updated[i] \in Nat /\ updated[i] <= updated[i]
      BY DEF BaselineInv
    <3>3. \A i \in Tasks : baseline'.tasks[i][2] \in Nat
                          /\ baseline'.tasks[i][2] <= updated'[i]
      BY <1>1, <2>1, <3>2, Zenon DEF BaseOf
    <3>4. news' = {} /\ readNews' = {}
      BY <1>2
    <3> QED
      BY <3>1, <3>3, <3>4 DEF BaselineInv, BaseOf
<1>3. CASE Goes("basing tasks", "listing") /\ UNCHANGED news
  BY <1>1, <1>3 DEF BaselineInv, Waiting, Goes
<1> QED
  BY <1>2, <1>3 DEF BaseReadsTasks

\* Two equal listings have no news between them.
LEMMA ReadsTasksKeeps ==
    ASSUME BaselineInv, ReadsTasks
    PROVE  BaselineInv'
<1>1. UNCHANGED <<updated, news>> /\ loopPc = "reading tasks"
  BY DEF ReadsTasks, worldVars
<1>2. CASE DiffSnapshots(baseline, [prs |-> prsRead, tasks |-> TasksPrint])
  BY <1>1, <1>2 DEF ReadsTasks, Ends, BaselineInv, Waiting
<1>3. CASE ~DiffSnapshots(baseline, [prs |-> prsRead, tasks |-> TasksPrint])
  <2>1. baseline.tasks = TasksPrint
    BY <1>3 DEF DiffSnapshots
  <2>2. readNews' = news /\ UNCHANGED baseline
    BY <1>3 DEF ReadsTasks
  <2>3. \A i \in Tasks : BaseOf(i) = updated[i]
    BY <2>1 DEF TasksPrint, BaseOf
  <2>4. news = {}
    <3>1. ASSUME NEW i \in news PROVE FALSE
      <4>1. i \in Tasks /\ BaseOf(i) < updated[i] /\ updated[i] \in Nat
        BY <1>1, <3>1 DEF BaselineInv, Waiting
      <4> QED
        BY <4>1, <2>3
    <3> QED
      BY <3>1
  <2> QED
    BY <1>1, <2>2, <2>4 DEF BaselineInv, Waiting, BaseOf
<1> QED
  BY <1>2, <1>3

LEMMA PollKeeps == ASSUME BaselineInv, Poll PROVE BaselineInv'
<1>1. CASE BaseReads
  BY <1>1, OthersKeep DEF BaseReads, Goes, Waiting, worldVars
<1>2. CASE BaseReadsTasks
  BY <1>2, BaseReadsTasksKeeps
<1>3. CASE Tick
  BY <1>3, OthersKeep DEF Tick, Goes, Waiting, worldVars
<1>4. CASE ReadFails
  BY <1>4, OthersKeep DEF ReadFails, Waiting, worldVars
<1>5. CASE Reads
  BY <1>5, OthersKeep DEF Reads, Goes, Waiting, worldVars
<1>6. CASE ReadsTasks
  BY <1>6, ReadsTasksKeeps
<1>7. CASE GivesUp
  BY <1>7 DEF GivesUp, Ends, BaselineInv, Waiting, worldVars
<1> QED
  BY <1>1, <1>2, <1>3, <1>4, <1>5, <1>6, <1>7 DEF Poll

LEMMA SweepKeeps == ASSUME BaselineInv, Sweep PROVE BaselineInv'
<1>1. UNCHANGED <<updated, news, baseline, readNews>>
  BY DEF Sweep, SweepLists, SweepDecides, SweepEdits, SweepEnds, worldVars, pollVars
<1>2. loopPc' \in {"sweeping", "editing", "merging"}
  BY DEF Sweep, SweepLists, SweepDecides, SweepEdits, SweepEnds, Goes
<1> QED
  BY <1>1, <1>2, OthersKeep DEF Waiting

LEMMA MergeKeeps == ASSUME BaselineInv, Merge PROVE BaselineInv'
<1>1. UNCHANGED <<updated, news, baseline, readNews>>
  BY DEF Merge, NoMerge, MergeReads, Merges, worldVars, pollVars
<1>2. loopPc' \in {"resolved", "basing"}
  BY DEF Merge, NoMerge, MergeReads, Merges, Goes
<1> QED
  BY <1>1, <1>2, OthersKeep DEF Waiting

LEMMA NextKeeps == BaselineInv /\ [LoopNext]_loopVars => BaselineInv'
<1> SUFFICES ASSUME BaselineInv, [LoopNext]_loopVars PROVE BaselineInv'
  OBVIOUS
<1>1. CASE \E i \in Tasks : Comment(i)
  BY <1>1, CommentKeeps
<1>2. CASE Push
  BY <1>2, OthersKeep DEF Push, Waiting, pollVars
<1>3. CASE ChecksEnd
  BY <1>3, OthersKeep DEF ChecksEnd, Waiting, worldVars, pollVars
<1>4. CASE Sweep
  BY <1>4, SweepKeeps
<1>5. CASE Merge
  BY <1>5, MergeKeeps
<1>6. CASE Poll
  BY <1>6, PollKeeps
<1>7. CASE UNCHANGED loopVars
  BY <1>7, OthersKeep DEF loopVars, Waiting, worldVars, pollVars
<1> QED
  BY <1>1, <1>2, <1>3, <1>4, <1>5, <1>6, <1>7 DEF LoopNext

\* The poller never goes back to sleep over a comment that was there when it
\* read the tasks (poll.py, diff_snapshots over updated_at), however its calls
\* fail and whatever sweeps and merges change meanwhile.
THEOREM NothingIsSleptOverHolds == LoopSpec => []NothingIsSleptOver
<1>1. BaselineInv => NothingIsSleptOver
  BY DEF BaselineInv, NothingIsSleptOver, Waiting
<1> QED
  BY InitBaseline, NextKeeps, <1>1, PTL DEF LoopSpec

-----------------------------------------------------------------------------
(* The overlay.                                                            *)

Contents == {None, Overseer} \cup 1..LastRelease

\* The managed paths that this project gets.
Installs(r) == Releases[r].managed \ Elsewhere

TypeInv ==
    /\ disk \in [Paths -> Contents]
    /\ release \in Nat
    /\ pc \in {"idle", "copying", "retiring"}
    /\ pc # "idle" => release \in 1..LastRelease
    /\ left \subseteq Paths
    /\ DOMAIN manifest.files \subseteq Paths

\* What the manifest says of a path that it may delete: a release wrote it.
ManifestInv ==
    \A p \in DOMAIN manifest.files \ Elsewhere :
        manifest.files[p].cls = "seeded" \/ manifest.files[p].sha256 # Overseer

\* While an upgrade runs, what it has copied stays as it copied it, and what it
\* is about to delete is not the overseer's.
UpgradeInv ==
    /\ pc = "copying" => \A p \in Installs(release) \ left : disk[p] = release
    /\ pc = "retiring" =>
        /\ \A p \in Installs(release) : disk[p] = release
        /\ left \cap Overlay(release) = {}
        /\ \A p \in left \ Elsewhere : disk[p] # Overseer

OverlayInv == TypeInv /\ ManifestInv /\ UpgradeInv /\ OnlyOwnIsDeleted

-----------------------------------------------------------------------------
\* A release ships paths, and is not the overseer.
LEMMA ReleaseShips ==
    ASSUME NEW r \in 1..LastRelease
    PROVE  /\ Overlay(r) \subseteq Paths
           /\ Installs(r) \subseteq Overlay(r)
           /\ r # Overseer /\ r # None /\ r \in Contents /\ r \in Nat
BY ReleasesAssumption DEF Paths, Overlay, Installs, Overseer, None, Contents

LEMMA InitOverlayInv == OverlayInit => OverlayInv
BY DEF OverlayInit, OverlayInv, TypeInv, ManifestInv, UpgradeInv, OnlyOwnIsDeleted,
       NoEntries, Contents

LEMMA StartsKeeps == ASSUME OverlayInv, UpgradeStarts PROVE OverlayInv'
<1>1. PICK r \in {release, release + 1} \cap 1..LastRelease :
        /\ release' = r
        /\ left' = (Releases[r].managed \ Elsewhere)
                   \cup {p \in Releases[r].seeded : disk[p] = None}
  BY DEF UpgradeStarts
<1>2. pc = "idle" /\ pc' = "copying" /\ UNCHANGED <<disk, manifest, lost>>
  BY DEF UpgradeStarts
<1>3. Overlay(r) \subseteq Paths /\ r \in Nat
  BY ReleaseShips
<1>4. left' \subseteq Paths
  BY <1>1, <1>3 DEF Overlay
<1>5. Installs(release') \ left' = {}
  BY <1>1 DEF Installs
<1>6. TypeInv'
  BY <1>1, <1>2, <1>3, <1>4 DEF OverlayInv, TypeInv
<1>7. ManifestInv' /\ OnlyOwnIsDeleted'
  BY <1>2 DEF OverlayInv, ManifestInv, OnlyOwnIsDeleted
<1>8. UpgradeInv'
  BY <1>2, <1>5 DEF UpgradeInv
<1> QED
  BY <1>6, <1>7, <1>8 DEF OverlayInv

LEMMA CopiesKeeps == ASSUME OverlayInv, Copies PROVE OverlayInv'
<1>1. PICK p \in left : disk' = [disk EXCEPT ![p] = release] /\ left' = left \ {p}
  BY DEF Copies
<1>2. pc = "copying" /\ UNCHANGED <<manifest, release, pc, lost>>
  BY DEF Copies
<1>3. release \in 1..LastRelease /\ Installs(release) \subseteq Paths
      /\ release \in Contents
  BY <1>2, ReleaseShips DEF OverlayInv, TypeInv
<1>4. TypeInv'
  BY <1>1, <1>2, <1>3 DEF OverlayInv, TypeInv
<1>5. \A q \in Installs(release) \ left' : disk'[q] = release
  BY <1>1, <1>2, <1>3 DEF OverlayInv, TypeInv, UpgradeInv
<1>6. UpgradeInv'
  BY <1>2, <1>5 DEF UpgradeInv
<1>7. ManifestInv' /\ OnlyOwnIsDeleted'
  BY <1>2 DEF OverlayInv, ManifestInv, OnlyOwnIsDeleted
<1> QED
  BY <1>4, <1>6, <1>7 DEF OverlayInv

\* What is planned for deletion has the hash of an entry that is managed.
LEMMA PlansKeeps == ASSUME OverlayInv, Plans PROVE OverlayInv'
<1>1. /\ pc = "copying" /\ left = {}
      /\ UNCHANGED <<disk, manifest, release, lost>>
  BY DEF Plans
<1>2. ManifestInv' /\ OnlyOwnIsDeleted'
  BY <1>1 DEF OverlayInv, ManifestInv, OnlyOwnIsDeleted
<1>3. CASE pc' = "idle" /\ UNCHANGED left
  <2>1. TypeInv'
    BY <1>1, <1>3 DEF OverlayInv, TypeInv
  <2>2. UpgradeInv'
    BY <1>3 DEF UpgradeInv
  <2> QED
    BY <1>2, <2>1, <2>2 DEF OverlayInv
<1>4. CASE /\ pc' = "retiring"
           /\ left' = {p \in DOMAIN manifest.files \ Overlay(release) :
                           PlanRetirements(p, disk[p]) = "delete"}
  <2>1. TypeInv'
    BY <1>1, <1>4 DEF OverlayInv, TypeInv
  <2>2. \A p \in Installs(release) : disk[p] = release
    BY <1>1 DEF OverlayInv, UpgradeInv
  <2>3. ASSUME NEW p \in left' \ Elsewhere PROVE disk[p] # Overseer
    <3>1. PlanRetirements(p, disk[p]) = "delete" /\ p \in DOMAIN manifest.files
      BY <1>4, <2>3
    <3>2. manifest.files[p].cls # "seeded" /\ disk[p] = manifest.files[p].sha256
      BY <3>1 DEF PlanRetirements
    <3> QED
      BY <3>1, <3>2, <2>3 DEF OverlayInv, ManifestInv
  <2>4. left' \cap Overlay(release) = {}
    BY <1>4
  <2>5. UpgradeInv'
    BY <1>1, <1>4, <2>2, <2>3, <2>4 DEF UpgradeInv
  <2> QED
    BY <1>2, <2>1, <2>5 DEF OverlayInv
<1> QED
  BY <1>3, <1>4 DEF Plans

LEMMA DeletesKeeps == ASSUME OverlayInv, Deletes PROVE OverlayInv'
<1>1. PICK p \in left :
        /\ left' = left \ {p}
        /\ disk' = [disk EXCEPT ![p] = None]
        /\ lost' = IF disk[p] = Overseer THEN lost \cup {p} ELSE lost
  BY DEF Deletes
<1>2. pc = "retiring" /\ UNCHANGED <<manifest, release, pc>>
  BY DEF Deletes
<1>3. release \in 1..LastRelease /\ Installs(release) \subseteq Overlay(release)
  BY <1>2, ReleaseShips DEF OverlayInv, TypeInv
<1>4. TypeInv'
  BY <1>1, <1>2 DEF OverlayInv, TypeInv, Contents
<1>5. ManifestInv'
  BY <1>2 DEF OverlayInv, ManifestInv
<1>6. OnlyOwnIsDeleted'
  BY <1>1, <1>2 DEF OverlayInv, UpgradeInv, OnlyOwnIsDeleted
<1>7. p \in Paths /\ p \notin Overlay(release)
  BY <1>2 DEF OverlayInv, TypeInv, UpgradeInv
<1>8. \A q \in Installs(release) : disk'[q] = release
  BY <1>1, <1>2, <1>3, <1>7 DEF OverlayInv, TypeInv, UpgradeInv
<1>9. \A q \in left' \ Elsewhere : disk'[q] # Overseer
  BY <1>1, <1>2, <1>7 DEF OverlayInv, TypeInv, UpgradeInv
<1>10. UpgradeInv'
  BY <1>1, <1>2, <1>8, <1>9 DEF OverlayInv, UpgradeInv
<1> QED
  BY <1>4, <1>5, <1>6, <1>10 DEF OverlayInv

\* What is recorded as managed is what this run copied.
LEMMA WritesKeeps == ASSUME OverlayInv, Writes PROVE OverlayInv'
<1>1. /\ pc = "retiring" /\ pc' = "idle"
      /\ manifest'.files = Entries
      /\ UNCHANGED <<disk, release, left, lost>>
  BY DEF Writes, Serialize
<1>2. release \in 1..LastRelease /\ Overlay(release) \subseteq Paths
      /\ release # Overseer
  BY <1>1, ReleaseShips DEF OverlayInv, TypeInv
<1>3. TypeInv'
  BY <1>1, <1>2 DEF OverlayInv, TypeInv, Entries
<1>4. ASSUME NEW p \in DOMAIN Entries \ Elsewhere
      PROVE  Entries[p].cls = "seeded" \/ Entries[p].sha256 # Overseer
  <2>1. CASE p \in Releases[release].managed
    <3>1. disk[p] = release
      BY <1>1, <1>4, <2>1 DEF OverlayInv, UpgradeInv, Installs
    <3> QED
      BY <1>2, <1>4, <3>1 DEF Entries
  <2>2. CASE p \notin Releases[release].managed
    BY <1>4, <2>2 DEF Entries
  <2> QED
    BY <2>1, <2>2
<1>5. ManifestInv'
  BY <1>1, <1>4 DEF ManifestInv
<1>6. UpgradeInv' /\ OnlyOwnIsDeleted'
  BY <1>1 DEF OverlayInv, UpgradeInv, OnlyOwnIsDeleted
<1> QED
  BY <1>3, <1>5, <1>6 DEF OverlayInv

LEMMA DiesKeeps == ASSUME OverlayInv, Dies PROVE OverlayInv'
<1>1. /\ pc' = "idle" /\ left' = {} /\ UNCHANGED <<disk, release, lost>>
      /\ manifest' = manifest \/ manifest' = [state |-> "corrupt", files |-> NoEntries]
  BY DEF Dies, RefusedManifest
<1>2. DOMAIN manifest'.files \subseteq Paths /\ ManifestInv'
  BY <1>1 DEF OverlayInv, TypeInv, ManifestInv, NoEntries
<1>3. TypeInv'
  BY <1>1, <1>2 DEF OverlayInv, TypeInv
<1>4. UpgradeInv' /\ OnlyOwnIsDeleted'
  BY <1>1 DEF OverlayInv, UpgradeInv, OnlyOwnIsDeleted
<1> QED
  BY <1>2, <1>3, <1>4 DEF OverlayInv

LEMMA OverseerEditsKeeps == ASSUME OverlayInv, OverseerEdits PROVE OverlayInv'
<1>1. PICK p \in Paths, c \in {None, Overseer} : disk' = [disk EXCEPT ![p] = c]
  BY DEF OverseerEdits
<1>2. pc = "idle" /\ UNCHANGED <<manifest, release, pc, left, lost>>
  BY DEF OverseerEdits
<1>3. disk' \in [Paths -> Contents]
  BY <1>1 DEF OverlayInv, TypeInv, Contents
<1> QED
  BY <1>2, <1>3 DEF OverlayInv, TypeInv, ManifestInv, UpgradeInv, OnlyOwnIsDeleted

LEMMA RestartsKeeps == ASSUME OverlayInv, Restarts PROVE OverlayInv'
<1>1. /\ pc = "idle" /\ manifest' = [state |-> "absent", files |-> NoEntries]
      /\ UNCHANGED <<disk, release, pc, left, lost>>
  BY DEF Restarts
<1> QED
  BY <1>1 DEF OverlayInv, TypeInv, ManifestInv, UpgradeInv, OnlyOwnIsDeleted, NoEntries

LEMMA StutterKeeps == ASSUME OverlayInv, UNCHANGED overlayVars PROVE OverlayInv'
BY DEF OverlayInv, TypeInv, ManifestInv, UpgradeInv, OnlyOwnIsDeleted, overlayVars,
       Installs, Overlay

\* No retirement deletes what the overseer wrote, but at a path that is managed
\* for the projects of another prover (manifest.py, plan_retirements): the
\* manifest vouches only for what its run had copied, because nothing between
\* the copies and the write changes a path that the release ships.
THEOREM OnlyOwnIsDeletedHolds == OverlaySpec => []OnlyOwnIsDeleted
<1>1. OverlayInv /\ [OverlayNext]_overlayVars => OverlayInv'
  BY StartsKeeps, CopiesKeeps, PlansKeeps, DeletesKeeps, WritesKeeps, DiesKeeps,
     OverseerEditsKeeps, RestartsKeeps, StutterKeeps DEF OverlayNext
<1>2. OverlayInv => OnlyOwnIsDeleted
  BY DEF OverlayInv
<1> QED
  BY InitOverlayInv, <1>1, <1>2, PTL DEF OverlaySpec

LEMMA OverlayNextInv == OverlayInv /\ [OverlayNext]_overlayVars => OverlayInv'
BY StartsKeeps, CopiesKeeps, PlansKeeps, DeletesKeeps, WritesKeeps, DiesKeeps,
   OverseerEditsKeeps, RestartsKeeps, StutterKeeps DEF OverlayNext

-----------------------------------------------------------------------------
(* What releases leave behind.                                             *)

\* The manifest records what is there as managed.  One that cannot be read
\* would, and ends every run before it retires anything.
Vouched(p) ==
    \/ manifest.state = "corrupt"
    \/ /\ p \in DOMAIN manifest.files
       /\ manifest.files[p].cls # "seeded"
       /\ manifest.files[p].sha256 = disk[p]

\* What is on the disk is of a release so far; what is still to be copied is the
\* release's.
PastInv ==
    /\ recorded \in Nat /\ recorded <= release
    /\ \A p \in Paths : disk[p] <= release
    /\ pc = "copying" => left \subseteq Installs(release) \cup Releases[release].seeded

\* Once the manifest is that of the release: all it can be asked for later is
\* vouched for, even if the release is installed again.
RecordedInv ==
    recorded = release =>
        /\ \A p \in Paths : HandedOver(p) \/ Vouched(p)
        /\ release > 0 =>
            /\ \A p \in Paths \ Overlay(release) : HandedOver(p)
            /\ \A p \in Installs(release) :
                    \/ manifest.state = "corrupt"
                    \/ /\ p \in DOMAIN manifest.files
                       /\ manifest.files[p].cls # "seeded"
                       /\ manifest.files[p].sha256 = release

\* Before that, and while it is retired.
RetiredInv ==
    /\ release > 0 => \A p \in Paths \ Overlay(release) : HandedOver(p) \/ Vouched(p)
    /\ pc = "retiring" =>
        /\ manifest.state # "corrupt"
        /\ \A p \in Paths \ Overlay(release) : HandedOver(p) \/ p \in left

LineageInv == PastInv /\ (~abandoned => RecordedInv /\ RetiredInv)

\* What a release handed over stays so, as releases follow it.
LEMMA HandedOverStays ==
    ASSUME TypeInv, PastInv, NEW p \in Paths, HandedOver(p), disk'[p] = disk[p],
           release' \in Nat, release <= release'
    PROVE  HandedOver(p)'
<1>1. CASE disk[p] \in 1..LastRelease
  <2>1. PICK r \in disk[p]..release : p \in Releases[r].seeded
    BY <1>1 DEF HandedOver
  <2>2. r \in disk[p]..release'
    BY <1>1, <2>1 DEF TypeInv
  <2> QED
    BY <2>1, <2>2 DEF HandedOver
<1>2. CASE disk[p] \notin 1..LastRelease
  BY <1>2 DEF HandedOver
<1> QED
  BY <1>1, <1>2

LEMMA NobodysIsHandedOver ==
    ASSUME NEW p, disk'[p] \in {None, Overseer}
    PROVE  HandedOver(p)'
BY DEF HandedOver, None, Overseer

LEMMA InitLineage == OverlayInit => LineageInv
<1> SUFFICES ASSUME OverlayInit PROVE LineageInv
  OBVIOUS
<1>1. disk \in [Paths -> {None, Overseer}] /\ release = 0 /\ recorded = 0 /\ pc = "idle"
  BY DEF OverlayInit
<1>2. \A p \in Paths : HandedOver(p) /\ disk[p] <= release
  BY <1>1 DEF HandedOver, None, Overseer
<1> QED
  BY <1>1, <1>2 DEF LineageInv, PastInv, RecordedInv, RetiredInv

\* A next release finds everything vouched for, unless one was skipped.
LEMMA StartsLineage ==
    ASSUME OverlayInv, LineageInv, UpgradeStarts PROVE LineageInv'
<1>1. PICK r \in {release, release + 1} \cap 1..LastRelease :
        /\ release' = r
        /\ left' = (Releases[r].managed \ Elsewhere)
                   \cup {p \in Releases[r].seeded : disk[p] = None}
        /\ abandoned' = (abandoned \/ (r # release /\ recorded # release))
  BY DEF UpgradeStarts
<1>2. /\ pc' = "copying" /\ UNCHANGED <<disk, manifest, recorded>>
      /\ TypeInv /\ PastInv /\ release \in Nat
  BY DEF UpgradeStarts, OverlayInv, LineageInv, TypeInv
<1>3. disk \in [Paths -> Contents] /\ r \in Nat /\ release <= r
  BY <1>1, <1>2 DEF TypeInv
<1>4. PastInv'
  <2>1. recorded' \in Nat /\ recorded' <= release'
    BY <1>1, <1>2, <1>3 DEF PastInv
  <2>2. ASSUME NEW p \in Paths PROVE disk[p] <= r
    <3>1. disk[p] \in Contents /\ disk[p] <= release
      BY <1>2, <1>3 DEF PastInv
    <3> QED
      BY <1>2, <1>3, <3>1 DEF Contents, None, Overseer
  <2>3. left' \subseteq Installs(r) \cup Releases[r].seeded
    BY <1>1 DEF UpgradeStarts, Installs
  <2> QED
    BY <1>1, <1>2, <2>1, <2>2, <2>3 DEF PastInv, Installs
<1>5. \A p \in Paths : HandedOver(p) => HandedOver(p)'
  BY <1>1, <1>2, <1>3, HandedOverStays
<1>6. \A p \in Paths : Vouched(p) => Vouched(p)'
  BY <1>2 DEF Vouched
<1>7. ASSUME ~abandoned', r = release PROVE RecordedInv' /\ RetiredInv'
  <2>1. RecordedInv /\ RetiredInv
    BY <1>1, <1>7 DEF LineageInv
  <2>2. UNCHANGED <<release, disk, manifest, recorded>>
    BY <1>1, <1>2, <1>7
  <2>3. RecordedInv'
    BY <2>1, <2>2, <1>5, <1>6 DEF RecordedInv, Overlay, Installs
  <2>4. RetiredInv'
    BY <2>1, <2>2, <1>2, <1>5, <1>6 DEF RetiredInv, Overlay
  <2> QED
    BY <2>3, <2>4
<1>8. ASSUME ~abandoned', r # release PROVE RecordedInv' /\ RetiredInv'
  <2>1. RecordedInv /\ recorded = release
    BY <1>1, <1>8 DEF LineageInv
  <2>2. RecordedInv'
    BY <1>1, <1>2, <1>8, <2>1 DEF RecordedInv
  <2>3. \A p \in Paths : HandedOver(p)' \/ Vouched(p)'
    BY <1>5, <1>6, <2>1 DEF RecordedInv
  <2> QED
    BY <1>2, <2>2, <2>3 DEF RetiredInv
<1> QED
  BY <1>4, <1>7, <1>8 DEF LineageInv

\* What a release copies is seeded, or recorded already when it is missed.
LEMMA CopiesLineage == ASSUME OverlayInv, LineageInv, Copies PROVE LineageInv'
<1>1. PICK p \in left : disk' = [disk EXCEPT ![p] = release] /\ left' = left \ {p}
  BY DEF Copies
<1>2. /\ pc = "copying" /\ UNCHANGED <<manifest, release, pc, recorded, abandoned>>
      /\ TypeInv /\ PastInv /\ release \in Nat /\ release \in 1..LastRelease
      /\ left \subseteq Installs(release) \cup Releases[release].seeded
  BY <1>1 DEF Copies, OverlayInv, LineageInv, TypeInv, PastInv
<1>3. /\ disk \in [Paths -> Contents] /\ p \in Paths /\ p \in Overlay(release)
      /\ disk'[p] = release
      /\ \A q \in Paths \ {p} : disk'[q] = disk[q]
  BY <1>1, <1>2 DEF TypeInv, Overlay, Installs
<1>4. PastInv'
  BY <1>1, <1>2, <1>3 DEF PastInv
<1>5. ASSUME NEW q \in Paths \ {p}
      PROVE  (HandedOver(q) => HandedOver(q)') /\ (Vouched(q) => Vouched(q)')
  <2>1. HandedOver(q) => HandedOver(q)'
    BY <1>2, <1>3, HandedOverStays
  <2> QED
    BY <1>2, <1>3, <2>1 DEF Vouched
<1>6. p \in Releases[release].seeded => HandedOver(p)'
  BY <1>2, <1>3 DEF HandedOver
<1>7. ASSUME ~abandoned PROVE RecordedInv' /\ RetiredInv'
  <2>1. RecordedInv /\ RetiredInv
    BY <1>7 DEF LineageInv
  <2>2. ASSUME recorded = release, p \in Installs(release) PROVE Vouched(p)'
    BY <1>2, <1>3, <2>1, <2>2 DEF RecordedInv, Vouched
  <2>3. RecordedInv'
    <3> SUFFICES ASSUME recorded = release
                 PROVE  /\ \A q \in Paths : HandedOver(q)' \/ Vouched(q)'
                        /\ \A q \in Paths \ Overlay(release) : HandedOver(q)'
      BY <1>2, <2>1 DEF RecordedInv, Overlay, Installs
    <3>1. ASSUME NEW q \in Paths PROVE HandedOver(q)' \/ Vouched(q)'
      BY <1>1, <1>2, <1>5, <1>6, <2>1, <2>2 DEF RecordedInv
    <3>2. ASSUME NEW q \in Paths \ Overlay(release) PROVE HandedOver(q)'
      BY <1>2, <1>3, <1>5, <2>1 DEF RecordedInv
    <3> QED
      BY <3>1, <3>2
  <2>4. RetiredInv'
    <3>1. ASSUME NEW q \in Paths \ Overlay(release) PROVE HandedOver(q)' \/ Vouched(q)'
      BY <1>2, <1>3, <1>5, <2>1 DEF RetiredInv
    <3> QED
      BY <1>2, <3>1 DEF RetiredInv, Overlay
  <2> QED
    BY <2>3, <2>4
<1> QED
  BY <1>2, <1>4, <1>7 DEF LineageInv

\* What is vouched for, no longer ships and is as it was recorded, is planned.
LEMMA PlansLineage == ASSUME OverlayInv, LineageInv, Plans PROVE LineageInv'
<1>1. /\ pc = "copying" /\ UNCHANGED <<disk, manifest, release, recorded, abandoned>>
      /\ TypeInv /\ PastInv /\ release \in 1..LastRelease
  BY DEF Plans, OverlayInv, LineageInv, TypeInv
<1>2. \A p : (HandedOver(p) <=> HandedOver(p)') /\ (Vouched(p) <=> Vouched(p)')
  BY <1>1 DEF HandedOver, Vouched
<1>3. PastInv'
  BY <1>1 DEF PastInv, Plans
<1>4. ASSUME ~abandoned PROVE RecordedInv' /\ RetiredInv'
  <2>1. RecordedInv /\ RetiredInv
    BY <1>4 DEF LineageInv
  <2>2. RecordedInv'
    BY <1>1, <1>2, <2>1 DEF RecordedInv, Overlay, Installs
  <2>3. ASSUME pc' = "retiring"
        PROVE  /\ manifest.state # "corrupt"
               /\ \A p \in Paths \ Overlay(release) : HandedOver(p) \/ p \in left'
    <3>1. /\ manifest.state # "corrupt"
          /\ left' = {p \in DOMAIN manifest.files \ Overlay(release) :
                          PlanRetirements(p, disk[p]) = "delete"}
      BY <2>3 DEF Plans
    <3>2. ASSUME NEW p \in Paths \ Overlay(release), ~HandedOver(p) PROVE p \in left'
      <4>1. Vouched(p) /\ disk[p] # None
        BY <1>1, <2>1, <3>2, ReleasesAssumption DEF RetiredInv, HandedOver, None
      <4>2. PlanRetirements(p, disk[p]) = "delete"
        BY <3>1, <4>1 DEF Vouched, PlanRetirements
      <4> QED
        BY <3>1, <3>2, <4>1, <4>2 DEF Vouched
    <3> QED
      BY <3>1, <3>2
  <2>4. RetiredInv'
    BY <1>1, <1>2, <2>1, <2>3 DEF RetiredInv, Overlay
  <2> QED
    BY <2>2, <2>4
<1> QED
  BY <1>1, <1>3, <1>4 DEF LineageInv

LEMMA DeletesLineage == ASSUME OverlayInv, LineageInv, Deletes PROVE LineageInv'
<1>1. PICK p \in left : left' = left \ {p} /\ disk' = [disk EXCEPT ![p] = None]
  BY DEF Deletes
<1>2. /\ pc = "retiring" /\ UNCHANGED <<manifest, release, pc, recorded, abandoned>>
      /\ TypeInv /\ PastInv /\ release \in Nat /\ release \in 1..LastRelease
      /\ left \subseteq Paths /\ left \cap Overlay(release) = {}
  BY DEF Deletes, OverlayInv, LineageInv, TypeInv, UpgradeInv
<1>3. /\ disk \in [Paths -> Contents] /\ p \in Paths /\ disk'[p] = None
      /\ \A q \in Paths \ {p} : disk'[q] = disk[q]
  BY <1>1, <1>2 DEF TypeInv
<1>4. PastInv'
  BY <1>1, <1>2, <1>3 DEF PastInv, None
<1>5. ASSUME NEW q \in Paths PROVE HandedOver(q) => HandedOver(q)'
  <2>1. q # p => (HandedOver(q) => HandedOver(q)')
    BY <1>2, <1>3, HandedOverStays
  <2>2. HandedOver(p)'
    BY <1>3, NobodysIsHandedOver
  <2> QED
    BY <2>1, <2>2
<1>6. ASSUME NEW q \in Paths PROVE Vouched(q) => HandedOver(q)' \/ Vouched(q)'
  <2>1. q # p => (Vouched(q) => Vouched(q)')
    BY <1>2, <1>3 DEF Vouched
  <2>2. HandedOver(p)'
    BY <1>3, NobodysIsHandedOver
  <2> QED
    BY <2>1, <2>2
<1>7. ASSUME ~abandoned PROVE RecordedInv' /\ RetiredInv'
  <2>1. RecordedInv /\ RetiredInv
    BY <1>7 DEF LineageInv
  <2>2. RecordedInv'
    <3> SUFFICES ASSUME recorded = release
                 PROVE  /\ \A q \in Paths : HandedOver(q)' \/ Vouched(q)'
                        /\ \A q \in Paths \ Overlay(release) : HandedOver(q)'
      BY <1>2, <2>1 DEF RecordedInv, Overlay, Installs
    <3> QED
      BY <1>2, <1>5, <1>6, <2>1 DEF RecordedInv
  <2>3. ASSUME NEW q \in Paths \ Overlay(release)
        PROVE  (HandedOver(q)' \/ Vouched(q)') /\ (HandedOver(q)' \/ q \in left')
    <3>1. HandedOver(q) \/ q \in left
      BY <1>2, <2>1 DEF RetiredInv
    <3>2. HandedOver(p)'
      BY <1>3, NobodysIsHandedOver
    <3>3. HandedOver(q) \/ Vouched(q)
      BY <1>2, <2>1 DEF RetiredInv
    <3> QED
      BY <1>1, <1>5, <1>6, <3>1, <3>2, <3>3
  <2>4. RetiredInv'
    BY <1>2, <2>1, <2>3 DEF RetiredInv, Overlay
  <2> QED
    BY <2>2, <2>4
<1> QED
  BY <1>2, <1>4, <1>7 DEF LineageInv

\* The manifest that is written has what the release left: what it copied, what
\* was there where it would have seeded, and nothing that it still had to delete.
LEMMA WritesLineage == ASSUME OverlayInv, LineageInv, Writes PROVE LineageInv'
<1>1. /\ pc = "retiring" /\ pc' = "idle" /\ left = {}
      /\ manifest' = [state |-> "whole", files |-> Entries] /\ recorded' = release
      /\ UNCHANGED <<disk, release, left, abandoned>>
  BY DEF Writes, Serialize
<1>2. /\ TypeInv /\ PastInv /\ UpgradeInv
      /\ release \in Nat /\ release \in 1..LastRelease
      /\ Overlay(release) \subseteq Paths /\ Installs(release) \subseteq Overlay(release)
      /\ release # None
  BY <1>1, ReleaseShips DEF OverlayInv, LineageInv, TypeInv
<1>3. PastInv'
  BY <1>1, <1>2 DEF PastInv
<1>4. \A p : HandedOver(p) <=> HandedOver(p)'
  BY <1>1 DEF HandedOver
<1>5. ASSUME ~abandoned PROVE RecordedInv' /\ RetiredInv'
  <2>1. \A p \in Paths \ Overlay(release) : HandedOver(p)
    BY <1>1, <1>5 DEF LineageInv, RetiredInv
  <2>2. ASSUME NEW p \in Overlay(release) PROVE HandedOver(p) \/ Vouched(p)'
    <3>1. CASE p \in Releases[release].seeded
      <4>1. ASSUME disk[p] \in 1..LastRelease PROVE release \in disk[p]..release
        <5>1. disk[p] <= release
          BY <1>2 DEF PastInv
        <5> QED
          BY <1>2, <4>1, <5>1
      <4> QED
        BY <3>1, <4>1 DEF HandedOver
    <3>2. CASE disk[p] = None
      BY <3>2 DEF HandedOver, None
    <3>3. CASE p \in Releases[release].managed /\ disk[p] # None
      <4>1. p \in DOMAIN Entries /\ Entries[p].cls = "managed" /\ Entries[p].sha256 = disk[p]
        BY <2>2, <3>3 DEF Entries
      <4> QED
        BY <1>1, <4>1 DEF Vouched
    <3> QED
      BY <2>2, <3>1, <3>2, <3>3 DEF Overlay
  <2>3. ASSUME NEW p \in Installs(release)
        PROVE  /\ p \in DOMAIN Entries
               /\ Entries[p].cls # "seeded" /\ Entries[p].sha256 = release
    <3>1. disk[p] = release /\ p \in Overlay(release) /\ p \in Releases[release].managed
      BY <1>1, <1>2, <2>3 DEF UpgradeInv, Installs
    <3> QED
      BY <1>2, <3>1 DEF Entries
  <2>4. RecordedInv'
    BY <1>1, <1>2, <1>4, <2>1, <2>2, <2>3 DEF RecordedInv, Overlay, Installs
  <2>5. RetiredInv'
    BY <1>1, <1>4, <2>1 DEF RetiredInv, Overlay
  <2> QED
    BY <2>4, <2>5
<1> QED
  BY <1>1, <1>3, <1>5 DEF LineageInv

LEMMA DiesLineage == ASSUME OverlayInv, LineageInv, Dies PROVE LineageInv'
<1>1. /\ pc' = "idle" /\ left' = {}
      /\ UNCHANGED <<disk, release, recorded, abandoned>>
      /\ manifest' = manifest \/ manifest'.state = "corrupt"
  BY DEF Dies, RefusedManifest
<1>2. \A p : (HandedOver(p) <=> HandedOver(p)') /\ (Vouched(p) => Vouched(p)')
  BY <1>1 DEF HandedOver, Vouched
<1>3. PastInv'
  BY <1>1 DEF LineageInv, PastInv
<1>4. ASSUME ~abandoned PROVE RecordedInv' /\ RetiredInv'
  <2>1. RecordedInv /\ RetiredInv
    BY <1>4 DEF LineageInv
  <2>2. RecordedInv'
    BY <1>1, <1>2, <2>1 DEF RecordedInv, Overlay, Installs
  <2>3. RetiredInv'
    BY <1>1, <1>2, <2>1 DEF RetiredInv, Overlay
  <2> QED
    BY <2>2, <2>3
<1> QED
  BY <1>1, <1>3, <1>4 DEF LineageInv

LEMMA OverseerEditsLineage ==
    ASSUME OverlayInv, LineageInv, OverseerEdits PROVE LineageInv'
<1>1. PICK p \in Paths, c \in {None, Overseer} : disk' = [disk EXCEPT ![p] = c]
  BY DEF OverseerEdits
<1>2. /\ pc = "idle" /\ UNCHANGED <<manifest, release, pc, left, recorded, abandoned>>
      /\ TypeInv /\ PastInv /\ release \in Nat
  BY DEF OverseerEdits, OverlayInv, LineageInv, TypeInv
<1>3. /\ disk'[p] \in {None, Overseer}
      /\ \A q \in Paths \ {p} : disk'[q] = disk[q]
  BY <1>1, <1>2 DEF TypeInv
<1>4. PastInv'
  BY <1>2, <1>3 DEF PastInv, None, Overseer
<1>5. ASSUME NEW q \in Paths
      PROVE  /\ HandedOver(q) => HandedOver(q)'
             /\ Vouched(q) => HandedOver(q)' \/ Vouched(q)'
  <2>1. HandedOver(p)'
    BY <1>3, NobodysIsHandedOver
  <2>2. q # p => (HandedOver(q) => HandedOver(q)')
    BY <1>2, <1>3, HandedOverStays
  <2>3. q # p => (Vouched(q) => Vouched(q)')
    BY <1>2, <1>3 DEF Vouched
  <2> QED
    BY <2>1, <2>2, <2>3
<1>6. ASSUME ~abandoned PROVE RecordedInv' /\ RetiredInv'
  <2>1. RecordedInv /\ RetiredInv
    BY <1>6 DEF LineageInv
  <2>2. RecordedInv'
    <3> SUFFICES ASSUME recorded = release
                 PROVE  /\ \A q \in Paths : HandedOver(q)' \/ Vouched(q)'
                        /\ release > 0 => \A q \in Paths \ Overlay(release) : HandedOver(q)'
      BY <1>2, <2>1 DEF RecordedInv, Overlay, Installs
    <3> QED
      BY <1>5, <2>1 DEF RecordedInv
  <2>3. RetiredInv'
    BY <1>2, <1>5, <2>1 DEF RetiredInv, Overlay
  <2> QED
    BY <2>2, <2>3
<1> QED
  BY <1>2, <1>4, <1>6 DEF LineageInv

LEMMA NextLineage ==
    OverlayInv /\ LineageInv /\ [OverlayNext]_overlayVars => LineageInv'
<1> SUFFICES ASSUME OverlayInv, LineageInv, [OverlayNext]_overlayVars PROVE LineageInv'
  OBVIOUS
<1>1. CASE Restarts
  <2>1. abandoned' /\ UNCHANGED <<disk, release, recorded, pc, left>>
    BY <1>1 DEF Restarts
  <2> QED
    BY <2>1 DEF LineageInv, PastInv
<1>2. CASE UNCHANGED overlayVars
  BY <1>2 DEF overlayVars, LineageInv, PastInv, RecordedInv, RetiredInv, HandedOver,
              Vouched, Overlay, Installs
<1> QED
  BY <1>1, <1>2, StartsLineage, CopiesLineage, PlansLineage, DeletesLineage,
     WritesLineage, DiesLineage, OverseerEditsLineage DEF OverlayNext

\* After a run that recorded its release, nothing of an earlier release is left
\* outside the overlay but what some release since seeded (manifest.py, "derived
\* from the difference between two install sets"): the manifest vouches for all
\* that a later release may have to retire, and goes on doing so if it is torn,
\* by ending the runs.
THEOREM NothingIsLeftBehindHolds == OverlaySpec => []NothingIsLeftBehind
<1>1. OverlayInit => OverlayInv /\ LineageInv
  BY InitOverlayInv, InitLineage
<1>2. OverlayInv /\ LineageInv /\ [OverlayNext]_overlayVars => (OverlayInv /\ LineageInv)'
  BY OverlayNextInv, NextLineage
<1>3. LineageInv => NothingIsLeftBehind
  BY DEF LineageInv, RecordedInv, NothingIsLeftBehind
<1> QED
  BY <1>1, <1>2, <1>3, PTL DEF OverlaySpec

-----------------------------------------------------------------------------
(* RoadmapGraph: plans.                                                    *)

Ids == PlannedIds \cup {<<LeafOf[d]>> : d \in Names} \cup {<<QualifiedOf[d]>> : d \in Names}
            \cup {<<QualifiedOf[d], k>> : d \in Names, k \in Nat}

Nodes ==
    [decl : Names \cup {NoDecl}, upstream : BOOLEAN, group : BOOLEAN,
     statement : {"planned", "formalized"}, proof : {"planned", "formalized"},
     uses : SUBSET Ids, proofUses : SUBSET Ids]

\* No declaration has two nodes.
OneNodeEach(nodes) ==
    \A m, n \in DOMAIN nodes : nodes[m].decl = nodes[n].decl /\ nodes[m].decl \in Names => m = n

IsPlan(nodes) == IsFiniteSet(DOMAIN nodes) /\ OneNodeEach(nodes)
Roadmaps == {nodes \in UNION {[s -> Nodes] : s \in SUBSET Ids} : IsPlan(nodes)}

LEMMA PlanIs ==
    ASSUME NEW nodes
    PROVE  nodes \in Roadmaps <=>
              /\ nodes = [n \in DOMAIN nodes |-> nodes[n]]
              /\ DOMAIN nodes \subseteq Ids
              /\ \A n \in DOMAIN nodes : nodes[n] \in Nodes
              /\ IsPlan(nodes)
<1>1. nodes \in UNION {[s -> Nodes] : s \in SUBSET Ids} <=>
        /\ nodes = [n \in DOMAIN nodes |-> nodes[n]]
        /\ DOMAIN nodes \subseteq Ids
        /\ \A n \in DOMAIN nodes : nodes[n] \in Nodes
  <2> HIDE DEF Ids, Nodes
  <2> QED OBVIOUS
<1> QED
  BY <1>1 DEF Roadmaps

LEMMA NamesAre ==
    /\ Len(Decls) \in Nat /\ DOMAIN Decls = 1..Len(Decls)
    /\ \A k \in 1..Len(Decls) : Decls[k] \in Names
    /\ \A d \in Names : \E k \in 1..Len(Decls) : d = Decls[k]
    /\ NoDecl \notin Names
<1> DEFINE S == STRING \ {""}
<1>1. Decls \in Seq(S) /\ "" \notin S
  BY DeclsAssumption
<1>2. Len(Decls) \in Nat /\ DOMAIN Decls = 1..Len(Decls) /\ \A k \in 1..Len(Decls) : Decls[k] \in S
  <2> HIDE DEF S
  <2> QED BY <1>1, SeqIs
<1> QED
  BY <1>1, <1>2 DEF Names, NoDecl

-----------------------------------------------------------------------------
(* _node_id finds an id that no node has.                                  *)

LEMMA NumbersDoNotRunOut ==
    ASSUME NEW d, NEW taken, IsFiniteSet(taken)
    PROVE  \E k \in 2..(Cardinality(taken) + 2) :
                /\ <<QualifiedOf[d], k>> \notin taken
                /\ \A j \in 2..(k - 1) : <<QualifiedOf[d], j>> \in taken
<1> DEFINE c == Cardinality(taken)
           free == {k \in 2..(c + 2) : <<QualifiedOf[d], k>> \notin taken}
<1>1. c \in Nat
  BY FS_CardinalityType
<1>2. free # {}
  <2> SUFFICES ASSUME \A k \in 2..(c + 2) : <<QualifiedOf[d], k>> \in taken PROVE FALSE
    OBVIOUS
  <2> DEFINE numbered == [k \in 2..(c + 2) |-> <<QualifiedOf[d], k>>]
  <2>1. numbered \in [2..(c + 2) -> taken]
    OBVIOUS
  <2>2. 2 \in Int /\ c + 2 \in Int
    BY <1>1
  <2>3. /\ IsFiniteSet(2..(c + 2))
        /\ Cardinality(2..(c + 2)) = IF 2 > c + 2 THEN 0 ELSE (c + 2) - 2 + 1
    BY <2>2, FS_Interval, Zenon
  <2>4. c < Cardinality(2..(c + 2))
    BY <1>1, <2>3
  <2>5. \E x, y \in 2..(c + 2) : x # y /\ numbered[x] = numbered[y]
    <3> HIDE DEF numbered
    <3> QED BY <2>1, <2>3, <2>4, FS_PigeonHole
  <2> QED
    BY <2>5
<1>3. free \in SUBSET Nat
  BY <1>1
<1>4. PICK k \in free : \A j \in free : k <= j
  BY <1>2, <1>3, LeastNat
<1>5. ASSUME NEW j \in 2..(k - 1) PROVE <<QualifiedOf[d], j>> \in taken
  <2>1. j \in 2..(c + 2) /\ j < k
    BY <1>1
  <2> QED
    BY <1>4, <2>1
<1> QED
  BY <1>4, <1>5

LEMMA NodeIdIsFresh ==
    ASSUME NEW d, NEW taken, IsFiniteSet(taken)
    PROVE  /\ NodeId(d, taken) \notin taken
           /\ d \in Names => NodeId(d, taken) \in Ids
<1> DEFINE first(k) == /\ <<QualifiedOf[d], k>> \notin taken
                       /\ \A j \in 2..(k - 1) : <<QualifiedOf[d], j>> \in taken
           k == CHOOSE k \in 2..(Cardinality(taken) + 2) : first(k)
<1>1. k \in 2..(Cardinality(taken) + 2) /\ first(k)
  BY NumbersDoNotRunOut, Zenon
<1>2. Cardinality(taken) \in Nat
  BY FS_CardinalityType
<1>3. k \in Nat
  <2> HIDE DEF k
  <2> QED BY <1>1, <1>2
<1>4. NodeId(d, taken) = IF <<LeafOf[d]>> \notin taken THEN <<LeafOf[d]>>
                         ELSE IF <<QualifiedOf[d]>> \notin taken THEN <<QualifiedOf[d]>>
                         ELSE <<QualifiedOf[d], k>>
  BY DEF NodeId
<1> HIDE DEF k
<1>5. <<QualifiedOf[d], k>> \notin taken
  BY <1>1
<1>6. NodeId(d, taken) \notin taken
  BY <1>4, <1>5
<1>7. ASSUME d \in Names PROVE NodeId(d, taken) \in Ids
  BY <1>3, <1>4, <1>7 DEF Ids
<1> QED
  BY <1>6, <1>7

-----------------------------------------------------------------------------
(* _mint gives every declaration a node, and changes none.                 *)

\* What a plan still has when it has become another.
Keeps(nodes, more) ==
    DOMAIN nodes \subseteq DOMAIN more /\ \A n \in DOMAIN nodes : more[n] = nodes[n]

LEMMA MintedIsNode ==
    ASSUME NEW d \in Names, NEW term
    PROVE  Minted(d, term) \in Nodes /\ Minted(d, term).decl = d
<1>1. (IF HasPlaceholder(term) THEN "planned" ELSE "formalized") \in {"planned", "formalized"}
  OBVIOUS
<1>2. {} \in SUBSET Ids
  OBVIOUS
<1> QED
  BY <1>1, <1>2 DEF Minted, Nodes

LEMMA MintOneIs ==
    ASSUME NEW nodes \in Roadmaps, NEW d \in Names, NEW deps
    PROVE  /\ MintOne(nodes, d, deps) \in Roadmaps
           /\ Keeps(nodes, MintOne(nodes, d, deps))
           /\ d \in DOMAIN deps => d \in Known(MintOne(nodes, d, deps))
           /\ ~(d \in DOMAIN deps /\ d \notin Known(nodes)) => MintOne(nodes, d, deps) = nodes
<1> DEFINE id == NodeId(d, DOMAIN nodes)
           node == Minted(d, deps[d])
           more == [n \in DOMAIN nodes \cup {id} |-> IF n = id THEN node ELSE nodes[n]]
<1>1. CASE ~(d \in DOMAIN deps /\ d \notin Known(nodes))
  <2>1. MintOne(nodes, d, deps) = nodes
    BY <1>1 DEF MintOne
  <2> QED
    BY <1>1, <2>1 DEF Keeps
<1>2. CASE d \in DOMAIN deps /\ d \notin Known(nodes)
  <2>1. MintOne(nodes, d, deps) = more
    BY <1>2 DEF MintOne
  <2>2. IsFiniteSet(DOMAIN nodes) /\ OneNodeEach(nodes) /\ DOMAIN nodes \subseteq Ids
        /\ \A n \in DOMAIN nodes : nodes[n] \in Nodes
    BY PlanIs DEF IsPlan
  <2>3. id \notin DOMAIN nodes /\ id \in Ids
    BY <2>2, NodeIdIsFresh
  <2>4. node \in Nodes /\ node.decl = d
    BY MintedIsNode
  <2>5. \A n \in DOMAIN nodes : nodes[n].decl # d
    BY <1>2 DEF Known, NodesOf
  <2> HIDE DEF id, node
  <2>6. /\ DOMAIN more = DOMAIN nodes \cup {id} /\ more[id] = node
        /\ \A n \in DOMAIN nodes : more[n] = nodes[n]
        /\ more = [n \in DOMAIN more |-> more[n]]
    BY <2>3
  <2> HIDE DEF more
  <2>7. IsFiniteSet(DOMAIN more)
    BY <2>2, <2>6, FS_AddElement
  <2>8. OneNodeEach(more)
    BY <2>2, <2>4, <2>5, <2>6 DEF OneNodeEach
  <2>9. DOMAIN more \subseteq Ids /\ \A n \in DOMAIN more : more[n] \in Nodes
    BY <2>2, <2>3, <2>4, <2>6
  <2>10. more \in Roadmaps
    BY <2>6, <2>7, <2>8, <2>9, PlanIs DEF IsPlan
  <2>11. Keeps(nodes, more)
    BY <2>6 DEF Keeps
  <2>12. d \in Known(more)
    BY <2>4, <2>6 DEF Known, NodesOf
  <2> QED
    BY <1>2, <2>1, <2>10, <2>11, <2>12
<1> QED
  BY <1>1, <1>2

\* The fold, name by name.
LEMMA MintIsFold ==
    ASSUME NEW nodes \in Roadmaps, NEW deps
    PROVE  \E f \in [0..Len(Decls) -> Roadmaps] :
              /\ f[0] = nodes
              /\ \A n \in 1..Len(Decls) : f[n] = MintOne(f[n - 1], Decls[n], deps)
              /\ Mint(nodes, deps) = f[Len(Decls)]
<1> DEFINE D == 1..Len(Decls)
           pick == [s \in SUBSET D |-> Max(s)]
           g == [p \in D \X Roadmaps |-> MintOne(p[2], Decls[p[1]], deps)]
<1>1. Len(Decls) \in Nat /\ DOMAIN Decls = D /\ \A k \in D : Decls[k] \in Names
  BY NamesAre
<1>2. IsFiniteSet(D)
  <2>1. 1 \in Int /\ Len(Decls) \in Int
    BY <1>1
  <2> QED
    BY <2>1, FS_Interval, Zenon
<1>3. \A s \in SUBSET D : s # {} => Max(s) \in s /\ \A y \in s : y <= Max(s)
  <2> SUFFICES ASSUME NEW s \in SUBSET D, s # {}
               PROVE  Max(s) \in s /\ \A y \in s : y <= Max(s)
    OBVIOUS
  <2>1. s \in SUBSET (0..Len(Decls))
    BY <1>1
  <2>2. \E x \in s : \A y \in s : y <= x
    BY <1>1, <2>1, GreatestOfBounded
  <2>3. \E x \in s : \A y \in s : x >= y
    BY <1>1, <2>2
  <2>4. Max(s) \in s /\ \A y \in s : Max(s) >= y
    BY <2>3, Zenon DEF Max
  <2> QED
    BY <1>1, <2>4
<1>4. Picks(pick, D)
  BY <1>3 DEF Picks
<1>5. g \in [D \X Roadmaps -> Roadmaps]
  BY <1>1, MintOneIs
<1>6. PICK f : IsFold(f, D, Roadmaps, pick, nodes, g)
  <2> HIDE DEF pick, g, D
  <2> QED BY <1>2, <1>4, <1>5, FoldFunctionExists
<1>7. f \in [SUBSET D -> Roadmaps] /\ f[{}] = nodes
  BY <1>6 DEF IsFold
<1>8. ASSUME NEW s \in SUBSET D, s # {}
      PROVE  f[s] = MintOne(f[s \ {Max(s)}], Decls[Max(s)], deps)
  <2>1. f[s] = g[<<Max(s), f[s \ {Max(s)}]>>]
    BY <1>6, <1>8 DEF IsFold
  <2>2. Max(s) \in D /\ f[s \ {Max(s)}] \in Roadmaps
    BY <1>3, <1>7, <1>8
  <2> QED
    BY <2>1, <2>2
<1>9. Mint(nodes, deps) = f[D]
  <2> DEFINE iter[s \in SUBSET D] ==
                 IF s = {} THEN nodes
                 ELSE MintOne(iter[s \ {Max(s)}], Decls[Max(s)], deps)
  <2>1. f = [s \in SUBSET D |-> IF s = {} THEN nodes
                                 ELSE MintOne(f[s \ {Max(s)}], Decls[Max(s)], deps)]
    BY <1>7, <1>8
  <2>2. iter = [s \in SUBSET D |-> IF s = {} THEN nodes
                                    ELSE MintOne(iter[s \ {Max(s)}], Decls[Max(s)], deps)]
    BY <2>1
  <2>3. Mint(nodes, deps) = iter[D]
    BY <1>1, Zenon DEF Mint, FoldLeft, MapThenFoldSet
  <2>4. \A s \in SUBSET D : iter[s] = IF s = {} THEN nodes
                                     ELSE MintOne(iter[s \ {Max(s)}], Decls[Max(s)], deps)
    <3> HIDE DEF iter
    <3> QED BY <2>2
  <2> HIDE DEF iter
  <2> DEFINE G == {s \in SUBSET D : iter[s] = f[s]}
  <2>5. {} \in G
    BY <1>7, <2>4
  <2>6. ClosedUnder(G, pick, D)
    <3> SUFFICES ASSUME NEW s \in SUBSET D, s # {}, s \ {Max(s)} \in G PROVE s \in G
      BY DEF ClosedUnder
    <3> QED
      BY <1>8, <2>4
  <2>7. SUBSET D \subseteq G
    <3> HIDE DEF G, pick, D
    <3> QED BY <1>2, <1>4, <2>5, <2>6, SubsetInduction
  <2> QED
    BY <2>3, <2>7
<1> DEFINE h == [n \in 0..Len(Decls) |-> f[1..n]]
<1>10. \A n \in 0..Len(Decls) : 1..n \in SUBSET D
  BY <1>1
<1>11. h \in [0..Len(Decls) -> Roadmaps]
  BY <1>7, <1>10
<1>12. h[0] = nodes /\ h[Len(Decls)] = f[D]
  <2>1. 1..0 = {} /\ 0 \in 0..Len(Decls) /\ Len(Decls) \in 0..Len(Decls)
    BY <1>1
  <2> QED
    BY <1>7, <2>1
<1>13. ASSUME NEW n \in 1..Len(Decls) PROVE h[n] = MintOne(h[n - 1], Decls[n], deps)
  <2>0. n \in Nat /\ 1 <= n /\ n <= Len(Decls)
    BY <1>1
  <2>5. n \in 1..n /\ (1..n) \ {n} = 1..(n - 1)
    BY <2>0
  <2>6. n \in 0..Len(Decls)
    BY <1>1, <2>0
  <2>7. 1..n # {}
    BY <2>5
  <2>1. 1..n \in SUBSET D /\ 1..n # {} /\ (1..n) \ {n} = 1..(n - 1)
    BY <1>10, <2>5, <2>6, <2>7, Zenon
  <2>2. Max(1..n) = n
    <3>1. Max(1..n) \in 1..n /\ n <= Max(1..n)
      <4> DEFINE s == 1..n
      <4>1. s \in SUBSET D /\ s # {} /\ n \in s
        BY <2>1, <2>5
      <4> HIDE DEF s, D
      <4>2. Max(s) \in s /\ n <= Max(s)
        BY <1>3, <4>1
      <4> QED
        BY <4>2 DEF s
    <3> QED
      BY <2>0, <3>1
  <2>3. f[1..n] = MintOne(f[1..(n - 1)], Decls[n], deps)
    BY <1>8, <2>1, <2>2
  <2>4. h[n] = f[1..n] /\ h[n - 1] = f[1..(n - 1)]
    BY <1>1
  <2> QED
    BY <2>3, <2>4
<1> HIDE DEF h
<1> QED
  BY <1>9, <1>11, <1>12, <1>13

LEMMA KeepsOn ==
    ASSUME NEW a, NEW b, NEW c, Keeps(a, b), Keeps(b, c)
    PROVE  Keeps(a, c) /\ Known(a) \subseteq Known(c)
BY DEF Keeps, Known, NodesOf

LEMMA MintIs ==
    ASSUME NEW nodes \in Roadmaps, NEW deps, DOMAIN deps \subseteq Names
    PROVE  /\ Mint(nodes, deps) \in Roadmaps
           /\ Keeps(nodes, Mint(nodes, deps))
           /\ DOMAIN deps \subseteq Known(Mint(nodes, deps))
           /\ DOMAIN deps \subseteq Known(nodes) => Mint(nodes, deps) = nodes
<1> DEFINE L == Len(Decls)
<1>1. L \in Nat /\ (\A k \in 1..L : Decls[k] \in Names)
      /\ \A d \in Names : \E k \in 1..L : d = Decls[k]
  BY NamesAre
<1>2. PICK f \in [0..L -> Roadmaps] :
         /\ f[0] = nodes
         /\ \A n \in 1..L : f[n] = MintOne(f[n - 1], Decls[n], deps)
         /\ Mint(nodes, deps) = f[L]
  BY MintIsFold
<1> HIDE DEF L
<1> DEFINE Done(n) == /\ Keeps(nodes, f[n])
                      /\ \A k \in 1..n : Decls[k] \in DOMAIN deps => Decls[k] \in Known(f[n])
                      /\ DOMAIN deps \subseteq Known(nodes) => f[n] = nodes
           Upto == {n \in Nat : n <= L => Done(n)}
<1>3. 0 \in Upto
  BY <1>2 DEF Keeps
<1>4. ASSUME NEW n \in Nat, n \in Upto PROVE n + 1 \in Upto
  <2> SUFFICES ASSUME n + 1 <= L PROVE Done(n + 1)
    OBVIOUS
  <2>1. Done(n)
    BY <1>1, <1>4
  <2>2. f[n] \in Roadmaps /\ n + 1 \in 1..L /\ (n + 1) - 1 = n
    BY <1>1
  <2>3. f[n + 1] = MintOne(f[n], Decls[n + 1], deps) /\ Decls[n + 1] \in Names
    BY <1>1, <1>2, <2>2
  <2>4. /\ Keeps(f[n], f[n + 1])
        /\ Decls[n + 1] \in DOMAIN deps => Decls[n + 1] \in Known(f[n + 1])
        /\ ~(Decls[n + 1] \in DOMAIN deps /\ Decls[n + 1] \notin Known(f[n])) => f[n + 1] = f[n]
    BY <2>2, <2>3, MintOneIs
  <2>5. Keeps(nodes, f[n + 1]) /\ Known(f[n]) \subseteq Known(f[n + 1])
    <3>1. Keeps(f[n], f[n])
      BY DEF Keeps
    <3> QED
      BY <2>1, <2>4, <3>1, KeepsOn
  <2>6. \A k \in 1..(n + 1) : k \in 1..n \/ k = n + 1
    OBVIOUS
  <2>7. \A k \in 1..(n + 1) : Decls[k] \in DOMAIN deps => Decls[k] \in Known(f[n + 1])
    BY <2>1, <2>4, <2>5, <2>6
  <2>8. DOMAIN deps \subseteq Known(nodes) => f[n + 1] = nodes
    BY <2>1, <2>4
  <2> QED
    BY <2>5, <2>7, <2>8
<1>5. Nat \subseteq Upto
  <2> HIDE DEF Upto
  <2> QED BY <1>3, <1>4, SetInduction
<1>6. Done(L)
  BY <1>1, <1>5
<1>7. \A d \in DOMAIN deps : d \in Known(f[L])
  BY <1>1, <1>6
<1>8. f[L] \in Roadmaps
  BY <1>1, <1>2
<1> QED
  BY <1>2, <1>6, <1>7, <1>8

-----------------------------------------------------------------------------
(* What a regeneration writes.                                             *)

\* The parts of a node that a regeneration leaves.
SameNode(a, b) ==
    /\ a.decl = b.decl /\ a.upstream = b.upstream /\ a.group = b.group
    /\ a.statement = b.statement /\ a.proof = b.proof

\* The same nodes, but for their edges.
SameNodes(nodes, more) ==
    DOMAIN more = DOMAIN nodes /\ \A n \in DOMAIN nodes : SameNode(nodes[n], more[n])

LEMMA SameReading ==
    ASSUME NEW nodes, NEW more, SameNodes(nodes, more)
    PROVE  /\ \A d : NodesOf(more, d) = NodesOf(nodes, d) /\ IdOf(more, d) = IdOf(nodes, d)
           /\ Known(more) = Known(nodes)
           /\ \A old, targets : Wanted(more, old, targets) = Wanted(nodes, old, targets)
           /\ \A n \in DOMAIN nodes : Derivable(more[n]) <=> Derivable(nodes[n])
<1>1. \A d : NodesOf(more, d) = NodesOf(nodes, d)
  BY DEF SameNodes, SameNode, NodesOf
<1>2. \A d : IdOf(more, d) = IdOf(nodes, d)
  BY <1>1 DEF IdOf
<1>3. Known(more) = Known(nodes)
  BY <1>1 DEF Known
<1>4. \A old, targets : Wanted(more, old, targets) = Wanted(nodes, old, targets)
  <2> SUFFICES ASSUME NEW old, NEW targets
               PROVE  Wanted(more, old, targets) = Wanted(nodes, old, targets)
    OBVIOUS
  <2>1. {IdOf(more, t) : t \in targets \cap Known(more)}
            = {IdOf(nodes, t) : t \in targets \cap Known(nodes)}
    BY <1>2, <1>3
  <2>2. {n \in old \cap DOMAIN more : more[n].upstream}
            = {n \in old \cap DOMAIN nodes : nodes[n].upstream}
    BY DEF SameNodes, SameNode
  <2> QED
    BY <2>1, <2>2 DEF Wanted
<1>5. \A n \in DOMAIN nodes : Derivable(more[n]) <=> Derivable(nodes[n])
  BY DEF SameNodes, SameNode, Derivable
<1> QED
  BY <1>1, <1>2, <1>3, <1>4, <1>5

\* The node of a declaration that has one, and no other.
LEMMA OneNode ==
    ASSUME NEW nodes \in Roadmaps, NEW d \in Known(nodes)
    PROVE  /\ IdOf(nodes, d) \in DOMAIN nodes /\ nodes[IdOf(nodes, d)].decl = d
           /\ NodesOf(nodes, d) = {IdOf(nodes, d)}
<1>1. NodesOf(nodes, d) # {} /\ d \in Names
  BY DEF Known
<1>2. IdOf(nodes, d) \in NodesOf(nodes, d)
  BY <1>1 DEF IdOf
<1>3. OneNodeEach(nodes)
  BY PlanIs DEF IsPlan
<1> QED
  BY <1>1, <1>2, <1>3 DEF NodesOf, OneNodeEach

LEMMA WantedIs ==
    ASSUME NEW nodes \in Roadmaps, NEW old, NEW targets
    PROVE  /\ Wanted(nodes, old, targets) \subseteq DOMAIN nodes
           /\ Wanted(nodes, Wanted(nodes, old, targets), targets) = Wanted(nodes, old, targets)
           /\ \A m \in old \cap DOMAIN nodes :
                 nodes[m].upstream => m \in Wanted(nodes, old, targets)
<1>1. \A t \in targets \cap Known(nodes) : IdOf(nodes, t) \in DOMAIN nodes
  BY OneNode
<1> QED
  BY <1>1 DEF Wanted

\* A rewired node is the same but for its edges, which are the wanted ones; a
\* second rewiring changes nothing.
LEMMA RewireIs ==
    ASSUME NEW nodes \in Roadmaps, NEW node \in Nodes, NEW term
    PROVE  /\ Rewire(nodes, node, term) \in Nodes
           /\ SameNode(node, Rewire(nodes, node, term))
           /\ Rewire(nodes, node, term).uses = Wanted(nodes, node.uses, term.uses)
           /\ Rewire(nodes, node, term).proofUses =
                IF HasPlaceholder(term) THEN node.proofUses
                ELSE Wanted(nodes, node.proofUses, ProofUses(term))
           /\ Rewire(nodes, Rewire(nodes, node, term), term) = Rewire(nodes, node, term)
<1> DEFINE w(old) == Wanted(nodes, old, term.uses)
           v(old) == Wanted(nodes, old, ProofUses(term))
           u == w(node.uses)
           p == IF HasPlaceholder(term) THEN node.proofUses ELSE v(node.proofUses)
           q == IF HasPlaceholder(term) THEN p ELSE v(p)
           one == [node EXCEPT !.uses = u, !.proofUses = p]
<1>1. Rewire(nodes, node, term) = one
  BY DEF Rewire
<1>2. Rewire(nodes, one, term) = [one EXCEPT !.uses = w(u), !.proofUses = q]
  <2>1. one.uses = u /\ one.proofUses = p
    BY DEF Nodes
  <2>2. Rewire(nodes, one, term) =
            [one EXCEPT !.uses = w(one.uses),
                        !.proofUses = IF HasPlaceholder(term) THEN one.proofUses
                                      ELSE v(one.proofUses)]
    <3> HIDE DEF one
    <3> QED BY DEF Rewire
  <2> HIDE DEF one, w, v
  <2> QED
    BY <2>1, <2>2
<1>3. DOMAIN nodes \subseteq Ids
  BY PlanIs
<1>4. w(u) = u /\ u \in SUBSET Ids
  BY <1>3, WantedIs
<1>5. q = p /\ p \in SUBSET Ids
  <2>1. v(v(node.proofUses)) = v(node.proofUses) /\ v(node.proofUses) \in SUBSET Ids
    BY <1>3, WantedIs
  <2>2. node.proofUses \in SUBSET Ids
    BY DEF Nodes
  <2> HIDE DEF v
  <2> QED
    BY <2>1, <2>2
<1> HIDE DEF w, v, u, p, q
<1>6. [one EXCEPT !.uses = u, !.proofUses = p] = one
  BY DEF Nodes
<1>7. one \in Nodes /\ SameNode(node, one) /\ one.uses = u /\ one.proofUses = p
  BY <1>4, <1>5 DEF Nodes, SameNode
<1> HIDE DEF one
<1> QED
  BY <1>1, <1>2, <1>4, <1>5, <1>6, <1>7 DEF u, p, w, v

\* What becomes of a plan's nodes.
Rewired(nodes, n, deps) == nodes[n].decl \in DOMAIN deps /\ Derivable(nodes[n])

LEMMA ReconcileIs ==
    ASSUME NEW plan \in Roadmaps, NEW deps, DOMAIN deps \subseteq Names
    PROVE  LET nodes == Mint(plan, deps)
               after == Reconcile(plan, deps)
           IN  /\ nodes \in Roadmaps /\ after \in Roadmaps
               /\ SameNodes(nodes, after)
               /\ DOMAIN deps \subseteq Known(nodes)
               /\ \A n \in DOMAIN nodes :
                    after[n] = IF Rewired(nodes, n, deps)
                               THEN Rewire(nodes, nodes[n], deps[nodes[n].decl])
                               ELSE nodes[n]
<1> DEFINE nodes == Mint(plan, deps)
           after == Reconcile(plan, deps)
<1>1. nodes \in Roadmaps /\ DOMAIN deps \subseteq Known(nodes)
  BY MintIs
<1>2. after = [n \in DOMAIN nodes |->
                IF Rewired(nodes, n, deps) THEN Rewire(nodes, nodes[n], deps[nodes[n].decl])
                ELSE nodes[n]]
  BY DEF Reconcile, Rewired
<1> HIDE DEF nodes, after
<1>3. \A n \in DOMAIN nodes :
        after[n] = IF Rewired(nodes, n, deps)
                   THEN Rewire(nodes, nodes[n], deps[nodes[n].decl]) ELSE nodes[n]
  BY <1>2
<1>4. DOMAIN after = DOMAIN nodes /\ after = [n \in DOMAIN after |-> after[n]]
  BY <1>2
<1>5. IsPlan(nodes) /\ DOMAIN nodes \subseteq Ids /\ \A n \in DOMAIN nodes : nodes[n] \in Nodes
  BY <1>1, PlanIs
<1>6. ASSUME NEW n \in DOMAIN nodes PROVE after[n] \in Nodes /\ SameNode(nodes[n], after[n])
  <2>1. CASE Rewired(nodes, n, deps)
    <3> DEFINE node == nodes[n]
               term == deps[nodes[n].decl]
    <3>1. after[n] = Rewire(nodes, node, term)
      BY <1>3, <2>1
    <3>2. node \in Nodes
      BY <1>5
    <3> HIDE DEF node, term
    <3>3. Rewire(nodes, node, term) \in Nodes /\ SameNode(node, Rewire(nodes, node, term))
      BY <1>1, <3>2, RewireIs
    <3> QED
      BY <3>1, <3>3 DEF node
  <2>2. CASE ~Rewired(nodes, n, deps)
    BY <1>3, <1>5, <2>2 DEF SameNode
  <2> QED
    BY <2>1, <2>2
<1>7. SameNodes(nodes, after)
  BY <1>4, <1>6 DEF SameNodes
<1>8. IsPlan(after)
  BY <1>4, <1>5, <1>6 DEF IsPlan, OneNodeEach, SameNode
<1>9. after \in Roadmaps
  BY <1>4, <1>5, <1>6, <1>8, PlanIs
<1> QED
  BY <1>1, <1>3, <1>7, <1>9, Zenon DEF nodes, after

\* A second regeneration changes nothing.
LEMMA ReconcileTwice ==
    ASSUME NEW plan \in Roadmaps, NEW deps, DOMAIN deps \subseteq Names
    PROVE  Reconcile(Reconcile(plan, deps), deps) = Reconcile(plan, deps)
<1> DEFINE nodes == Mint(plan, deps)
           after == Reconcile(plan, deps)
           twice == Reconcile(after, deps)
<1>1. /\ nodes \in Roadmaps /\ after \in Roadmaps
      /\ SameNodes(nodes, after)
      /\ DOMAIN deps \subseteq Known(nodes)
      /\ \A n \in DOMAIN nodes :
           after[n] = IF Rewired(nodes, n, deps)
                      THEN Rewire(nodes, nodes[n], deps[nodes[n].decl]) ELSE nodes[n]
  BY ReconcileIs, Zenon
<1> HIDE DEF nodes, after
<1>2. Known(after) = Known(nodes)
  BY <1>1, SameReading
<1>3. Mint(after, deps) = after
  BY <1>1, <1>2, MintIs
<1>4. twice = [n \in DOMAIN after |->
                IF Rewired(after, n, deps) THEN Rewire(after, after[n], deps[after[n].decl])
                ELSE after[n]]
  BY <1>3 DEF Reconcile, Rewired
<1>5. ASSUME NEW n \in DOMAIN after PROVE twice[n] = after[n]
  <2>1. n \in DOMAIN nodes /\ SameNode(nodes[n], after[n]) /\ nodes[n] \in Nodes
    BY <1>1, PlanIs DEF SameNodes
  <2>2. after[n].decl = nodes[n].decl /\ (Rewired(after, n, deps) <=> Rewired(nodes, n, deps))
    BY <1>1, <2>1, SameReading DEF Rewired, SameNode
  <2>3. CASE Rewired(nodes, n, deps)
    <3> DEFINE node == nodes[n]
               term == deps[nodes[n].decl]
    <3>1. after[n] = Rewire(nodes, node, term) /\ twice[n] = Rewire(after, after[n], term)
      BY <1>1, <1>4, <2>1, <2>2, <2>3
    <3>2. \A old, targets : Wanted(after, old, targets) = Wanted(nodes, old, targets)
      BY <1>1, SameReading
    <3>3. node \in Nodes
      BY <2>1
    <3> HIDE DEF node, term
    <3>4. Rewire(after, after[n], term) = Rewire(nodes, after[n], term)
      BY <3>2 DEF Rewire
    <3>5. Rewire(nodes, Rewire(nodes, node, term), term) = Rewire(nodes, node, term)
      BY <1>1, <3>3, RewireIs
    <3> QED
      BY <3>1, <3>4, <3>5
  <2>4. CASE ~Rewired(nodes, n, deps)
    BY <1>4, <2>2, <2>4
  <2> QED
    BY <2>3, <2>4
<1>6. after = [n \in DOMAIN after |-> after[n]] /\ DOMAIN twice = DOMAIN after
      /\ twice = [n \in DOMAIN twice |-> twice[n]]
  BY <1>1, <1>4, PlanIs
<1> HIDE DEF twice
<1>7. twice = after
  BY <1>5, <1>6
<1> QED
  BY <1>7 DEF twice, after

\* The edges between declarations are those of the terms.
EndsOf(nodes, edges) == {nodes[n].decl : n \in {m \in edges : ~nodes[m].upstream}}
OfPlan(nodes, targets) ==
    {t \in targets \cap Known(nodes) : ~nodes[IdOf(nodes, t)].upstream}

LEMMA EndsOfWanted ==
    ASSUME NEW nodes \in Roadmaps, NEW old, NEW targets
    PROVE  EndsOf(nodes, Wanted(nodes, old, targets)) = OfPlan(nodes, targets)
<1> DEFINE W == Wanted(nodes, old, targets)
<1>1. \A t \in targets \cap Known(nodes) : nodes[IdOf(nodes, t)].decl = t
  BY OneNode
<1>2. ASSUME NEW n \in W, ~nodes[n].upstream PROVE nodes[n].decl \in OfPlan(nodes, targets)
  BY <1>1, <1>2 DEF Wanted, OfPlan
<1>3. ASSUME NEW t \in OfPlan(nodes, targets) PROVE t \in EndsOf(nodes, W)
  <2>1. IdOf(nodes, t) \in W /\ ~nodes[IdOf(nodes, t)].upstream
    BY DEF OfPlan, Wanted
  <2>2. nodes[IdOf(nodes, t)].decl = t
    BY <1>1 DEF OfPlan
  <2> HIDE DEF W
  <2> QED
    BY <2>1, <2>2 DEF EndsOf
<1> HIDE DEF W
<1>4. EndsOf(nodes, W) \subseteq OfPlan(nodes, targets)
  BY <1>2 DEF EndsOf
<1> QED
  BY <1>3, <1>4 DEF W

LEMMA ReconciledEdges ==
    ASSUME NEW plan \in Roadmaps, NEW deps, DOMAIN deps \subseteq Names, NEW d \in DOMAIN deps,
           NEW after, after = Reconcile(plan, deps)
    PROVE  /\ Cardinality(NodesOf(after, d)) = 1
           /\ Derivable(after[IdOf(after, d)]) =>
                /\ EndsOf(after, after[IdOf(after, d)].uses) = OfPlan(after, deps[d].uses)
                /\ ~HasPlaceholder(deps[d]) =>
                     EndsOf(after, after[IdOf(after, d)].proofUses)
                        = OfPlan(after, ProofUses(deps[d]))
<1> DEFINE nodes == Mint(plan, deps)
           id == IdOf(after, d)
<1>1. /\ nodes \in Roadmaps /\ after \in Roadmaps
      /\ SameNodes(nodes, after)
      /\ DOMAIN deps \subseteq Known(nodes)
      /\ \A n \in DOMAIN nodes :
           after[n] = IF Rewired(nodes, n, deps)
                      THEN Rewire(nodes, nodes[n], deps[nodes[n].decl]) ELSE nodes[n]
  BY ReconcileIs, Zenon
<1> HIDE DEF nodes
<1>2. d \in Known(after)
  BY <1>1, SameReading
<1>3. id \in DOMAIN after /\ after[id].decl = d /\ NodesOf(after, d) = {id}
  BY <1>1, <1>2, OneNode
<1>4. Cardinality(NodesOf(after, d)) = 1
  BY <1>3, FS_Singleton
<1> HIDE DEF id
<1>5. ASSUME Derivable(after[id])
      PROVE  /\ EndsOf(after, after[id].uses) = OfPlan(after, deps[d].uses)
             /\ ~HasPlaceholder(deps[d]) =>
                  EndsOf(after, after[id].proofUses) = OfPlan(after, ProofUses(deps[d]))
  <2> DEFINE node == nodes[id]
             term == deps[d]
  <2>1. id \in DOMAIN nodes /\ node.decl = d /\ node \in Nodes /\ Derivable(node)
    BY <1>1, <1>3, <1>5, SameReading, PlanIs DEF SameNodes, SameNode
  <2>2. after[id] = Rewire(nodes, node, term)
    BY <1>1, <2>1 DEF Rewired
  <2> HIDE DEF node, term
  <2>3. /\ after[id].uses = Wanted(nodes, node.uses, term.uses)
        /\ ~HasPlaceholder(term) =>
             after[id].proofUses = Wanted(nodes, node.proofUses, ProofUses(term))
    BY <1>1, <2>1, <2>2, RewireIs
  <2>4. /\ after[id].uses = Wanted(after, node.uses, term.uses)
        /\ ~HasPlaceholder(term) =>
             after[id].proofUses = Wanted(after, node.proofUses, ProofUses(term))
    BY <1>1, <2>3, SameReading
  <2>5. EndsOf(after, after[id].uses) = OfPlan(after, term.uses)
    BY <1>1, <2>4, EndsOfWanted
  <2>6. ~HasPlaceholder(term) =>
            EndsOf(after, after[id].proofUses) = OfPlan(after, ProofUses(term))
    BY <1>1, <2>4, EndsOfWanted
  <2> QED
    BY <2>5, <2>6 DEF term
<1> QED
  BY <1>4, <1>5 DEF id

-----------------------------------------------------------------------------
(* The invariant.                                                          *)

GraphTypeOK ==
    DOMAIN source \subseteq Names /\ DOMAIN built \subseteq Names /\ graph \in Roadmaps

GraphInv == GraphTypeOK /\ PlanIsTheSource

LEMMA InitGraph == GraphInit => GraphInv
<1> SUFFICES ASSUME GraphInit PROVE GraphInv
  OBVIOUS
<1>1. DOMAIN Empty = {} /\ Empty = [n \in DOMAIN Empty |-> Empty[n]]
  BY DEF Empty
<1>2. IsPlan(Empty)
  BY <1>1, FS_EmptySet DEF IsPlan, OneNodeEach
<1>3. Empty \in Roadmaps
  BY <1>1, <1>2, PlanIs
<1> QED
  BY <1>1, <1>3 DEF GraphInit, GraphInv, GraphTypeOK, PlanIsTheSource,
     RegenerationIsIdempotent, EdgesAreTheTerms

LEMMA NextGraph == GraphInv /\ [GraphNext]_graphVars => GraphInv'
<1> SUFFICES ASSUME GraphInv, [GraphNext]_graphVars PROVE GraphInv'
  OBVIOUS
<1> USE DEF GraphInv, GraphTypeOK
<1>0. IsPlan(graph) /\ DOMAIN graph \subseteq Ids /\ (\A n \in DOMAIN graph : graph[n] \in Nodes)
      /\ graph = [n \in DOMAIN graph |-> graph[n]]
  BY PlanIs
<1>1. ASSUME ~synced' PROVE PlanIsTheSource'
  BY <1>1 DEF PlanIsTheSource, RegenerationIsIdempotent, EdgesAreTheTerms
<1>2. CASE \E d \in Names : Declare(d)
  BY <1>1, <1>2 DEF Declare, Changes
<1>3. CASE \E d \in Names : Withdraw(d)
  BY <1>1, <1>3 DEF Withdraw, Changes
<1>4. CASE Build
  <2>1. GraphTypeOK'
    BY <1>4 DEF Build
  <2>2. PlanIsTheSource'
    BY <1>4 DEF Build, PlanIsTheSource, RegenerationIsIdempotent, EdgesAreTheTerms
  <2> QED
    BY <2>1, <2>2
<1>5. CASE Plan
  <2>1. PICK id \in PlannedIds \ DOMAIN graph, d \in {NoDecl} \cup (Names \ Known(graph)),
             as \in {"planned", "upstream", "group"} :
          graph' = [n \in DOMAIN graph \cup {id} |->
             IF n = id THEN [decl |-> d, upstream |-> as = "upstream", group |-> as = "group",
                             statement |-> "planned", proof |-> "planned",
                             uses |-> {}, proofUses |-> {}]
             ELSE graph[n]]
    BY <1>5 DEF Plan
  <2> DEFINE node == [decl |-> d, upstream |-> as = "upstream", group |-> as = "group",
                      statement |-> "planned", proof |-> "planned", uses |-> {}, proofUses |-> {}]
  <2>2. node \in Nodes /\ node.decl = d
    BY DEF Nodes
  <2>3. /\ DOMAIN graph' = DOMAIN graph \cup {id} /\ graph'[id] = node
        /\ \A n \in DOMAIN graph : graph'[n] = graph[n]
        /\ graph' = [n \in DOMAIN graph' |-> graph'[n]]
    BY <2>1
  <2> HIDE DEF node
  <2>4. d \in Names => \A n \in DOMAIN graph : graph[n].decl # d
    BY NamesAre DEF Known, NodesOf
  <2>5. IsPlan(graph')
    <3>1. IsFiniteSet(DOMAIN graph')
      BY <1>0, <2>3, FS_AddElement DEF IsPlan
    <3>2. OneNodeEach(graph')
      BY <1>0, <2>2, <2>3, <2>4 DEF IsPlan, OneNodeEach
    <3> QED
      BY <3>1, <3>2 DEF IsPlan
  <2>6. id \in Ids
    BY DEF Ids
  <2>7. DOMAIN graph' \subseteq Ids /\ \A n \in DOMAIN graph' : graph'[n] \in Nodes
    BY <1>0, <2>2, <2>3, <2>6
  <2>8. graph' \in Roadmaps
    BY <2>3, <2>5, <2>7, PlanIs
  <2> QED
    BY <1>1, <1>5, <2>8 DEF Plan, Changes
<1>6. ASSUME NEW n \in DOMAIN graph, NEW node \in Nodes, node.decl = graph[n].decl,
             graph' = [graph EXCEPT ![n] = node]
      PROVE  graph' \in Roadmaps
  <2>1. /\ DOMAIN graph' = DOMAIN graph /\ graph'[n] = node
        /\ \A m \in DOMAIN graph : m # n => graph'[m] = graph[m]
        /\ graph' = [m \in DOMAIN graph' |-> graph'[m]]
    BY <1>0, <1>6
  <2>2. IsPlan(graph')
    BY <1>0, <1>6, <2>1 DEF IsPlan, OneNodeEach
  <2> QED
    BY <1>0, <2>1, <2>2, PlanIs
<1>7. CASE Route
  <2>1. PICK n \in DOMAIN graph, m \in DOMAIN graph :
            graph' = [graph EXCEPT ![n].proofUses = @ \cup {m}]
    BY <1>7 DEF Route
  <2> DEFINE node == [graph[n] EXCEPT !.proofUses = @ \cup {m}]
  <2>2. node \in Nodes /\ node.decl = graph[n].decl
    BY <1>0 DEF Nodes
  <2>3. graph' = [graph EXCEPT ![n] = node]
    BY <2>1
  <2> HIDE DEF node
  <2>4. graph' \in Roadmaps
    BY <1>6, <2>2, <2>3
  <2> QED
    BY <1>1, <1>7, <2>4 DEF Route, Changes
<1>8. CASE Record
  <2>1. PICK n \in DOMAIN graph : graph' = [graph EXCEPT ![n].statement = "formalized"]
    BY <1>8 DEF Record
  <2> DEFINE node == [graph[n] EXCEPT !.statement = "formalized"]
  <2>2. node \in Nodes /\ node.decl = graph[n].decl
    BY <1>0 DEF Nodes
  <2>3. graph' = [graph EXCEPT ![n] = node]
    BY <2>1
  <2> HIDE DEF node
  <2>4. graph' \in Roadmaps
    BY <1>6, <2>2, <2>3
  <2> QED
    BY <1>1, <1>8, <2>4 DEF Record, Changes
<1>9. CASE Sync
  <2>1. built = source /\ graph' = Reconcile(graph, source) /\ UNCHANGED <<source, built>>
    BY <1>9 DEF Sync, Fresh
  <2>2. graph' \in Roadmaps
    BY <2>1, ReconcileIs, Zenon
  <2>3. RegenerationIsIdempotent'
    <3>1. Reconcile(graph', source) = graph'
      BY <2>1, ReconcileTwice
    <3> QED
      BY <2>1, <3>1 DEF RegenerationIsIdempotent
  <2> DEFINE after == graph'
  <2>4. ASSUME NEW d \in DOMAIN source
        PROVE  /\ Cardinality(NodesOf(after, d)) = 1
               /\ Derivable(after[IdOf(after, d)]) =>
                    /\ EndsOf(after, after[IdOf(after, d)].uses) = OfPlan(after, source[d].uses)
                    /\ ~HasPlaceholder(source[d]) =>
                         EndsOf(after, after[IdOf(after, d)].proofUses)
                            = OfPlan(after, ProofUses(source[d]))
    BY <2>1, ReconciledEdges
  <2>5. EdgesAreTheTerms'
    <3>1. source' = source
      BY <2>1
    <3> QED
      BY <2>4, <3>1 DEF EdgesAreTheTerms, EndsOf, OfPlan
  <2> QED
    BY <2>1, <2>2, <2>3, <2>5 DEF PlanIsTheSource
<1>10. CASE UNCHANGED graphVars
  BY <1>10 DEF graphVars, PlanIsTheSource, RegenerationIsIdempotent, EdgesAreTheTerms
<1> QED
  BY <1>2, <1>3, <1>4, <1>5, <1>7, <1>8, <1>9, <1>10 DEF GraphNext

LEMMA GraphInvariant == GraphSpec => []GraphInv
BY InitGraph, NextGraph, PTL DEF GraphSpec

\* sync.py: "the regeneration is idempotent": whatever the names, the ids that the
\* orchestrator gave and the sources that were built before, a plan that was
\* regenerated since source and plan last changed is what another regeneration
\* would write, gives each declaration one node, and has the edges of its terms.
THEOREM PlanIsTheSourceHolds == GraphSpec => []PlanIsTheSource
<1>1. GraphInv => PlanIsTheSource
  BY DEF GraphInv
<1> QED
  BY <1>1, GraphInvariant, PTL

LEMMA ReconcileKeeps == GraphInv => KeepsIntent
<1> SUFFICES ASSUME GraphInv, graph' = Reconcile(graph, built), NEW n \in DOMAIN graph
             PROVE  /\ n \in DOMAIN graph'
                    /\ graph'[n].decl = graph[n].decl
                    /\ graph'[n].statement = graph[n].statement
                    /\ graph'[n].proof = graph[n].proof
                    /\ ~Derivable(graph[n]) => graph'[n] = graph[n]
                    /\ \A m \in graph[n].proofUses :
                        \/ m \in graph'[n].proofUses
                        \/ /\ graph[n].decl \in DOMAIN built
                           /\ ~HasPlaceholder(built[graph[n].decl])
                           /\ m \in DOMAIN graph => ~graph[m].upstream
  BY DEF KeepsIntent
<1> DEFINE nodes == Mint(graph, built)
           after == graph'
<1>1. graph \in Roadmaps /\ DOMAIN built \subseteq Names
  BY DEF GraphInv, GraphTypeOK
<1>2. /\ nodes \in Roadmaps /\ SameNodes(nodes, after)
      /\ \A k \in DOMAIN nodes :
           after[k] = IF Rewired(nodes, k, built)
                      THEN Rewire(nodes, nodes[k], built[nodes[k].decl]) ELSE nodes[k]
  BY <1>1, ReconcileIs, Zenon
<1>3. Keeps(graph, nodes)
  BY <1>1, MintIs
<1> HIDE DEF nodes
<1>4. n \in DOMAIN nodes /\ nodes[n] = graph[n] /\ nodes[n] \in Nodes
  BY <1>2, <1>3, PlanIs DEF Keeps
<1>5. n \in DOMAIN after /\ SameNode(graph[n], after[n])
  BY <1>2, <1>4 DEF SameNodes
<1>6. CASE ~Rewired(nodes, n, built)
  <2>1. after[n] = graph[n]
    BY <1>2, <1>4, <1>6
  <2> QED
    BY <1>5, <2>1 DEF SameNode
<1>7. CASE Rewired(nodes, n, built)
  <2> DEFINE node == nodes[n]
             term == built[nodes[n].decl]
  <2>1. after[n] = Rewire(nodes, node, term) /\ node = graph[n] /\ node \in Nodes
    BY <1>2, <1>4, <1>7
  <2>2. graph[n].decl \in DOMAIN built /\ Derivable(graph[n]) /\ term = built[graph[n].decl]
    BY <1>4, <1>7 DEF Rewired
  <2> HIDE DEF node, term
  <2>3. after[n].proofUses = IF HasPlaceholder(term) THEN node.proofUses
                             ELSE Wanted(nodes, node.proofUses, ProofUses(term))
    BY <1>2, <2>1, RewireIs
  <2>4. ASSUME NEW m \in graph[n].proofUses, m \notin after[n].proofUses
        PROVE  ~HasPlaceholder(term) /\ (m \in DOMAIN graph => ~graph[m].upstream)
    <3>1. ~HasPlaceholder(term)
      BY <2>1, <2>3, <2>4
    <3>2. ASSUME m \in DOMAIN graph, graph[m].upstream PROVE FALSE
      <4>1. m \in node.proofUses \cap DOMAIN nodes /\ nodes[m].upstream
        BY <1>3, <2>1, <3>2 DEF Keeps
      <4>2. m \in Wanted(nodes, node.proofUses, ProofUses(term))
        BY <1>2, <4>1, WantedIs
      <4> QED
        BY <2>3, <2>4, <3>1, <4>2
    <3> QED
      BY <3>1, <3>2
  <2> QED
    BY <1>5, <2>2, <2>4 DEF SameNode
<1> QED
  BY <1>6, <1>7

\* reconcile.py rewrites edge lists that hold what no term can answer for: in no
\* plan does a regeneration lose a node, its status, an edge to a library result
\* or a route to a proof that is still owed.
THEOREM IntentSurvivesHolds == GraphSpec => IntentSurvives
<1>1. GraphInv /\ [GraphNext]_graphVars => [KeepsIntent]_graphVars
  BY ReconcileKeeps
<1> QED
  BY <1>1, GraphInvariant, PTL DEF GraphSpec, IntentSurvives

-----------------------------------------------------------------------------
(* TaskBodies: words and lines.                                            *)

\* What is on a line, the literals of the texts themselves included, which the
\* provers do not know for strings.
Words ==
    STRING \cup {"", "---", "<!--", "-->", "prose", "null", "quote opens", "quote closes",
                 "opener", "closer", "0", "4", "1", "c", "e", "reduction-version", "parent",
                 "children", "version", "type", "target_file", "target_decl", "project_ref",
                 "deps", "blueprint_ref", "./P.lean", "P.lean"}
Line == Seq(Words)

LEMMA MarksAreLines ==
    /\ Blank \in Line /\ Fence \in Line /\ CommentOpens \in Line /\ CommentCloses \in Line
    /\ Prose \in Line
    /\ \A x, y \in Words : <<x, y>> \in Line
    /\ <<"quote closes">> \in Line
<1>1. "" \in Words /\ "---" \in Words /\ "<!--" \in Words /\ "-->" \in Words
      /\ "prose" \in Words /\ "quote closes" \in Words
  BY DEF Words
<1>2. \A x \in Words : <<x>> \in Seq(Words)
  OBVIOUS
<1>3. \A x, y \in Words : <<x, y>> \in Seq(Words)
  OBVIOUS
<1> QED
  BY <1>1, <1>2, <1>3 DEF Line, Blank, Fence, CommentOpens, CommentCloses, Prose

LEMMA FieldsAre ==
    Fields = {"version", "type", "target_file", "target_decl", "project_ref", "deps",
              "blueprint_ref"}
<1>1. FieldOrder = <<"version", "type", "target_file", "target_decl", "project_ref", "deps",
                     "blueprint_ref">>
  BY DEF FieldOrder
<1>2. Fields = {FieldOrder[x] : x \in DOMAIN FieldOrder}
  BY DEF Fields, Range
<1>3. DOMAIN FieldOrder = 1..7
  BY <1>1
<1>4. 1..7 = {1, 2, 3, 4, 5, 6, 7}
  OBVIOUS
<1>5. Fields = {FieldOrder[x] : x \in {1, 2, 3, 4, 5, 6, 7}}
  BY <1>2, <1>3, <1>4
<1>6. /\ FieldOrder[1] = "version" /\ FieldOrder[2] = "type" /\ FieldOrder[3] = "target_file"
      /\ FieldOrder[4] = "target_decl" /\ FieldOrder[5] = "project_ref"
      /\ FieldOrder[6] = "deps" /\ FieldOrder[7] = "blueprint_ref"
  BY <1>1
<1>7. Fields = {FieldOrder[1], FieldOrder[2], FieldOrder[3], FieldOrder[4], FieldOrder[5],
                FieldOrder[6], FieldOrder[7]}
  BY <1>5, Zenon
<1> QED
  BY <1>6, <1>7

\* The first of the positions is the least, or the one past the end.
LEMMA FirstOfIs ==
    ASSUME NEW text, Len(text) \in Nat, NEW P, P \subseteq 1..Len(text)
    PROVE  /\ FirstOf(text, P) \in 1..(Len(text) + 1)
           /\ FirstOf(text, P) \in P \cup {Len(text) + 1}
           /\ \A x \in P : FirstOf(text, P) <= x
           /\ FirstOf(text, P) <= Len(text) => FirstOf(text, P) \in P
<1>1. PICK Q : Q = P \cup {Len(text) + 1}
  OBVIOUS
<1>2. Q \in SUBSET Nat /\ Q # {} /\ Q \subseteq 1..(Len(text) + 1)
  <2>1. PICK n \in Nat : n = Len(text)
    OBVIOUS
  <2>2. P \subseteq 1..n /\ Q = P \cup {n + 1}
    BY <1>1, <2>1
  <2>3. Q \subseteq 1..(n + 1)
    BY <2>2
  <2>4. 1..(n + 1) \subseteq Nat
    OBVIOUS
  <2> QED
    BY <2>1, <2>2, <2>3, <2>4
<1>3. \E x \in Q : \A y \in Q : x <= y
  BY <1>2, LeastNat
<1>4. PICK x : x = Min(Q)
  OBVIOUS
<1>5. x \in Q /\ \A y \in Q : x <= y
  BY <1>3, <1>4 DEF Min
<1>6. FirstOf(text, P) = x
  BY <1>1, <1>4 DEF FirstOf
<1>7. x \in 1..(Len(text) + 1) /\ x \in P \cup {Len(text) + 1} /\ \A y \in P : x <= y
  BY <1>1, <1>2, <1>5
<1>8. x <= Len(text) => x # Len(text) + 1
  BY <1>7
<1> QED
  BY <1>6, <1>7, <1>8

\* What is left when the leading blank lines are taken away.
LEMMA WithoutBlanksIs ==
    ASSUME NEW S, NEW text \in Seq(S)
    PROVE  /\ WithoutBlanks(text) \in Seq(S)
           /\ WithoutBlanks(text) = << >> \/ WithoutBlanks(text)[1] # Blank
           /\ text = << >> \/ text[1] # Blank => WithoutBlanks(text) = text
<1> DEFINE P == {i \in DOMAIN text : text[i] # Blank}
<1>1. PICK n : n = Len(text)
  OBVIOUS
<1>2. n \in Nat /\ DOMAIN text = 1..n
  BY <1>1
<1>3. PICK f : f = FirstOf(text, P)
  OBVIOUS
<1>4. f \in 1..(n + 1) /\ f \in P \cup {n + 1} /\ \A x \in P : f <= x
  <2>1. P \subseteq 1..Len(text) /\ Len(text) \in Nat
    BY <1>1, <1>2
  <2> HIDE DEF P
  <2> QED BY <1>1, <1>3, <2>1, FirstOfIs
<1>5. WithoutBlanks(text) = SubSeq(text, f, n)
  <2>1. WithoutBlanks(text) = SubSeq(text, FirstOf(text, P), Len(text))
    BY Zenon DEF WithoutBlanks
  <2> QED
    BY <1>1, <1>3, <2>1
<1>6. SubSeq(text, f, n) \in Seq(S)
  BY <1>1, <1>2, <1>4
<1>7. CASE f = n + 1
  <2>1. SubSeq(text, f, n) = << >>
    BY <1>2, <1>7
  <2>2. n = 0 \/ text[1] = Blank
    BY <1>2, <1>4, <1>7
  <2>4. Len(text) = 0 => text = << >>
    OBVIOUS
  <2>3. n = 0 => text = << >>
    BY <1>1, <2>4
  <2> QED
    BY <1>5, <1>6, <2>1, <2>2, <2>3
<1>8. CASE f # n + 1
  <2>1. f \in 1..n /\ text[f] # Blank
    BY <1>2, <1>4, <1>8
  <2>2. SubSeq(text, f, n)[1] = text[f]
    BY <1>1, <1>2, <2>1
  <2>3. text[1] # Blank => f = 1
    BY <1>2, <1>4, <2>1
  <2>4. SubSeq(text, 1, n) = text
    BY <1>1, <1>2
  <2>5. text # << >>
    BY <1>1, <2>1
  <2> QED
    BY <1>5, <1>6, <2>1, <2>2, <2>3, <2>4, <2>5
<1> QED
  BY <1>7, <1>8

-----------------------------------------------------------------------------
(* Where the front matter is.                                              *)

\* The line that closes a comment, or the place past the end.
ClosedAt(text, i) == FirstOf(text, {j \in i..Len(text) : text[j] = CommentCloses})

IsSkipping(f, text) ==
    \A i \in 1..(Len(text) + 2) :
        f[i] = IF i > Len(text) THEN Len(text) + 1
               ELSE IF text[i] = Blank THEN f[i + 1]
               ELSE IF text[i] = CommentOpens THEN f[ClosedAt(text, i) + 1]
               ELSE i

LEMMA ClosedAtIs ==
    ASSUME NEW S, NEW text \in Seq(S), NEW i \in 1..Len(text)
    PROVE  /\ ClosedAt(text, i) \in i..(Len(text) + 1)
           /\ ClosedAt(text, i) <= Len(text) => text[ClosedAt(text, i)] = CommentCloses
           /\ \A j \in i..Len(text) : text[j] = CommentCloses => ClosedAt(text, i) <= j
<1>1. PICK P : P = {j \in i..Len(text) : text[j] = CommentCloses}
  OBVIOUS
<1>2. PICK n \in Nat : n = Len(text)
  OBVIOUS
<1>3. P \subseteq 1..n /\ \A j \in P : i <= j /\ text[j] = CommentCloses
  BY <1>1, <1>2
<1>4. PICK c : c = FirstOf(text, P)
  OBVIOUS
<1>5. c \in 1..(n + 1) /\ c \in P \cup {n + 1} /\ \A x \in P : c <= x
  BY <1>2, <1>3, <1>4, FirstOfIs
<1>6. ClosedAt(text, i) = c
  BY <1>1, <1>4, Zenon DEF ClosedAt
<1> QED
  BY <1>1, <1>2, <1>3, <1>5, <1>6

LEMMA SkippingExists ==
    ASSUME NEW S, NEW text \in Seq(S)
    PROVE  \E f : IsSkipping(f, text) /\ f \in [1..(Len(text) + 2) -> Nat]
<1>0. PICK n \in Nat : n = Len(text)
  OBVIOUS
<1>1. PICK c : c = [i \in 1..n |-> ClosedAt(text, i)]
  OBVIOUS
<1>2. \A i \in 1..n : c[i] \in i..(n + 1) /\ c[i] = ClosedAt(text, i)
  BY <1>0, <1>1, ClosedAtIs
<1> DEFINE D == 1..(n + 2)
           Stop == {i \in D : i > n \/ (text[i] # Blank /\ text[i] # CommentOpens)}
           base == [i \in D |-> IF i > n THEN n + 1 ELSE i]
           step == [i \in D |-> IF i \in Stop THEN i
                                ELSE IF text[i] = Blank THEN i + 1 ELSE c[i] + 1]
           g == [i \in D |-> [v \in Nat |-> v]]
           rank == [i \in D |-> (n + 2) - i]
<1>3. base \in [D -> Nat] /\ g \in [D -> [Nat -> Nat]] /\ rank \in [D -> Nat]
  OBVIOUS
<1>4. ASSUME NEW i \in D, i \notin Stop PROVE i \in 1..n /\ step[i] \in D /\ i < step[i]
  <2>1. i \in 1..n /\ n \in Nat
    BY <1>0, <1>4
  <2>2. c[i] \in i..(n + 1)
    BY <1>2, <2>1
  <2>3. step[i] = IF text[i] = Blank THEN i + 1 ELSE c[i] + 1
    BY <1>4
  <2> QED
    BY <2>1, <2>2, <2>3
<1>5. step \in [D -> D]
  <2>1. \A i \in D : step[i] \in D
    <3>1. ASSUME NEW i \in D PROVE step[i] \in D
      <4>1. CASE i \in Stop
        <5>1. step[i] = i
          BY <3>1, <4>1
        <5> QED BY <3>1, <5>1
      <4>2. CASE i \notin Stop
        BY <1>4, <3>1, <4>2
      <4> QED BY <4>1, <4>2
    <3> QED BY <3>1
  <2>2. step = [i \in D |-> step[i]]
    OBVIOUS
  <2> HIDE DEF step, D
  <2> QED BY <2>1, <2>2
<1>6. \A i \in D : i \notin Stop => rank[step[i]] < rank[i]
  <2>1. ASSUME NEW i \in D, i \notin Stop PROVE rank[step[i]] < rank[i]
    <3>1. step[i] \in D /\ i < step[i]
      BY <1>4, <2>1
    <3>2. rank[step[i]] = (n + 2) - step[i] /\ rank[i] = (n + 2) - i
      BY <2>1, <3>1
    <3> HIDE DEF step, rank
    <3> QED BY <1>0, <2>1, <3>1, <3>2
  <2> QED BY <2>1
<1>7. PICK f : IsWalk(f, D, Nat, Stop, base, step, g)
  <2> HIDE DEF D, Stop, base, step, g, rank
  <2> QED BY <1>3, <1>5, <1>6, WalkExists
<1>8. f \in [D -> Nat] /\ \A i \in D : f[i] = IF i \in Stop THEN base[i] ELSE f[step[i]]
  <2>1. \A i \in D : f[i] = IF i \in Stop THEN base[i] ELSE g[i][f[step[i]]]
    <3> HIDE DEF D, Stop, base, step, g
    <3> QED BY <1>7 DEF IsWalk
  <2>2. f \in [D -> Nat]
    <3> HIDE DEF D, Stop, base, step, g
    <3> QED BY <1>7 DEF IsWalk
  <2>3. \A i \in D : f[step[i]] \in Nat
    <3> HIDE DEF D, step
    <3> QED BY <1>5, <2>2
  <2>4. \A i \in D, v \in Nat : g[i][v] = v
    OBVIOUS
  <2> HIDE DEF D, Stop, base, step, g
  <2> QED BY <2>1, <2>2, <2>3, <2>4
<1>9. ASSUME NEW i \in D
      PROVE  f[i] = IF i > n THEN n + 1
                    ELSE IF text[i] = Blank THEN f[i + 1]
                    ELSE IF text[i] = CommentOpens THEN f[ClosedAt(text, i) + 1]
                    ELSE i
  <2>1. f[i] = IF i \in Stop THEN base[i] ELSE f[step[i]]
    BY <1>8, <1>9
  <2>2. CASE i \in Stop
    <3>1. i > n \/ (text[i] # Blank /\ text[i] # CommentOpens)
      BY <2>2
    <3>2. base[i] = IF i > n THEN n + 1 ELSE i
      BY <1>9
    <3> HIDE DEF Stop, base, step
    <3> QED BY <2>1, <2>2, <3>1, <3>2
  <2>3. CASE i \notin Stop
    <3>1. i \in 1..n /\ (text[i] = Blank \/ text[i] = CommentOpens)
      BY <1>4, <1>9, <2>3
    <3>2. step[i] = IF text[i] = Blank THEN i + 1 ELSE ClosedAt(text, i) + 1
      BY <1>2, <1>9, <2>3, <3>1
    <3>3. ~(i > n)
      BY <1>0, <3>1
    <3> HIDE DEF Stop, base, step
    <3> QED BY <2>1, <2>3, <3>1, <3>2, <3>3
  <2> QED
    BY <2>2, <2>3
<1>10. IsSkipping(f, text)
  <2> HIDE DEF Stop, base, step, g, rank
  <2> QED BY <1>0, <1>9 DEF IsSkipping
<1> QED
  BY <1>0, <1>8, <1>10

LEMMA FirstContentWalks ==
    ASSUME NEW S, NEW text \in Seq(S)
    PROVE  \E f : IsSkipping(f, text) /\ FirstContent(text) = f[1]
<1> DEFINE Steps(f) == [i \in 1..(Len(text) + 2) |->
                IF i > Len(text) THEN Len(text) + 1
                ELSE CASE text[i] = Blank        -> f[i + 1]
                       [] text[i] = CommentOpens -> f[FirstOf(text, {j \in i..Len(text) : text[j] = CommentCloses}) + 1]
                       [] OTHER                  -> i]
           from == CHOOSE f : f = Steps(f)
<1>1. FirstContent(text) = from[1]
  BY Zenon DEF FirstContent
<1>2. Blank # CommentOpens
  BY DEF Blank, CommentOpens
<1>3. PICK f : IsSkipping(f, text) /\ f \in [1..(Len(text) + 2) -> Nat]
  BY SkippingExists
<1>4. f = Steps(f)
  <2>1. \A i \in 1..(Len(text) + 2) : f[i] = Steps(f)[i]
    <3>1. ASSUME NEW i \in 1..(Len(text) + 2)
          PROVE  f[i] = IF i > Len(text) THEN Len(text) + 1
                        ELSE IF text[i] = Blank THEN f[i + 1]
                        ELSE IF text[i] = CommentOpens THEN f[ClosedAt(text, i) + 1] ELSE i
      BY <1>3 DEF IsSkipping
    <3>2. ASSUME NEW i \in 1..(Len(text) + 2)
          PROVE  Steps(f)[i] = IF i > Len(text) THEN Len(text) + 1
                        ELSE IF text[i] = Blank THEN f[i + 1]
                        ELSE IF text[i] = CommentOpens THEN f[ClosedAt(text, i) + 1] ELSE i
      BY <1>2 DEF ClosedAt
    <3> QED
      BY <3>1, <3>2
  <2>2. f = [i \in 1..(Len(text) + 2) |-> f[i]]
    BY <1>3
  <2>3. Steps(f) = [i \in 1..(Len(text) + 2) |-> Steps(f)[i]]
    OBVIOUS
  <2> HIDE DEF Steps
  <2> QED
    BY <2>1, <2>2, <2>3
<1>5. from = Steps(from)
  <2> HIDE DEF Steps
  <2> QED BY <1>4
<1>6. IsSkipping(from, text)
  <2>1. ASSUME NEW i \in 1..(Len(text) + 2)
        PROVE  from[i] = IF i > Len(text) THEN Len(text) + 1
                         ELSE IF text[i] = Blank THEN from[i + 1]
                         ELSE IF text[i] = CommentOpens THEN from[ClosedAt(text, i) + 1] ELSE i
    <3> HIDE DEF from
    <3>1. from[i] = Steps(from)[i]
      BY <1>5
    <3> QED
      BY <1>2, <3>1 DEF ClosedAt
  <2> HIDE DEF from, Steps
  <2> QED
    BY <2>1 DEF IsSkipping
<1> QED
  BY <1>1, <1>6

\* P holds where the reader comes to on its way to line m: past each blank line
\* and each comment.
Passed(text, P, m) ==
    /\ 1 \in P /\ m \in P /\ P \subseteq 1..m
    /\ \A i \in P \ {m} :
          \/ text[i] = Blank /\ i + 1 \in P
          \/ /\ text[i] = CommentOpens
             /\ \E c \in i..(m - 1) : /\ text[c] = CommentCloses /\ c + 1 \in P
                                      /\ \A k \in i..(c - 1) : text[k] # CommentCloses

LEMMA ContentIs ==
    ASSUME NEW S, NEW text \in Seq(S), NEW m \in 1..Len(text), text[m] = Fence,
           NEW P, Passed(text, P, m)
    PROVE  FirstContent(text) = m
<1>1. PICK f : IsSkipping(f, text) /\ FirstContent(text) = f[1]
  BY FirstContentWalks
<1>2. PICK n \in Nat : n = Len(text)
  OBVIOUS
<1>3. Fence # Blank /\ Fence # CommentOpens /\ Blank # CommentOpens
  BY DEF Fence, Blank, CommentOpens
<1>4. ASSUME NEW i \in 1..n
      PROVE  f[i] = IF text[i] = Blank THEN f[i + 1]
                    ELSE IF text[i] = CommentOpens THEN f[ClosedAt(text, i) + 1] ELSE i
  <2>1. i \in 1..(Len(text) + 2) /\ ~(i > Len(text))
    BY <1>2, <1>4
  <2> QED
    BY <1>1, <2>1 DEF IsSkipping
<1>5. m \in 1..n
  BY <1>2
<1> DEFINE G == {i \in Nat : i \in P => f[i] = m}
<1>6. \A i \in Nat : i > m => i \in G
  BY DEF Passed
<1>7. ASSUME NEW i \in Nat, i <= m, \A j \in Nat : i < j => j \in G
      PROVE  i \in G
  <2> SUFFICES ASSUME i \in P PROVE f[i] = m
    OBVIOUS
  <2>1. i \in 1..m /\ i \in 1..n
    BY <1>5 DEF Passed
  <2>2. CASE i = m
    BY <1>3, <1>4, <1>5, <2>2
  <2>3. CASE i # m /\ text[i] = Blank /\ i + 1 \in P
    <3>1. f[i] = f[i + 1]
      BY <1>4, <2>1, <2>3
    <3>2. i + 1 \in G
      BY <1>7
    <3> QED
      BY <2>3, <3>1, <3>2
  <2>4. CASE /\ i # m /\ text[i] = CommentOpens
             /\ \E c \in i..(m - 1) : /\ text[c] = CommentCloses /\ c + 1 \in P
                                      /\ \A k \in i..(c - 1) : text[k] # CommentCloses
    <3>1. PICK c \in i..(m - 1) : /\ text[c] = CommentCloses /\ c + 1 \in P
                                  /\ \A k \in i..(c - 1) : text[k] # CommentCloses
      BY <2>4
    <3>2. PICK d : d = ClosedAt(text, i)
      OBVIOUS
    <3>3. /\ d \in i..(n + 1) /\ (d <= n => text[d] = CommentCloses)
          /\ \A j \in i..n : text[j] = CommentCloses => d <= j
      BY <1>2, <2>1, <3>2, ClosedAtIs
    <3>4. c \in i..n
      BY <1>5, <2>1
    <3>5. d <= c
      BY <3>1, <3>3, <3>4
    <3>6. ~(d < c)
      <4> SUFFICES ASSUME d < c PROVE FALSE
        OBVIOUS
      <4>1. d \in i..(c - 1) /\ d <= n
        BY <2>1, <3>3, <3>4
      <4> QED
        BY <3>1, <3>3, <4>1
    <3>7. d = c
      BY <2>1, <3>3, <3>4, <3>5, <3>6
    <3>8. f[i] = f[c + 1]
      BY <1>3, <1>4, <2>1, <2>4, <3>2, <3>7
    <3>9. c + 1 \in Nat /\ i < c + 1
      BY <2>1, <3>4
    <3>10. c + 1 \in G
      BY <1>7, <3>9
    <3> QED
      BY <3>1, <3>8, <3>10
  <2> QED
    BY <2>2, <2>3, <2>4 DEF Passed
<1>8. Nat \subseteq G
  <2>1. m \in Nat
    OBVIOUS
  <2> HIDE DEF G
  <2> QED
    BY <1>6, <1>7, <2>1, Backwards
<1>9. f[1] = m
  BY <1>8 DEF Passed
<1> QED
  BY <1>1, <1>9

\* The front matter is between the first line of content, a fence, and the next
\* fence.
LEMMA ExtractedIs ==
    ASSUME NEW S, NEW text \in Seq(S), NEW m \in 1..Len(text), text[m] = Fence,
           FirstContent(text) = m, NEW c \in (m + 1)..Len(text), text[c] = Fence,
           \A k \in (m + 1)..(c - 1) : text[k] # Fence
    PROVE  /\ ExtractFrontmatter(text).error = "none"
           /\ ExtractFrontmatter(text).yaml = SubSeq(text, m + 1, c - 1)
           /\ ExtractFrontmatter(text).prose = WithoutBlanks(SubSeq(text, c + 1, Len(text)))
<1> DEFINE P == {j \in (m + 1)..Len(text) : text[j] = Fence}
<1>1. PICK n \in Nat : n = Len(text)
  OBVIOUS
<1>2. P \subseteq 1..n /\ c \in P /\ \A j \in P : c <= j
  BY <1>1
<1>3. PICK d : d = FirstOf(text, P)
  OBVIOUS
<1>4. d \in P \cup {n + 1} /\ d \in 1..(n + 1) /\ d <= c
  <2> HIDE DEF P
  <2> QED BY <1>1, <1>2, <1>3, FirstOfIs
<1>5. d = c
  <2>1. c \in 1..n
    BY <1>1
  <2> HIDE DEF P
  <2> QED BY <1>2, <1>4, <2>1
<1>6. PICK e : e = ExtractFrontmatter(text)
  OBVIOUS
<1>7. e = [error |-> IF m > Len(text) \/ text[m] # Fence THEN "no_frontmatter"
                     ELSE IF d > Len(text) THEN "unterminated_frontmatter"
                     ELSE "none",
           yaml |-> SubSeq(text, m + 1, d - 1),
           prose |-> WithoutBlanks(SubSeq(text, d + 1, Len(text)))]
  BY <1>3, <1>6, Zenon DEF ExtractFrontmatter
<1>8. ~(m > Len(text)) /\ ~(d > Len(text))
  BY <1>1, <1>5
<1> QED
  BY <1>5, <1>6, <1>7, <1>8

-----------------------------------------------------------------------------
(* What the front matter says.                                             *)

\* The lines of y are fields of r, and all that are not null.
Says(y, r) ==
    /\ y \in Seq(Line)
    /\ \A i \in 1..Len(y) : \E k \in Fields : y[i] = <<k, r[k]>> /\ r[k] # "null"
    /\ \A k \in Fields : r[k] # "null" => \E i \in 1..Len(y) : y[i] = <<k, r[k]>>

\* What r gives.
DataOf(r) == [k \in {j \in Fields : r[j] # "null"} |-> r[k]]

LEMMA GreatestIs ==
    ASSUME NEW n \in Nat, NEW P, P \subseteq 1..n, P # {}
    PROVE  Max(P) \in P /\ \A x \in P : x <= Max(P)
<1>1. P \in SUBSET (0..n)
  OBVIOUS
<1>2. \E x \in P : \A y \in P : y <= x
  BY <1>1, GreatestOfBounded
<1>3. PICK m : m = Max(P)
  OBVIOUS
<1>4. m \in P /\ \A y \in P : y <= m
  <2>1. \E x \in P : \A y \in P : x >= y
    BY <1>1, <1>2
  <2>2. m \in P /\ \A y \in P : m >= y
    BY <1>3, <2>1 DEF Max
  <2> QED
    BY <1>1, <2>2
<1> QED
  BY <1>3, <1>4

\* The mapping of a text: for each key the value on the last of its lines.
FieldLines(y, k) == {i \in DOMAIN y : IsField(y[i]) /\ y[i][1] = k}
KeysOf(y) == {y[i][1] : i \in {j \in DOMAIN y : IsField(y[j])}}

LEMMA MappingIs ==
    ASSUME NEW S, NEW y \in Seq(S)
    PROVE  /\ DOMAIN Mapping(y) = KeysOf(y)
           /\ Mapping(y) = [k \in KeysOf(y) |-> Mapping(y)[k]]
           /\ \A k \in KeysOf(y) : \E i \in 1..Len(y) :
                 /\ IsField(y[i]) /\ y[i][1] = k /\ Mapping(y)[k] = y[i][2]
           /\ \A i \in 1..Len(y) : IsField(y[i]) => y[i][1] \in KeysOf(y)
<1>1. Mapping(y) = [k \in KeysOf(y) |-> y[Max(FieldLines(y, k))][2]]
  BY Zenon DEF Mapping, KeysOf, FieldLines
<1>2. PICK n \in Nat : n = Len(y) /\ DOMAIN y = 1..n
  OBVIOUS
<1>3. ASSUME NEW k \in KeysOf(y)
      PROVE  \E i \in 1..Len(y) : /\ IsField(y[i]) /\ y[i][1] = k
                                  /\ Mapping(y)[k] = y[i][2]
  <2>1. PICK P : P = FieldLines(y, k)
    OBVIOUS
  <2>2. P \subseteq 1..n
    BY <1>2, <2>1 DEF FieldLines
  <2>3. P # {}
    BY <1>3, <2>1 DEF KeysOf, FieldLines
  <2>4. PICK i : i = Max(P)
    OBVIOUS
  <2>5. i \in P
    BY <2>2, <2>3, <2>4, GreatestIs
  <2>6. i \in 1..n /\ IsField(y[i]) /\ y[i][1] = k
    BY <1>2, <2>1, <2>5 DEF FieldLines
  <2>7. Mapping(y)[k] = y[i][2]
    BY <1>1, <1>3, <2>1, <2>4, Zenon
  <2> QED
    BY <1>2, <2>6, <2>7
<1>4. \A i \in 1..Len(y) : IsField(y[i]) => y[i][1] \in KeysOf(y)
  BY <1>2 DEF KeysOf
<1>5. DOMAIN Mapping(y) = KeysOf(y)
  BY <1>1, Zenon
<1>6. Mapping(y) = [k \in KeysOf(y) |-> Mapping(y)[k]]
  <2>1. \A k \in KeysOf(y) : Mapping(y)[k] = y[Max(FieldLines(y, k))][2]
    BY <1>1, Zenon
  <2> QED
    BY <1>1, <2>1, Zenon
<1> QED
  BY <1>3, <1>4, <1>5, <1>6

LEMMA SaidIs ==
    ASSUME NEW y, NEW r, Says(y, r), r["version"] = "1",
           \A k \in Fields : r[k] # "quote opens"
    PROVE  IsMapping(y) /\ Mapping(y) = DataOf(r)
<1>1. y \in Seq(Line)
  BY DEF Says
<1>2. PICK n \in Nat : n = Len(y) /\ DOMAIN y = 1..n
  <2>1. Len(y) \in Nat /\ DOMAIN y = 1..Len(y)
    BY <1>1, SeqIs, Zenon
  <2> QED
    BY <2>1
<1>3. ASSUME NEW i \in 1..n
      PROVE  \E k \in Fields : /\ r[k] # "null" /\ IsField(y[i])
                               /\ y[i][1] = k /\ y[i][2] = r[k]
  <2>1. PICK k \in Fields : y[i] = <<k, r[k]>> /\ r[k] # "null"
    BY <1>2, <1>3 DEF Says
  <2>2. PICK v : v = r[k]
    OBVIOUS
  <2>3. Len(<<k, v>>) = 2 /\ <<k, v>>[1] = k /\ <<k, v>>[2] = v
    OBVIOUS
  <2> QED
    BY <2>1, <2>2, <2>3 DEF IsField
<1>4. ASSUME NEW k \in Fields, r[k] # "null"
      PROVE  \E i \in 1..n : IsField(y[i]) /\ y[i][1] = k
  <2>1. PICK i \in 1..n : y[i] = <<k, r[k]>>
    BY <1>2, <1>4 DEF Says
  <2>2. PICK v : v = r[k]
    OBVIOUS
  <2>3. Len(<<k, v>>) = 2 /\ <<k, v>>[1] = k
    OBVIOUS
  <2> QED
    BY <2>1, <2>2, <2>3 DEF IsField
<1>5. IsMapping(y)
  <2>1. "version" \in Fields /\ r["version"] # "null"
    BY FieldsAre
  <2>2. \E i \in 1..n : IsField(y[i])
    BY <1>4, <2>1
  <2>3. \A i \in 1..n : IsField(y[i]) /\ y[i][2] # "quote opens"
    BY <1>3
  <2> QED
    BY <1>2, <2>2, <2>3 DEF IsMapping
<1>6. KeysOf(y) = {j \in Fields : r[j] # "null"}
  <2>1. ASSUME NEW k \in KeysOf(y) PROVE k \in Fields /\ r[k] # "null"
    <3>1. PICK i \in 1..n : y[i][1] = k
      BY <1>2, <2>1 DEF KeysOf
    <3> QED
      BY <1>3, <3>1
  <2>2. ASSUME NEW k \in Fields, r[k] # "null" PROVE k \in KeysOf(y)
    BY <1>2, <1>4, <2>2 DEF KeysOf
  <2> QED
    BY <2>1, <2>2
<1>7. ASSUME NEW k \in KeysOf(y) PROVE Mapping(y)[k] = r[k]
  <2>1. PICK i \in 1..n : y[i][1] = k /\ Mapping(y)[k] = y[i][2]
    BY <1>1, <1>2, <1>7, MappingIs
  <2> QED
    BY <1>3, <2>1
<1>8. Mapping(y) = [k \in KeysOf(y) |-> Mapping(y)[k]]
  BY <1>1, MappingIs
<1>9. Mapping(y) = [k \in KeysOf(y) |-> r[k]]
  BY <1>7, <1>8, Zenon
<1>10. Mapping(y) = DataOf(r)
  BY <1>6, <1>9, Zenon DEF DataOf
<1> QED
  BY <1>5, <1>10

\* A record that intake accepts, and whose values a dump leaves on one line and
\* a normalisation leaves as they are.
Sound(r) ==
    /\ r = [k \in Fields |-> r[k]]
    /\ \A k \in Fields : /\ r[k] # "quote opens" /\ r[k] # "a rule"
                         /\ Normalized(k, r[k]) = r[k]
                         /\ r[k] # "null" => FieldFault(k, r[k]) = "none"
    /\ \A k \in Required \cup {"target_file", "target_decl"} : r[k] # "null"
    /\ r["version"] = "1" /\ r["project_ref"] = "here" /\ r["target_file"] # "P.v"

LEMMA RequiredAre ==
    Required \subseteq Fields /\ "version" \in Required /\ "project_ref" \in Required
BY FieldsAre DEF Required

LEMMA SoundReads ==
    ASSUME NEW r, Sound(r)
    PROVE  /\ VersionErrors(DataOf(r)) = {} /\ ValidationErrors(DataOf(r)) = {}
           /\ TaskRecord(DataOf(r)) = r /\ ProjectErrors(r) = {}
<1>1. PICK d : d = DataOf(r)
  OBVIOUS
<1>2. DOMAIN d = {k \in Fields : r[k] # "null"} /\ \A k \in DOMAIN d : d[k] = r[k]
  BY <1>1 DEF DataOf
<1>3. Given(d) = DOMAIN d
  BY <1>2 DEF Given
<1>4. Required \subseteq DOMAIN d /\ {"target_file", "target_decl"} \subseteq DOMAIN d
  BY <1>2, FieldsAre, RequiredAre DEF Sound
<1>5. VersionErrors(d) = {}
  <2>1. "version" \in Given(d) /\ d["version"] = "1"
    BY <1>2, <1>3, <1>4, RequiredAre DEF Sound
  <2> QED
    BY <2>1 DEF VersionErrors
<1>6. \A k \in DOMAIN d : Normalized(k, d[k]) = r[k] /\ FieldFault(k, Normalized(k, d[k])) = "none"
  BY <1>2 DEF Sound
<1>7. ValidationErrors(d) = {}
  <2>1. {<<"missing_field", k>> : k \in Required \ DOMAIN d} = {}
    BY <1>4
  <2>2. {k \in DOMAIN d : FieldFault(k, Normalized(k, d[k])) # "none"} = {}
    BY <1>6
  <2>3. {<<FieldFault(k, Normalized(k, d[k])), k>> : k \in {}} = {}
    OBVIOUS
  <2> QED
    BY <1>3, <1>4, <2>1, <2>2, <2>3 DEF ValidationErrors
<1>8. TaskRecord(d) = r
  <2>1. \A k \in Fields : (IF k \in DOMAIN d THEN Normalized(k, d[k]) ELSE "null") = r[k]
    BY <1>2, <1>6
  <2>2. TaskRecord(d) = [k \in Fields |-> r[k]]
    BY <2>1, Zenon DEF TaskRecord
  <2> QED
    BY <2>2, Zenon DEF Sound
<1>9. ProjectErrors(r) = {}
  BY DEF ProjectErrors, Sound
<1> QED
  BY <1>1, <1>5, <1>7, <1>8, <1>9

\* A second normalisation changes nothing, except where two were needed.
LEMMA NormalizedTwice ==
    ASSUME NEW k, NEW v, k = "target_file" => Normalized(k, v) # "./P.lean"
    PROVE  Normalized(k, Normalized(k, v)) = Normalized(k, v)
BY DEF Normalized

LEMMA NormalizedKeeps ==
    ASSUME NEW k, NEW v
    PROVE  /\ Normalized(k, "null") = "null"
           /\ v # "null" => Normalized(k, v) # "null"
           /\ v # "quote opens" => Normalized(k, v) # "quote opens"
           /\ k # "target_file" => Normalized(k, v) = v
           /\ Normalized(k, v) \in {v, "./P.lean", "P.lean"}
BY DEF Normalized

LEMMA RecordIs ==
    ASSUME NEW data, ValidationErrors(data) = {}
    PROVE  /\ DOMAIN data \subseteq Fields /\ Required \subseteq DOMAIN data
           /\ \A k \in DOMAIN data : FieldFault(k, Normalized(k, data[k])) = "none"
           /\ \A k \in Fields :
                TaskRecord(data)[k] = IF k \in DOMAIN data THEN Normalized(k, data[k]) ELSE "null"
           /\ TaskRecord(data) = [k \in Fields |-> TaskRecord(data)[k]]
           /\ \A k \in Required \cup {"target_file", "target_decl"} :
                TaskRecord(data)[k] # "null"
<1> DEFINE missing == {<<"missing_field", k>> : k \in Required \ DOMAIN data}
           faulty == {k \in DOMAIN data : FieldFault(k, Normalized(k, data[k])) # "none"}
           errors == missing \cup {<<FieldFault(k, Normalized(k, data[k])), k>> : k \in faulty}
<1>1. ValidationErrors(data) =
        IF errors = {} /\ ~({"target_file", "target_decl"} \subseteq Given(data))
        THEN {<<"invalid_value", "target">>} ELSE errors
  BY Zenon DEF ValidationErrors
<1>2. errors = {} /\ {"target_file", "target_decl"} \subseteq Given(data)
  <2> HIDE DEF errors
  <2> QED BY <1>1
<1>3. Required \subseteq DOMAIN data
  <2>1. ASSUME NEW k \in Required \ DOMAIN data PROVE FALSE
    <3>1. <<"missing_field", k>> \in errors
      BY <2>1
    <3> QED BY <1>2, <3>1
  <2> QED BY <2>1
<1>4. ASSUME NEW k \in DOMAIN data PROVE FieldFault(k, Normalized(k, data[k])) = "none"
  <2> SUFFICES ASSUME FieldFault(k, Normalized(k, data[k])) # "none" PROVE FALSE
    OBVIOUS
  <2>1. <<FieldFault(k, Normalized(k, data[k])), k>> \in errors
    BY <1>4
  <2> QED BY <1>2, <2>1
<1>5. ASSUME NEW k \in DOMAIN data PROVE k \in Fields
  <2>1. FieldFault(k, Normalized(k, data[k])) = "none"
    BY <1>4, <1>5
  <2>2. ASSUME NEW v, FieldFault(k, v) = "none" PROVE k \in Fields
    BY <2>2 DEF FieldFault
  <2> QED BY <2>1, <2>2
<1>6. \A k \in Fields :
        TaskRecord(data)[k] = IF k \in DOMAIN data THEN Normalized(k, data[k]) ELSE "null"
  BY DEF TaskRecord
<1>7. TaskRecord(data) = [k \in Fields |-> TaskRecord(data)[k]]
  BY DEF TaskRecord
<1>8. ASSUME NEW k \in Required \cup {"target_file", "target_decl"}
      PROVE  TaskRecord(data)[k] # "null"
  <2>1. k \in DOMAIN data /\ k \in Fields
    BY <1>2, <1>3, <1>5, <1>8 DEF Given
  <2>2. data[k] # "null"
    <3>1. CASE k \in {"target_file", "target_decl"}
      BY <1>2, <3>1 DEF Given
    <3>2. CASE k \in Required
      <4>1. Normalized(k, "null") = "null"
        BY NormalizedKeeps
      <4>2. FieldFault(k, "null") # "none"
        BY <3>2, FieldsAre DEF FieldFault, Required
      <4> QED
        BY <1>4, <2>1, <4>1, <4>2
    <3> QED
      BY <1>8, <3>1, <3>2
  <2> QED
    BY <1>6, <2>1, <2>2, NormalizedKeeps
<1> QED
  BY <1>3, <1>4, <1>5, <1>6, <1>7, <1>8

LEMMA RecordSound ==
    ASSUME NEW data, ValidationErrors(data) = {}, data["version"] = "1",
           \A k \in DOMAIN data : data[k] # "quote opens",
           Plain(TaskRecord(data)), TaskRecord(data)["project_ref"] = "here",
           TaskRecord(data)["target_file"] # "P.v"
    PROVE  Sound(TaskRecord(data))
<1>1. PICK r : r = TaskRecord(data)
  OBVIOUS
<1>2. /\ DOMAIN data \subseteq Fields /\ Required \subseteq DOMAIN data
      /\ \A k \in DOMAIN data : FieldFault(k, Normalized(k, data[k])) = "none"
      /\ \A k \in Fields : r[k] = IF k \in DOMAIN data THEN Normalized(k, data[k]) ELSE "null"
      /\ r = [k \in Fields |-> r[k]]
      /\ \A k \in Required \cup {"target_file", "target_decl"} : r[k] # "null"
  BY <1>1, RecordIs
<1>3. Plain(r)
  BY <1>1
<1>4. ASSUME NEW k \in Fields
      PROVE  /\ r[k] # "quote opens" /\ r[k] # "a rule"
             /\ Normalized(k, r[k]) = r[k]
             /\ r[k] # "null" => FieldFault(k, r[k]) = "none"
  <2>1. r[k] # "a rule" /\ (k = "target_file" => r[k] # "./P.lean")
    BY <1>3 DEF Plain
  <2>2. CASE k \in DOMAIN data
    <3>1. PICK v : v = data[k]
      OBVIOUS
    <3>2. r[k] = Normalized(k, v) /\ v # "quote opens" /\ FieldFault(k, r[k]) = "none"
      BY <1>2, <2>2, <3>1
    <3>3. Normalized(k, v) # "quote opens"
      BY <3>2, NormalizedKeeps
    <3>4. Normalized(k, Normalized(k, v)) = Normalized(k, v)
      BY <2>1, <3>2, NormalizedTwice
    <3> QED
      BY <2>1, <3>2, <3>3, <3>4
  <2>3. CASE k \notin DOMAIN data
    <3>1. r[k] = "null"
      BY <1>2, <2>3
    <3>2. Normalized(k, "null") = "null"
      BY NormalizedKeeps
    <3> QED
      BY <2>1, <3>1, <3>2
  <2> QED
    BY <2>2, <2>3
<1>5. r["version"] = "1"
  <2>1. "version" \in DOMAIN data /\ "version" \in Fields
    BY <1>2, RequiredAre
  <2>2. PICK k : k = "version"
    OBVIOUS
  <2>3. k \in DOMAIN data /\ k \in Fields /\ data[k] = "1" /\ k # "target_file"
    BY <2>1, <2>2
  <2>4. r[k] = Normalized(k, data[k])
    BY <1>2, <2>3
  <2>5. Normalized(k, data[k]) = data[k]
    BY <2>3, NormalizedKeeps
  <2> QED
    BY <2>2, <2>3, <2>4, <2>5
<1>6. Sound(r)
  BY <1>1, <1>2, <1>4, <1>5 DEF Sound
<1> QED
  BY <1>1, <1>6

\* The elements of a flattened sequence are those of its elements.
Flattened(y, seqs) ==
    /\ \A i \in 1..Len(y) : \E n \in 1..Len(seqs) : \E j \in 1..Len(seqs[n]) : y[i] = seqs[n][j]
    /\ \A n \in 1..Len(seqs) : \A j \in 1..Len(seqs[n]) : \E i \in 1..Len(y) : y[i] = seqs[n][j]

LEMMA FlattenHas ==
    ASSUME NEW S, NEW seqs, seqs \in Seq(Seq(S))
    PROVE  FlattenSeq(seqs) \in Seq(S) /\ Flattened(FlattenSeq(seqs), seqs)
<1>1. PICK K \in Nat : K = Len(seqs)
  OBVIOUS
<1>2. \A n \in 1..K : seqs[n] \in Seq(S)
  BY <1>1
<1>3. PICK f \in [0..K -> Seq(S)] : /\ f[0] = << >>
                                    /\ \A n \in 1..K : f[n] = f[n - 1] \o seqs[n]
                                    /\ FlattenSeq(seqs) = f[K]
  BY <1>1, FlattenIs
<1> DEFINE Good(m) ==
        /\ \A i \in 1..Len(f[m]) : \E n \in 1..m : \E j \in 1..Len(seqs[n]) :
              f[m][i] = seqs[n][j]
        /\ \A n \in 1..m : \A j \in 1..Len(seqs[n]) :
              \E i \in 1..Len(f[m]) : f[m][i] = seqs[n][j]
           G == {m \in Nat : m <= K => Good(m)}
<1>4. 0 \in G
  <2>1. Len(f[0]) = 0
    BY <1>3
  <2> QED
    BY <2>1
<1>5. ASSUME NEW m \in Nat, m \in G PROVE m + 1 \in G
  <2> SUFFICES ASSUME m + 1 <= K PROVE Good(m + 1)
    OBVIOUS
  <2>1. m \in 0..K /\ m + 1 \in 1..K /\ (m + 1) - 1 = m
    OBVIOUS
  <2>2. PICK t : t = f[m]
    OBVIOUS
  <2>3. PICK s : s = seqs[m + 1]
    OBVIOUS
  <2>4. t \in Seq(S) /\ s \in Seq(S)
    BY <1>2, <1>3, <2>1, <2>2, <2>3
  <2>5. f[m + 1] = t \o s
    BY <1>3, <2>1, <2>2, <2>3
  <2>6. Len(t) \in Nat /\ Len(s) \in Nat /\ Len(t \o s) = Len(t) + Len(s)
    BY <2>4
  <2>7. \A i \in 1..Len(t) : (t \o s)[i] = t[i]
    BY <2>4
  <2>8. \A j \in 1..Len(s) : (t \o s)[Len(t) + j] = s[j]
    BY <2>4, ConcatIs DEF Concatenates
  <2>9. Good(m)
    BY <1>5, <2>1
  <2>10. ASSUME NEW i \in 1..Len(t \o s)
         PROVE  \E n \in 1..(m + 1) : \E j \in 1..Len(seqs[n]) : (t \o s)[i] = seqs[n][j]
    <3>1. CASE i \in 1..Len(t)
      <4>1. PICK n \in 1..m : \E j \in 1..Len(seqs[n]) : t[i] = seqs[n][j]
        BY <2>2, <2>9, <3>1
      <4>2. n \in 1..(m + 1)
        OBVIOUS
      <4> QED
        BY <2>7, <3>1, <4>1, <4>2
    <3>2. CASE i \notin 1..Len(t)
      <4>1. i - Len(t) \in 1..Len(s) /\ Len(t) + (i - Len(t)) = i
        BY <2>6, <2>10, <3>2
      <4>2. (t \o s)[i] = s[i - Len(t)]
        BY <2>8, <4>1
      <4> QED
        BY <2>1, <2>3, <4>1, <4>2
    <3> QED
      BY <3>1, <3>2
  <2>11. ASSUME NEW n \in 1..(m + 1), NEW j \in 1..Len(seqs[n])
         PROVE  \E i \in 1..Len(t \o s) : (t \o s)[i] = seqs[n][j]
    <3>1. CASE n \in 1..m
      <4>1. PICK i \in 1..Len(t) : t[i] = seqs[n][j]
        BY <2>2, <2>9, <3>1
      <4>2. i \in 1..Len(t \o s)
        BY <2>6
      <4> QED
        BY <2>7, <4>1, <4>2
    <3>2. CASE n \notin 1..m
      <4>1. n = m + 1
        BY <3>2
      <4>2. j \in 1..Len(s) /\ Len(t) + j \in 1..Len(t \o s)
        BY <2>3, <2>6, <4>1
      <4>3. (t \o s)[Len(t) + j] = seqs[n][j]
        BY <2>3, <2>8, <4>1, <4>2
      <4> QED
        BY <4>2, <4>3
    <3> QED
      BY <3>1, <3>2
  <2>12. PICK x : x = t \o s
    OBVIOUS
  <2>13. /\ \A i \in 1..Len(x) : \E n \in 1..(m + 1) : \E j \in 1..Len(seqs[n]) :
               x[i] = seqs[n][j]
         /\ \A n \in 1..(m + 1) : \A j \in 1..Len(seqs[n]) :
               \E i \in 1..Len(x) : x[i] = seqs[n][j]
    BY <2>10, <2>11, <2>12, Zenon
  <2>14. f[m + 1] = x
    BY <2>5, <2>12
  <2> QED
    BY <2>13, <2>14, Zenon
<1>6. Nat \subseteq G
  <2> HIDE DEF G
  <2> QED BY <1>4, <1>5, SetInduction
<1>7. K \in G
  <2> HIDE DEF G
  <2> QED BY <1>6
<1>8. Good(K) /\ f[K] \in Seq(S)
  BY <1>3, <1>7
<1>9. PICK y : y = f[K]
  OBVIOUS
<1>10. Flattened(y, seqs)
  BY <1>1, <1>8, <1>9 DEF Flattened
<1> QED
  BY <1>3, <1>8, <1>9, <1>10

DumpedFields(r) ==
    [i \in DOMAIN FieldOrder |-> DumpedField(FieldOrder[i], r[FieldOrder[i]])]

LEMMA DumpedFieldIs ==
    ASSUME NEW k \in Words, NEW v \in Words
    PROVE  /\ DumpedField(k, v) \in Seq(Line)
           /\ v = "null" => DumpedField(k, v) = << >>
           /\ v # "null" /\ v # "a rule" => DumpedField(k, v) = << <<k, v>> >>
<1>1. CASE v = "null"
  BY <1>1 DEF DumpedField
<1>2. CASE v # "null" /\ v = "a rule"
  <2>1. <<k, "quote opens">> \in Line /\ Fence \in Line /\ <<"quote closes">> \in Line
    <3>1. "quote opens" \in Words
      BY DEF Words
    <3> QED
      BY <3>1, MarksAreLines
  <2>2. \A a, b, c \in Line : << a, b, c >> \in Seq(Line)
    OBVIOUS
  <2>3. << <<k, "quote opens">>, Fence, <<"quote closes">> >> \in Seq(Line)
    BY <2>1, <2>2
  <2>4. DumpedField(k, v) = << <<k, "quote opens">>, Fence, <<"quote closes">> >>
    BY <1>2 DEF DumpedField
  <2> QED
    BY <1>2, <2>3, <2>4
<1>3. CASE v # "null" /\ v # "a rule"
  <2>1. <<k, v>> \in Line
    BY MarksAreLines
  <2>2. DumpedField(k, v) = << <<k, v>> >>
    BY <1>3 DEF DumpedField
  <2>3. \A a \in Line : << a >> \in Seq(Line)
    OBVIOUS
  <2> QED
    BY <1>3, <2>1, <2>2, <2>3
<1> QED
  BY <1>1, <1>2, <1>3

LEMMA FieldOrderIs ==
    /\ DOMAIN FieldOrder = 1..7
    /\ \A i \in 1..7 : FieldOrder[i] \in Fields /\ FieldOrder[i] \in Words
    /\ \A k \in Fields : k \in Words /\ \E i \in 1..7 : FieldOrder[i] = k
<1>1. FieldOrder = <<"version", "type", "target_file", "target_decl", "project_ref", "deps",
                     "blueprint_ref">>
  BY DEF FieldOrder
<1>2. DOMAIN FieldOrder = 1..7
  BY <1>1
<1>3. Fields = {FieldOrder[x] : x \in 1..7}
  BY <1>2, Zenon DEF Fields, Range
<1>4. \A k \in Fields : k \in Words
  BY FieldsAre DEF Words
<1> QED
  BY <1>2, <1>3, <1>4

LEMMA DumpedIs ==
    ASSUME NEW r, \A k \in Fields : r[k] \in Words
    PROVE  /\ Dumped(r) \in Seq(Line)
           /\ (\A k \in Fields : r[k] # "a rule") => Says(Dumped(r), r)
<1>1. PICK s : s = DumpedFields(r)
  OBVIOUS
<1>2. DOMAIN s = 1..7 /\ \A i \in 1..7 : s[i] = DumpedField(FieldOrder[i], r[FieldOrder[i]])
  BY <1>1, FieldOrderIs DEF DumpedFields
<1>3. ASSUME NEW i \in 1..7
      PROVE  \E k \in Fields : /\ FieldOrder[i] = k /\ k \in Words /\ r[k] \in Words
                               /\ s[i] = DumpedField(k, r[k])
  BY <1>2, <1>3, FieldOrderIs
<1>4. \A i \in 1..7 : s[i] \in Seq(Line)
  BY <1>3, DumpedFieldIs
<1>5. s \in Seq(Seq(Line)) /\ Len(s) = 7
  <2>1. s = [i \in 1..7 |-> s[i]]
    BY <1>1, <1>2 DEF DumpedFields
  <2>2. \A S, u : u = [i \in 1..7 |-> u[i]] /\ (\A i \in 1..7 : u[i] \in S)
                    => u \in Seq(S) /\ Len(u) = 7
    OBVIOUS
  <2> QED
    BY <1>4, <2>1, <2>2
<1>6. Dumped(r) = FlattenSeq(s)
  BY <1>1 DEF Dumped, DumpedFields
<1>7. PICK y : y = FlattenSeq(s)
  OBVIOUS
<1>8. /\ y \in Seq(Line)
      /\ \A i \in 1..Len(y) : \E n \in 1..7 : \E j \in 1..Len(s[n]) : y[i] = s[n][j]
      /\ \A n \in 1..7 : \A j \in 1..Len(s[n]) : \E i \in 1..Len(y) : y[i] = s[n][j]
  <2>1. PICK L : L = Line
    OBVIOUS
  <2>2. s \in Seq(Seq(L))
    BY <1>5, <2>1
  <2>3. FlattenSeq(s) \in Seq(L) /\ Flattened(FlattenSeq(s), s)
    BY <2>2, FlattenHas, Zenon
  <2>4. y \in Seq(Line) /\ Flattened(y, s)
    BY <1>7, <2>1, <2>3
  <2> QED
    BY <1>5, <2>4 DEF Flattened
<1>9. ASSUME \A k \in Fields : r[k] # "a rule" PROVE Says(y, r)
  <2>1. ASSUME NEW n \in 1..7, NEW j \in 1..Len(s[n])
        PROVE  \E k \in Fields : s[n][j] = <<k, r[k]>> /\ r[k] # "null"
    <3>1. PICK k \in Fields : /\ k \in Words /\ r[k] \in Words
                              /\ s[n] = DumpedField(k, r[k])
      BY <1>3
    <3>2. PICK v : v = r[k]
      OBVIOUS
    <3>3. v # "null"
      <4> SUFFICES ASSUME v = "null" PROVE FALSE
        OBVIOUS
      <4>1. s[n] = << >>
        BY <3>1, <3>2, DumpedFieldIs
      <4>2. Len(s[n]) = 0
        BY <4>1
      <4> QED
        BY <2>1, <4>2
    <3>4. s[n] = << <<k, v>> >>
      BY <1>9, <3>1, <3>2, <3>3, DumpedFieldIs
    <3>5. Len(s[n]) = 1 /\ s[n][1] = <<k, v>>
      BY <3>4
    <3>6. j = 1
      BY <2>1, <3>5
    <3> QED
      BY <3>2, <3>3, <3>5, <3>6
  <2>2. ASSUME NEW i \in 1..Len(y)
        PROVE  \E k \in Fields : y[i] = <<k, r[k]>> /\ r[k] # "null"
    <3>1. PICK n \in 1..7 : \E j \in 1..Len(s[n]) : y[i] = s[n][j]
      BY <1>8, <2>2, Zenon
    <3>2. PICK j \in 1..Len(s[n]) : y[i] = s[n][j]
      BY <3>1, Zenon
    <3> QED
      BY <2>1, <3>2, Zenon
  <2>3. ASSUME NEW k \in Fields, r[k] # "null"
        PROVE  \E i \in 1..Len(y) : y[i] = <<k, r[k]>>
    <3>1. PICK n \in 1..7 : FieldOrder[n] = k
      BY FieldOrderIs
    <3>2. k \in Words /\ r[k] \in Words /\ s[n] = DumpedField(k, r[k])
      BY <1>2, <3>1, FieldOrderIs
    <3>3. s[n] = << <<k, r[k]>> >>
      BY <1>9, <2>3, <3>2, DumpedFieldIs
    <3>4. PICK x : x = <<k, r[k]>>
      OBVIOUS
    <3>5. Len(<< x >>) = 1 /\ << x >>[1] = x
      OBVIOUS
    <3>6. 1 \in 1..Len(s[n]) /\ s[n][1] = x
      BY <3>3, <3>4, <3>5
    <3>7. PICK i \in 1..Len(y) : y[i] = s[n][1]
      BY <1>8, <3>6, Zenon
    <3> QED
      BY <3>4, <3>6, <3>7, Zenon
  <2> QED
    BY <1>8, <2>2, <2>3 DEF Says
<1> QED
  BY <1>6, <1>7, <1>8, <1>9

-----------------------------------------------------------------------------
(* Reading a body.                                                         *)

\* The faults of what was extracted, in the order in which they are looked for.
FaultsOf(error, yaml) ==
    CASE error # "none" -> {<<error, "">>}
      [] error = "none" /\ ~IsMapping(yaml) -> {<<"invalid_yaml", "">>}
      [] OTHER -> IF VersionErrors(Mapping(yaml)) # {} THEN VersionErrors(Mapping(yaml))
                  ELSE IF ValidationErrors(Mapping(yaml)) # {}
                       THEN ValidationErrors(Mapping(yaml))
                  ELSE ProjectErrors(TaskRecord(Mapping(yaml)))

LEMMA ParsedIs ==
    ASSUME NEW text, NEW e, e = ExtractFrontmatter(text)
    PROVE  ParseIssueBody(text) =
             [errors |-> FaultsOf(e.error, e.yaml),
              record |-> IF FaultsOf(e.error, e.yaml) = {} THEN TaskRecord(Mapping(e.yaml))
                         ELSE NoRecord,
              prose |-> IF FaultsOf(e.error, e.yaml) = {} THEN e.prose ELSE << >>]
BY Zenon DEF ParseIssueBody, FaultsOf

LEMMA FaultlessIs ==
    ASSUME NEW error, NEW yaml
    PROVE  FaultsOf(error, yaml) = {} <=>
             /\ error = "none" /\ IsMapping(yaml)
             /\ VersionErrors(Mapping(yaml)) = {} /\ ValidationErrors(Mapping(yaml)) = {}
             /\ ProjectErrors(TaskRecord(Mapping(yaml))) = {}
<1>1. CASE error # "none"
  BY <1>1 DEF FaultsOf
<1>2. CASE error = "none" /\ ~IsMapping(yaml)
  <2>1. FaultsOf(error, yaml) = {<<"invalid_yaml", "">>}
    BY <1>2 DEF FaultsOf
  <2> QED
    BY <1>2, <2>1
<1>3. CASE error = "none" /\ IsMapping(yaml)
  <2>1. FaultsOf(error, yaml) =
          IF VersionErrors(Mapping(yaml)) # {} THEN VersionErrors(Mapping(yaml))
          ELSE IF ValidationErrors(Mapping(yaml)) # {} THEN ValidationErrors(Mapping(yaml))
          ELSE ProjectErrors(TaskRecord(Mapping(yaml)))
    BY <1>3 DEF FaultsOf
  <2> QED
    BY <1>3, <2>1, Zenon
<1> QED
  BY <1>1, <1>2, <1>3

\* The front matter of r begins at line m and ends at line c.
Fronted(text, m, c, r) ==
    /\ m \in 1..Len(text) /\ c \in (m + 1)..Len(text)
    /\ c = m + Len(Dumped(r)) + 1
    /\ text[m] = Fence /\ text[c] = Fence
    /\ \A k \in 1..Len(Dumped(r)) : text[m + k] = Dumped(r)[k]

IsWords(r) == \A k \in Fields : r[k] \in Words

LEMMA FrontedReads ==
    ASSUME NEW r, Sound(r), IsWords(r), NEW text \in Seq(Line), NEW m, NEW c,
           Fronted(text, m, c, r), FirstContent(text) = m
    PROVE  ParseIssueBody(text) =
             [errors |-> {}, record |-> r,
              prose |-> WithoutBlanks(SubSeq(text, c + 1, Len(text)))]
<1>1. PICK D : D = Dumped(r)
  OBVIOUS
<1>2. D \in Seq(Line) /\ Says(D, r)
  BY <1>1, DumpedIs DEF IsWords, Sound
<1>3. PICK n \in Nat : n = Len(text)
  BY SeqIs, Zenon
<1>4. PICK l \in Nat : l = Len(D)
  BY <1>2, SeqIs, Zenon
<1>5. /\ m \in 1..n /\ c \in (m + 1)..n /\ c = m + l + 1 /\ text[m] = Fence /\ text[c] = Fence
      /\ \A k \in 1..l : text[m + k] = D[k]
  BY <1>1, <1>3, <1>4 DEF Fronted
<1>6. \A k \in 1..l : D[k] # Fence
  <2>1. ASSUME NEW k \in 1..l PROVE D[k] # Fence
    <3>1. PICK f \in Fields : D[k] = <<f, r[f]>>
      BY <1>2, <1>4, <2>1 DEF Says
    <3>2. PICK v : v = r[f]
      OBVIOUS
    <3>3. <<f, v>> # <<"---">>
      OBVIOUS
    <3> QED
      BY <3>1, <3>2, <3>3 DEF Fence
  <2> QED
    BY <2>1
<1>7. ASSUME NEW k \in (m + 1)..(c - 1) PROVE text[k] # Fence
  <2>1. k - m \in 1..l /\ m + (k - m) = k
    BY <1>3, <1>4, <1>5, <1>7
  <2> QED
    BY <1>5, <1>6, <2>1
<1>8. PICK e : e = ExtractFrontmatter(text)
  OBVIOUS
<1>9. /\ e.error = "none" /\ e.yaml = SubSeq(text, m + 1, c - 1)
      /\ e.prose = WithoutBlanks(SubSeq(text, c + 1, Len(text)))
  <2>1. m \in 1..Len(text) /\ c \in (m + 1)..Len(text)
    BY <1>3, <1>5
  <2> QED
    BY <1>5, <1>7, <1>8, <2>1, ExtractedIs
<1>10. PICK y : y = SubSeq(text, m + 1, c - 1)
  OBVIOUS
<1>11. y = D
  <2>1. y \in Seq(Line) /\ Len(y) = l /\ \A k \in 1..l : y[k] = text[m + k]
    <3>1. m + 1 \in 1..(n + 1) /\ c - 1 \in 0..n /\ (c - 1) - (m + 1) + 1 = l
      <4>1. m \in 1..n /\ c \in (m + 1)..n /\ c = m + l + 1
        BY <1>5
      <4> QED
        BY <1>3, <1>4, <4>1, SMTT(60)
    <3>2. ASSUME NEW S, NEW s \in Seq(S), NEW a \in 1..(Len(s) + 1), NEW b \in (a - 1)..Len(s)
          PROVE  /\ SubSeq(s, a, b) \in Seq(S) /\ Len(SubSeq(s, a, b)) = b - a + 1
                 /\ \A k \in 1..(b - a + 1) : SubSeq(s, a, b)[k] = s[a + k - 1]
      OBVIOUS
    <3>3. c - 1 \in ((m + 1) - 1)..n
      BY <1>3, <1>4, <1>5
    <3>4. /\ y \in Seq(Line) /\ Len(y) = (c - 1) - (m + 1) + 1
          /\ \A k \in 1..((c - 1) - (m + 1) + 1) : y[k] = text[(m + 1) + k - 1]
      BY <1>3, <1>10, <3>1, <3>2, <3>3
    <3>5. \A k \in 1..l : (m + 1) + k - 1 = m + k
      BY <1>5
    <3> QED
      BY <3>1, <3>4, <3>5
  <2>2. ASSUME NEW S, NEW s \in Seq(S), NEW t \in Seq(S), Len(s) = Len(t),
               \A k \in 1..Len(s) : s[k] = t[k]
        PROVE  s = t
    BY <2>2
  <2>3. Len(y) = Len(D) /\ \A k \in 1..Len(y) : y[k] = D[k]
    BY <1>4, <1>5, <2>1
  <2> QED
    BY <1>2, <2>1, <2>2, <2>3
<1>12. IsMapping(y) /\ Mapping(y) = DataOf(r)
  BY <1>2, <1>11, SaidIs DEF Sound
<1>13. FaultsOf(e.error, e.yaml) = {}
  BY <1>9, <1>10, <1>12, FaultlessIs, SoundReads
<1>14. TaskRecord(Mapping(e.yaml)) = r
  BY <1>9, <1>10, <1>12, SoundReads
<1> QED
  BY <1>8, <1>9, <1>13, <1>14, ParsedIs

LEMMA SeqsSame ==
    ASSUME NEW S, NEW s \in Seq(S), NEW t \in Seq(S), Len(s) = Len(t),
           \A k \in 1..Len(s) : s[k] = t[k]
    PROVE  s = t
OBVIOUS

LEMMA SubSeqIs ==
    ASSUME NEW S, NEW s \in Seq(S), NEW a \in 1..(Len(s) + 1), NEW b \in (a - 1)..Len(s)
    PROVE  /\ SubSeq(s, a, b) \in Seq(S) /\ Len(SubSeq(s, a, b)) = b - a + 1
           /\ \A k \in 1..(b - a + 1) : SubSeq(s, a, b)[k] = s[a + k - 1]
OBVIOUS

\* What follows the first n elements of a sequence of n elements and more.
LEMMA RestIs ==
    ASSUME NEW S, NEW s \in Seq(S), NEW t \in Seq(S)
    PROVE  SubSeq(s \o t, Len(s) + 1, Len(s \o t)) = t
<1>1. PICK u : u = s \o t
  OBVIOUS
<1>2. u \in Seq(S) /\ Concatenates(u, s, t)
  BY <1>1, ConcatIs
<1>3. PICK a \in Nat : a = Len(s)
  OBVIOUS
<1>4. PICK b \in Nat : b = Len(t)
  OBVIOUS
<1>5. Len(u) = a + b /\ \A k \in 1..b : u[a + k] = t[k]
  BY <1>2, <1>3, <1>4 DEF Concatenates
<1>6. PICK w : w = SubSeq(u, a + 1, a + b)
  OBVIOUS
<1>7. /\ w \in Seq(S) /\ Len(w) = (a + b) - (a + 1) + 1
      /\ \A k \in 1..((a + b) - (a + 1) + 1) : w[k] = u[(a + 1) + k - 1]
  <2>1. a + 1 \in 1..(Len(u) + 1) /\ a + b \in ((a + 1) - 1)..Len(u)
    BY <1>5
  <2> QED
    BY <1>2, <1>6, <2>1, SubSeqIs
<1>8. (a + b) - (a + 1) + 1 = b /\ \A k \in 1..b : (a + 1) + k - 1 = a + k
  OBVIOUS
<1>9. Len(w) = Len(t) /\ \A k \in 1..Len(w) : w[k] = t[k]
  BY <1>4, <1>5, <1>7, <1>8
<1>10. w = t
  BY <1>7, <1>9, SeqsSame
<1> QED
  BY <1>1, <1>3, <1>5, <1>6, <1>10

\* Whatever is below the front matter, the lines above it are as they were.
LEMMA WrittenIs ==
    ASSUME NEW r, IsWords(r), NEW prose \in Seq(Line)
    PROVE  /\ TaskToBody(r, prose) \in Seq(Line)
           /\ Fronted(TaskToBody(r, prose), 1, Len(Dumped(r)) + 2, r)
           /\ Passed(TaskToBody(r, prose), {1}, 1)
           /\ SubSeq(TaskToBody(r, prose), Len(Dumped(r)) + 3, Len(TaskToBody(r, prose)))
                = IF prose = << >> THEN << >> ELSE <<Blank>> \o prose
<1>1. PICK D : D = Dumped(r)
  OBVIOUS
<1>2. D \in Seq(Line)
  BY <1>1, DumpedIs DEF IsWords
<1>3. PICK l \in Nat : l = Len(D)
  BY <1>2, SeqIs, Zenon
<1>4. PICK F : F = <<Fence>>
  OBVIOUS
<1>5. F \in Seq(Line) /\ Len(F) = 1 /\ F[1] = Fence
  <2>1. Fence \in Line
    BY MarksAreLines
  <2>2. \A a : Len(<<a>>) = 1 /\ <<a>>[1] = a
    OBVIOUS
  <2>3. \A a \in Line : <<a>> \in Seq(Line)
    OBVIOUS
  <2> QED
    BY <1>4, <2>1, <2>2, <2>3
<1>6. PICK tail : tail = IF prose = << >> THEN << >> ELSE <<Blank>> \o prose
  OBVIOUS
<1>7. tail \in Seq(Line)
  <2>1. Blank \in Line
    BY MarksAreLines
  <2>2. \A a \in Line : <<a>> \o prose \in Seq(Line)
    OBVIOUS
  <2>3. << >> \in Seq(Line)
    OBVIOUS
  <2> QED
    BY <1>6, <2>1, <2>2, <2>3
<1>8. PICK x : x = F \o D
  OBVIOUS
<1>9. x \in Seq(Line) /\ Concatenates(x, F, D)
  BY <1>2, <1>5, <1>8, ConcatIs
<1>10. Len(x) = 1 + l /\ x[1] = Fence /\ \A k \in 1..l : x[1 + k] = D[k]
  BY <1>3, <1>5, <1>9 DEF Concatenates
<1>11. PICK y : y = x \o F
  OBVIOUS
<1>12. y \in Seq(Line) /\ Concatenates(y, x, F)
  BY <1>5, <1>9, <1>11, ConcatIs
<1>13. /\ Len(y) = l + 2 /\ y[1] = Fence /\ y[l + 2] = Fence
       /\ \A k \in 1..l : y[1 + k] = D[k]
  <2>1. Len(y) = (1 + l) + 1 /\ (\A k \in 1..(1 + l) : y[k] = x[k])
        /\ \A k \in 1..1 : y[(1 + l) + k] = F[k]
    BY <1>5, <1>10, <1>12 DEF Concatenates
  <2>2. (1 + l) + 1 = l + 2 /\ 1 \in 1..1 /\ 1 \in 1..(1 + l)
    OBVIOUS
  <2>3. \A k \in 1..l : 1 + k \in 1..(1 + l)
    OBVIOUS
  <2>4. y[l + 2] = F[1]
    BY <2>1, <2>2
  <2>5. \A k \in 1..l : y[1 + k] = x[1 + k]
    BY <2>1, <2>3
  <2>6. y[1] = x[1]
    BY <2>1, <2>2
  <2> QED
    BY <1>5, <1>10, <2>1, <2>2, <2>4, <2>5, <2>6
<1>14. PICK z : z = y \o tail
  OBVIOUS
<1>15. z \in Seq(Line) /\ Concatenates(z, y, tail)
  BY <1>7, <1>12, <1>14, ConcatIs
<1>16. Len(tail) \in Nat
  BY <1>7, SeqIs, Zenon
<1>17. /\ Len(z) = (l + 2) + Len(tail) /\ z[1] = Fence /\ z[l + 2] = Fence
       /\ \A k \in 1..l : z[1 + k] = D[k]
  <2>1. Len(z) = (l + 2) + Len(tail) /\ \A k \in 1..(l + 2) : z[k] = y[k]
    BY <1>13, <1>15 DEF Concatenates
  <2>2. 1 \in 1..(l + 2) /\ l + 2 \in 1..(l + 2) /\ \A k \in 1..l : 1 + k \in 1..(l + 2)
    OBVIOUS
  <2> QED
    BY <1>13, <2>1, <2>2
<1>18. TaskToBody(r, prose) = z
  BY <1>1, <1>4, <1>6, <1>8, <1>11, <1>14, Zenon DEF TaskToBody
<1>19. Fronted(z, 1, l + 2, r)
  <2>1. 1 \in 1..Len(z) /\ l + 2 \in (1 + 1)..Len(z) /\ l + 2 = 1 + l + 1
    BY <1>16, <1>17
  <2> QED
    BY <1>1, <1>3, <1>17, <2>1 DEF Fronted
<1>20. Passed(z, {1}, 1)
  BY DEF Passed
<1>21. SubSeq(z, l + 3, Len(z)) = tail
  <2>1. SubSeq(z, Len(y) + 1, Len(z)) = tail
    BY <1>7, <1>12, <1>14, RestIs
  <2>2. Len(y) + 1 = l + 3
    BY <1>13
  <2> QED
    BY <2>1, <2>2
<1> QED
  BY <1>1, <1>3, <1>6, <1>15, <1>18, <1>19, <1>20, <1>21

LEMMA BlankTaken ==
    ASSUME NEW S, NEW text \in Seq(S), Blank \in S, text # << >>, text[1] # Blank
    PROVE  WithoutBlanks(<<Blank>> \o text) = text
<1>1. PICK b : b = <<Blank>>
  OBVIOUS
<1>2. b \in Seq(S) /\ Len(b) = 1 /\ b[1] = Blank
  <2>1. \A a \in S : <<a>> \in Seq(S) /\ Len(<<a>>) = 1 /\ <<a>>[1] = a
    OBVIOUS
  <2> QED
    BY <1>1, <2>1
<1>3. PICK u : u = b \o text
  OBVIOUS
<1>4. u \in Seq(S) /\ Concatenates(u, b, text)
  BY <1>2, <1>3, ConcatIs
<1>5. PICK n \in Nat : n = Len(text)
  OBVIOUS
<1>6. n # 0
  <2>1. Len(text) = 0 => text = << >>
    OBVIOUS
  <2> QED
    BY <1>5, <2>1
<1>7. Len(u) = 1 + n /\ u[1] = Blank /\ u[2] # Blank
  <2>1. Len(u) = 1 + n /\ (\A k \in 1..1 : u[k] = b[k]) /\ \A k \in 1..n : u[1 + k] = text[k]
    BY <1>2, <1>4, <1>5 DEF Concatenates
  <2>2. 1 \in 1..1 /\ 1 \in 1..n /\ 1 + 1 = 2
    BY <1>6
  <2> QED
    BY <1>2, <2>1, <2>2
<1>8. DOMAIN u = 1..(1 + n)
  BY <1>4, <1>7, SeqIs
<1> DEFINE P == {i \in DOMAIN u : u[i] # Blank}
<1>9. 2 \in P /\ P \subseteq 1..(1 + n) /\ 1 \notin P
  BY <1>6, <1>7, <1>8
<1>10. PICK f : f = FirstOf(u, P)
  OBVIOUS
<1>11. f \in P \cup {(1 + n) + 1} /\ f <= 2
  <2>1. Len(u) \in Nat /\ P \subseteq 1..Len(u)
    BY <1>7, <1>9
  <2> HIDE DEF P
  <2> QED
    BY <1>7, <1>9, <1>10, <2>1, FirstOfIs
<1>12. f = 2
  <2>1. f \in P
    <3> HIDE DEF P
    <3> QED BY <1>6, <1>11
  <2>2. f \in 1..(1 + n) /\ f # 1
    <3> HIDE DEF P
    <3> QED BY <1>9, <2>1
  <2> QED
    BY <1>11, <2>2
<1>13. WithoutBlanks(u) = SubSeq(u, FirstOf(u, P), Len(u))
  BY Zenon DEF WithoutBlanks
<1>14. WithoutBlanks(u) = SubSeq(u, 2, Len(u))
  <2> HIDE DEF P
  <2> QED BY <1>10, <1>12, <1>13
<1>15. SubSeq(b \o text, Len(b) + 1, Len(b \o text)) = text
  BY <1>2, RestIs
<1>16. Len(b) + 1 = 2
  BY <1>2
<1> QED
  BY <1>1, <1>3, <1>14, <1>15, <1>16

LEMMA ContentTyped ==
    ASSUME NEW S, NEW text \in Seq(S)
    PROVE  FirstContent(text) \in 1..(Len(text) + 1)
<1>1. PICK f : IsSkipping(f, text) /\ FirstContent(text) = f[1]
  BY FirstContentWalks
<1>2. PICK n \in Nat : n = Len(text)
  OBVIOUS
<1> DEFINE G == {i \in Nat : i \in 1..(n + 2) => f[i] \in 1..(n + 1)}
<1>3. \A i \in Nat : i > n + 2 => i \in G
  OBVIOUS
<1>4. ASSUME NEW i \in Nat, i <= n + 2, \A j \in Nat : i < j => j \in G PROVE i \in G
  <2> SUFFICES ASSUME i \in 1..(n + 2) PROVE f[i] \in 1..(n + 1)
    OBVIOUS
  <2>1. f[i] = IF i > n THEN n + 1 ELSE IF text[i] = Blank THEN f[i + 1]
               ELSE IF text[i] = CommentOpens THEN f[ClosedAt(text, i) + 1] ELSE i
    BY <1>1, <1>2 DEF IsSkipping
  <2>2. CASE i > n
    BY <2>1, <2>2
  <2>3. CASE ~(i > n) /\ text[i] = Blank
    <3>1. i + 1 \in G /\ i + 1 \in 1..(n + 2)
      BY <1>4, <2>3
    <3> QED BY <2>1, <2>3, <3>1
  <2>4. CASE ~(i > n) /\ text[i] # Blank /\ text[i] = CommentOpens
    <3>1. PICK c : c = ClosedAt(text, i)
      OBVIOUS
    <3>2. c \in i..(n + 1)
      BY <1>2, <2>4, <3>1, ClosedAtIs
    <3>3. c + 1 \in Nat /\ i < c + 1 /\ c + 1 \in 1..(n + 2)
      BY <3>2
    <3>4. c + 1 \in G
      BY <1>4, <3>3
    <3> QED BY <2>1, <2>4, <3>1, <3>3, <3>4
  <2>5. CASE ~(i > n) /\ text[i] # Blank /\ text[i] # CommentOpens
    BY <2>1, <2>5
  <2> QED
    BY <2>2, <2>3, <2>4, <2>5
<1>5. Nat \subseteq G
  <2>1. n + 2 \in Nat
    OBVIOUS
  <2> HIDE DEF G
  <2> QED BY <1>3, <1>4, <2>1, Backwards
<1>6. f[1] \in 1..(n + 1)
  <2>1. 1 \in G /\ 1 \in 1..(n + 2)
    BY <1>5
  <2> QED BY <2>1
<1> QED
  BY <1>1, <1>2, <1>6

LEMMA ExtractTyped ==
    ASSUME NEW text \in Seq(Line), NEW e, e = ExtractFrontmatter(text), e.error = "none"
    PROVE  /\ e.yaml \in Seq(Line) /\ e.prose \in Seq(Line)
           /\ e.prose = << >> \/ e.prose[1] # Blank
<1>1. PICK n \in Nat : n = Len(text)
  BY SeqIs, Zenon
<1>2. PICK o : o = FirstContent(text)
  OBVIOUS
<1>3. o \in 1..(n + 1)
  BY <1>1, <1>2, ContentTyped
<1> DEFINE P == {j \in (o + 1)..Len(text) : text[j] = Fence}
<1>4. PICK d : d = FirstOf(text, P)
  OBVIOUS
<1>5. d \in 1..(n + 1) /\ d \in P \cup {n + 1}
  <2>1. P \subseteq 1..Len(text) /\ Len(text) \in Nat
    BY <1>1, <1>3
  <2> HIDE DEF P
  <2> QED BY <1>1, <1>4, <2>1, FirstOfIs
<1>6. e = [error |-> IF o > Len(text) \/ text[o] # Fence THEN "no_frontmatter"
                     ELSE IF d > Len(text) THEN "unterminated_frontmatter"
                     ELSE "none",
           yaml |-> SubSeq(text, o + 1, d - 1),
           prose |-> WithoutBlanks(SubSeq(text, d + 1, Len(text)))]
  BY <1>2, <1>4, Zenon DEF ExtractFrontmatter
<1>7. ~(o > n) /\ ~(d > n)
  <2>1. e.error = IF o > Len(text) \/ text[o] # Fence THEN "no_frontmatter"
                  ELSE IF d > Len(text) THEN "unterminated_frontmatter" ELSE "none"
    BY <1>6
  <2> HIDE DEF P
  <2> QED BY <1>1, <2>1
<1>8. d \in (o + 1)..n
  <2>1. d \in P
    <3> HIDE DEF P
    <3> QED BY <1>5, <1>7
  <2> QED BY <1>1, <2>1
<1>9. /\ o + 1 \in 1..(n + 1) /\ d - 1 \in ((o + 1) - 1)..n
      /\ d + 1 \in 1..(n + 1) /\ n \in ((d + 1) - 1)..n
  BY <1>3, <1>7, <1>8
<1>10. SubSeq(text, o + 1, d - 1) \in Seq(Line)
  BY <1>1, <1>9, SubSeqIs
<1>11. SubSeq(text, d + 1, n) \in Seq(Line)
  BY <1>1, <1>9, SubSeqIs
<1>12. e.yaml = SubSeq(text, o + 1, d - 1) /\ e.prose = WithoutBlanks(SubSeq(text, d + 1, n))
  <2>1. PICK a : a = IF o > Len(text) \/ text[o] # Fence THEN "no_frontmatter"
                     ELSE IF d > Len(text) THEN "unterminated_frontmatter"
                     ELSE "none"
    OBVIOUS
  <2>2. PICK b : b = SubSeq(text, o + 1, d - 1)
    OBVIOUS
  <2>3. PICK c : c = WithoutBlanks(SubSeq(text, d + 1, Len(text)))
    OBVIOUS
  <2>4. e = [error |-> a, yaml |-> b, prose |-> c]
    BY <1>6, <2>1, <2>2, <2>3, Zenon
  <2>5. e.yaml = b /\ e.prose = c
    BY <2>4
  <2> QED
    BY <1>1, <2>2, <2>3, <2>5, Zenon
<1> QED
  BY <1>10, <1>11, <1>12, WithoutBlanksIs

\* What a mapping maps to are words.
LEMMA DataTyped ==
    ASSUME NEW y \in Seq(Line), IsMapping(y)
    PROVE  \A k \in DOMAIN Mapping(y) : Mapping(y)[k] \in Words /\ Mapping(y)[k] # "quote opens"
<1>1. PICK n \in Nat : n = Len(y) /\ DOMAIN y = 1..n
  <2>1. Len(y) \in Nat /\ DOMAIN y = 1..Len(y)
    BY SeqIs, Zenon
  <2> QED BY <2>1
<1>2. ASSUME NEW i \in 1..n, IsField(y[i]) PROVE y[i][2] \in Words /\ y[i][2] # "quote opens"
  <2>1. y[i] \in Line
    BY <1>1, SeqIs
  <2>2. PICK x : x = y[i]
    OBVIOUS
  <2>3. x \in Seq(Words) /\ Len(x) = 2
    BY <1>2, <2>1, <2>2 DEF Line, IsField
  <2>4. x[2] \in Words
    <3>1. \A k \in 1..Len(x) : x[k] \in Words
      BY <2>3, SeqIs
    <3>2. 2 \in 1..Len(x)
      BY <2>3
    <3> QED BY <3>1, <3>2
  <2>5. y[i][2] # "quote opens"
    BY <1>1, <1>2 DEF IsMapping
  <2> QED
    BY <2>2, <2>4, <2>5
<1>3. ASSUME NEW k \in DOMAIN Mapping(y)
      PROVE  \E i \in 1..n : IsField(y[i]) /\ Mapping(y)[k] = y[i][2]
  BY <1>1, <1>3, MappingIs
<1> QED
  BY <1>2, <1>3

LEMMA AcceptedReads ==
    ASSUME NEW text \in Seq(Line), ParseIssueBody(text).errors = {}
    PROVE  /\ {"target_file", "target_decl"} \subseteq Given(ParseIssueBody(text).record)
           /\ Plain(ParseIssueBody(text).record) =>
                ParseIssueBody(TaskToBody(ParseIssueBody(text).record, ParseIssueBody(text).prose))
                    = ParseIssueBody(text)
<1>1. PICK e : e = ExtractFrontmatter(text)
  OBVIOUS
<1>2. PICK d : d = Mapping(e.yaml)
  OBVIOUS
<1>3. PICK r : r = TaskRecord(d)
  OBVIOUS
<1>4. PICK found : found = FaultsOf(e.error, e.yaml)
  OBVIOUS
<1>5. ParseIssueBody(text) = [errors |-> found, record |-> IF found = {} THEN r ELSE NoRecord,
                              prose |-> IF found = {} THEN e.prose ELSE << >>]
  BY <1>1, <1>2, <1>3, <1>4, ParsedIs
<1>6. found = {}
  BY <1>5
<1>7. ParseIssueBody(text) = [errors |-> {}, record |-> r, prose |-> e.prose]
  BY <1>5, <1>6, Zenon
<1>8. /\ e.error = "none" /\ IsMapping(e.yaml) /\ VersionErrors(d) = {}
      /\ ValidationErrors(d) = {} /\ ProjectErrors(r) = {}
  BY <1>2, <1>3, <1>4, <1>6, FaultlessIs
<1>9. e.yaml \in Seq(Line) /\ e.prose \in Seq(Line) /\ (e.prose = << >> \/ e.prose[1] # Blank)
  BY <1>1, <1>8, ExtractTyped
<1>10. \A k \in DOMAIN d : d[k] \in Words /\ d[k] # "quote opens"
  BY <1>2, <1>8, <1>9, DataTyped
<1>11. d["version"] = "1"
  <2>1. ASSUME NEW v, v = d["version"], v # "1" PROVE VersionErrors(d) # {}
    <3>1. VersionErrors(d) =
            IF "version" \notin Given(d) THEN {<<"missing_field", "version">>}
            ELSE IF v = "wrong type" THEN {<<"type_mismatch", "version">>}
            ELSE {<<"unknown_version", "version">>}
      BY <2>1 DEF VersionErrors
    <3> QED BY <3>1
  <2> QED BY <1>8, <2>1
<1>12. r["project_ref"] = "here" /\ r["target_file"] # "P.v"
  BY <1>8 DEF ProjectErrors
<1>13. /\ \A k \in Fields : r[k] = IF k \in DOMAIN d THEN Normalized(k, d[k]) ELSE "null"
       /\ r = [k \in Fields |-> r[k]]
       /\ r["target_file"] # "null" /\ r["target_decl"] # "null"
  BY <1>3, <1>8, RecordIs
<1>14. IsWords(r)
  <2>1. ASSUME NEW k \in Fields PROVE r[k] \in Words
    <3>1. "null" \in Words /\ "./P.lean" \in Words /\ "P.lean" \in Words
      BY DEF Words
    <3>2. CASE k \in DOMAIN d
      <4>1. Normalized(k, d[k]) \in {d[k], "./P.lean", "P.lean"}
        BY NormalizedKeeps
      <4> QED BY <1>10, <1>13, <3>1, <3>2, <4>1
    <3>3. CASE k \notin DOMAIN d
      BY <1>13, <3>1, <3>3
    <3> QED BY <3>2, <3>3
  <2> QED BY <2>1 DEF IsWords
<1>15. {"target_file", "target_decl"} \subseteq Given(r)
  <2>1. DOMAIN r = Fields
    BY <1>13
  <2> QED BY <1>13, <2>1, FieldsAre DEF Given
<1>16. ASSUME Plain(r) PROVE ParseIssueBody(TaskToBody(r, e.prose)) = ParseIssueBody(text)
  <2>1. Sound(r)
    BY <1>3, <1>8, <1>10, <1>11, <1>12, <1>16, RecordSound
  <2>2. PICK z : z = TaskToBody(r, e.prose)
    OBVIOUS
  <2>3. PICK c : c = Len(Dumped(r)) + 2
    OBVIOUS
  <2>4. /\ z \in Seq(Line) /\ Fronted(z, 1, c, r) /\ Passed(z, {1}, 1)
        /\ SubSeq(z, Len(Dumped(r)) + 3, Len(z))
             = IF e.prose = << >> THEN << >> ELSE <<Blank>> \o e.prose
    BY <1>9, <1>14, <2>2, <2>3, WrittenIs
  <2>5. FirstContent(z) = 1
    BY <2>4, ContentIs DEF Fronted
  <2>6. Dumped(r) \in Seq(Line)
    BY <1>14, DumpedIs DEF IsWords
  <2>7. Len(Dumped(r)) \in Nat
    BY <2>6, SeqIs, Zenon
  <2>8. c + 1 = Len(Dumped(r)) + 3
    BY <2>3, <2>7
  <2>9. ParseIssueBody(z) = [errors |-> {}, record |-> r,
                             prose |-> WithoutBlanks(SubSeq(z, c + 1, Len(z)))]
    BY <1>14, <2>1, <2>4, <2>5, FrontedReads
  <2>10. WithoutBlanks(SubSeq(z, c + 1, Len(z))) = e.prose
    <3>1. CASE e.prose = << >>
      <4>1. SubSeq(z, c + 1, Len(z)) = << >>
        BY <2>4, <2>8, <3>1
      <4>2. << >> \in Seq(Line)
        OBVIOUS
      <4> QED BY <3>1, <4>1, <4>2, WithoutBlanksIs
    <3>2. CASE e.prose # << >>
      <4>1. SubSeq(z, c + 1, Len(z)) = <<Blank>> \o e.prose
        BY <2>4, <2>8, <3>2
      <4> QED BY <1>9, <3>2, <4>1, BlankTaken, MarksAreLines
    <3> QED BY <3>1, <3>2
  <2> QED
    BY <1>7, <2>2, <2>9, <2>10
<1>17. ParseIssueBody(text).record = r /\ ParseIssueBody(text).prose = e.prose
  BY <1>7
<1> QED
  BY <1>15, <1>16, <1>17

-----------------------------------------------------------------------------
(* The reduction block.                                                    *)

LEMMA LeastIs ==
    ASSUME NEW n \in Nat, NEW P, P \subseteq 1..n, P # {}
    PROVE  Min(P) \in P /\ \A x \in P : Min(P) <= x
<1>1. P \in SUBSET Nat
  OBVIOUS
<1>2. \E x \in P : \A y \in P : x <= y
  BY <1>1, LeastNat
<1>3. PICK m : m = Min(P)
  OBVIOUS
<1>4. m \in P /\ \A y \in P : m <= y
  BY <1>2, <1>3 DEF Min
<1> QED
  BY <1>3, <1>4

Openers(text) == {i \in DOMAIN text : IsOpener(text[i])}
Closers(text, i) == {j \in (i + 1)..Len(text) : text[j] = Closer(text[i][3])}
ClosedOpeners(text) == {i \in Openers(text) : Closers(text, i) # {}}
BlockYaml(text) ==
    SubSeq(text, Min(ClosedOpeners(text)) + 1,
           Min(Closers(text, Min(ClosedOpeners(text)))) - 1)
IsBlock(yaml) ==
    /\ IsMapping(yaml)
    /\ DOMAIN Mapping(yaml) = {"reduction-version", "parent", "children"}
    /\ Mapping(yaml)["reduction-version"] = "1"
    /\ Mapping(yaml)["parent"] # "ill-formed"
    /\ Mapping(yaml)["children"] \notin {"none", "ill-formed"}

LEMMA ReadIs ==
    ASSUME NEW text
    PROVE  ParseReductionBlock(text) =
             IF ClosedOpeners(text) = {}
             THEN IF Openers(text) = {} THEN NoBlock ELSE BadBlock
             ELSE IF IsBlock(BlockYaml(text))
                  THEN <<Mapping(BlockYaml(text))["parent"],
                         Mapping(BlockYaml(text))["children"]>>
                  ELSE BadBlock
BY Zenon DEF ParseReductionBlock, Openers, Closers, ClosedOpeners, BlockYaml, IsBlock

\* A key of a mapping is on a line of its own.
LEMMA KeyIsSaid ==
    ASSUME NEW y \in Seq(Line), NEW k \in DOMAIN Mapping(y)
    PROVE  \E i \in 1..Len(y) : y[i] = <<k, Mapping(y)[k]>>
<1>1. k \in KeysOf(y)
  BY MappingIs
<1>2. PICK i \in 1..Len(y) : IsField(y[i]) /\ y[i][1] = k /\ Mapping(y)[k] = y[i][2]
  BY <1>1, MappingIs
<1>3. PICK x : x = y[i]
  OBVIOUS
<1>4. x \in Seq(Words)
  <2>1. y[i] \in Line
    BY SeqIs
  <2> QED BY <1>3, <2>1 DEF Line
<1>5. Len(x) = 2 /\ x[1] = k /\ x[2] = Mapping(y)[k]
  BY <1>2, <1>3 DEF IsField
<1>6. x = <<x[1], x[2]>>
  BY <1>4, <1>5
<1> QED
  BY <1>3, <1>5, <1>6

LEMMA BlocksRead ==
    ASSUME prBody \in Seq(Line)
    PROVE  BlocksAreWhole
<1>1. PICK read : read = ParseReductionBlock(prBody)
  OBVIOUS
<1>2. PICK n \in Nat : n = Len(prBody) /\ DOMAIN prBody = 1..n
  <2>1. Len(prBody) \in Nat /\ DOMAIN prBody = 1..Len(prBody)
    BY SeqIs, Zenon
  <2> QED BY <2>1
<1>3. PICK y : y = BlockYaml(prBody)
  OBVIOUS
<1>4. read = IF ClosedOpeners(prBody) = {}
             THEN IF Openers(prBody) = {} THEN NoBlock ELSE BadBlock
             ELSE IF IsBlock(y) THEN <<Mapping(y)["parent"], Mapping(y)["children"]>>
             ELSE BadBlock
  BY <1>1, <1>3, ReadIs
<1>5. NoBlock # BadBlock
  BY DEF NoBlock, BadBlock
<1>6. Openers(prBody) = {} <=> \A i \in DOMAIN prBody : ~IsOpener(prBody[i])
  BY DEF Openers
<1>7. CASE read \in {NoBlock, BadBlock}
  <2>1. (read = NoBlock) = (\A i \in DOMAIN prBody : ~IsOpener(prBody[i]))
    <3>1. CASE ClosedOpeners(prBody) = {}
      <4>1. (read = NoBlock) <=> (Openers(prBody) = {})
        BY <1>4, <1>5, <3>1
      <4> QED BY <1>6, <4>1, Zenon
    <3>2. CASE ClosedOpeners(prBody) # {}
      <4>1. Openers(prBody) # {}
        BY <3>2 DEF ClosedOpeners
      <4>2. \A a, b : <<a, b>> # <<"none">>
        OBVIOUS
      <4>3. read # NoBlock
        BY <1>4, <1>5, <3>2, <4>2, Zenon DEF NoBlock
      <4> QED BY <1>6, <4>1, <4>3, Zenon
    <3> QED BY <3>1, <3>2
  <2> QED
    BY <1>1, <1>7, <2>1, Zenon DEF BlocksAreWhole
<1>8. CASE read \notin {NoBlock, BadBlock}
  <2>1. ClosedOpeners(prBody) # {} /\ IsBlock(y)
        /\ read = <<Mapping(y)["parent"], Mapping(y)["children"]>>
    BY <1>4, <1>8
  <2>2. PICK i : i = Min(ClosedOpeners(prBody))
    OBVIOUS
  <2>3. i \in ClosedOpeners(prBody)
    <3>1. ClosedOpeners(prBody) \subseteq 1..n
      BY <1>2 DEF ClosedOpeners, Openers
    <3> QED BY <2>1, <2>2, <3>1, LeastIs
  <2>4. i \in 1..n /\ IsOpener(prBody[i]) /\ Closers(prBody, i) # {}
    BY <1>2, <2>3 DEF ClosedOpeners, Openers
  <2>5. PICK j : j = Min(Closers(prBody, i))
    OBVIOUS
  <2>6. j \in Closers(prBody, i)
    <3>1. Closers(prBody, i) \subseteq 1..n
      BY <1>2, <2>4 DEF Closers
    <3> QED BY <2>4, <2>5, <3>1, LeastIs
  <2>7. j \in (i + 1)..n /\ prBody[j] = Closer(prBody[i][3])
    BY <1>2, <2>6 DEF Closers
  <2>8. y = SubSeq(prBody, i + 1, j - 1)
    BY <1>3, <2>2, <2>5, Zenon DEF BlockYaml
  <2>9. /\ y \in Seq(Line) /\ Len(y) = (j - 1) - (i + 1) + 1
        /\ \A k \in 1..((j - 1) - (i + 1) + 1) : y[k] = prBody[(i + 1) + k - 1]
    <3>1. i + 1 \in 1..(n + 1) /\ j - 1 \in ((i + 1) - 1)..n
      BY <2>4, <2>7
    <3> QED BY <1>2, <2>8, <3>1, SubSeqIs
  <2>10. Len(y) = j - 1 - i /\ \A k \in 1..(j - 1 - i) : y[k] = prBody[i + k]
    <3>1. (j - 1) - (i + 1) + 1 = j - 1 - i /\ \A k \in Nat : (i + 1) + k - 1 = i + k
      BY <2>4, <2>7
    <3>2. \A k \in 1..(j - 1 - i) : k \in Nat
      OBVIOUS
    <3> QED BY <2>9, <3>1, <3>2
  <2>11. ASSUME NEW k \in (i + 1)..(j - 1)
         PROVE  IsField(prBody[k]) \/ prBody[k] = Blank
    <3>1. k - i \in 1..(j - 1 - i) /\ i + (k - i) = k
      BY <2>4, <2>7
    <3>2. y[k - i] = prBody[k]
      BY <2>10, <3>1
    <3>3. k - i \in DOMAIN y
      <4>1. DOMAIN y = 1..Len(y)
        BY <2>9, SeqIs, Zenon
      <4> QED BY <2>10, <3>1, <4>1
    <3>4. y[k - i] = Blank \/ IsField(y[k - i])
      BY <2>1, <3>3 DEF IsBlock, IsMapping
    <3> QED BY <3>2, <3>4
  <2>12. ASSUME NEW key, key \in {"parent", "children"}
         PROVE  \E k \in (i + 1)..(j - 1) : prBody[k] = <<key, Mapping(y)[key]>>
    <3>1. key \in DOMAIN Mapping(y)
      BY <2>1, <2>12 DEF IsBlock
    <3>2. PICK k \in 1..Len(y) : y[k] = <<key, Mapping(y)[key]>>
      BY <2>9, <3>1, KeyIsSaid
    <3>3. k \in 1..(j - 1 - i) /\ i + k \in (i + 1)..(j - 1)
      BY <2>4, <2>7, <2>10
    <3> QED BY <2>10, <3>2, <3>3
  <2>13. i \in DOMAIN prBody /\ j \in DOMAIN prBody
    BY <1>2, <2>4, <2>7
  <2>14. read[1] = Mapping(y)["parent"] /\ read[2] = Mapping(y)["children"]
    <3>1. \A a, b : <<a, b>>[1] = a /\ <<a, b>>[2] = b
      OBVIOUS
    <3> QED BY <2>1, <3>1, Zenon
  <2>15. /\ \E k \in (i + 1)..(j - 1) : prBody[k] = <<"parent", read[1]>>
         /\ \E k \in (i + 1)..(j - 1) : prBody[k] = <<"children", read[2]>>
    <3>1. "parent" \in {"parent", "children"} /\ "children" \in {"parent", "children"}
      OBVIOUS
    <3> QED BY <2>12, <2>14, <3>1
  <2>16. \E a, b \in DOMAIN prBody :
            /\ IsOpener(prBody[a]) /\ prBody[b] = Closer(prBody[a][3])
            /\ \A k \in (a + 1)..(b - 1) : IsField(prBody[k]) \/ prBody[k] = Blank
            /\ \E k \in (a + 1)..(b - 1) : prBody[k] = <<"parent", read[1]>>
            /\ \E k \in (a + 1)..(b - 1) : prBody[k] = <<"children", read[2]>>
    BY <2>4, <2>7, <2>11, <2>13, <2>15, Zenon
  <2> QED
    BY <1>1, <1>8, <2>16, Zenon DEF BlocksAreWhole
<1> QED
  BY <1>7, <1>8

-----------------------------------------------------------------------------
(* Edits.                                                                  *)

\* The lines above an edit stay.
LEMMA InsertKeeps ==
    ASSUME NEW S, NEW s \in Seq(S), NEW i \in 1..(Len(s) + 1), NEW e \in S
    PROVE  /\ InsertAt(s, i, e) \in Seq(S) /\ Len(InsertAt(s, i, e)) = Len(s) + 1
           /\ \A k \in 1..(i - 1) : InsertAt(s, i, e)[k] = s[k]
<1>1. PICK n \in Nat : n = Len(s)
  OBVIOUS
<1>2. PICK a : a = SubSeq(s, 1, i - 1)
  OBVIOUS
<1>3. PICK b : b = SubSeq(s, i, Len(s))
  OBVIOUS
<1>4. a \in Seq(S) /\ Len(a) = i - 1 /\ \A k \in 1..(i - 1) : a[k] = s[k]
  <2>1. 1 \in 1..(Len(s) + 1) /\ i - 1 \in (1 - 1)..Len(s)
    BY <1>1
  <2>2. /\ a \in Seq(S) /\ Len(a) = (i - 1) - 1 + 1
        /\ \A k \in 1..((i - 1) - 1 + 1) : a[k] = s[1 + k - 1]
    BY <1>2, <2>1, SubSeqIs
  <2>3. (i - 1) - 1 + 1 = i - 1 /\ \A k \in 1..(i - 1) : 1 + k - 1 = k
    BY <1>1
  <2> QED BY <2>2, <2>3
<1>5. b \in Seq(S) /\ Len(b) = n - i + 1
  <2>1. i \in 1..(Len(s) + 1) /\ Len(s) \in (i - 1)..Len(s)
    BY <1>1
  <2> QED BY <1>1, <1>3, <2>1, SubSeqIs
<1>6. PICK x : x = <<e>>
  OBVIOUS
<1>7. x \in Seq(S) /\ Len(x) = 1
  BY <1>6
<1>8. PICK c : c = a \o x
  OBVIOUS
<1>9. c \in Seq(S) /\ Concatenates(c, a, x)
  BY <1>4, <1>7, <1>8, ConcatIs
<1>10. PICK d : d = c \o b
  OBVIOUS
<1>11. d \in Seq(S) /\ Concatenates(d, c, b)
  BY <1>5, <1>9, <1>10, ConcatIs
<1>12. InsertAt(s, i, e) = d
  BY <1>2, <1>3, <1>6, <1>8, <1>10, Zenon DEF InsertAt
<1>13. Len(c) = i /\ \A k \in 1..(i - 1) : c[k] = s[k]
  BY <1>1, <1>4, <1>7, <1>9 DEF Concatenates
<1>14. Len(d) = n + 1
  BY <1>1, <1>5, <1>11, <1>13 DEF Concatenates
<1>15. \A k \in 1..(i - 1) : d[k] = s[k]
  BY <1>1, <1>11, <1>13 DEF Concatenates
<1> QED
  BY <1>1, <1>11, <1>12, <1>14, <1>15

LEMMA RemoveKeeps ==
    ASSUME NEW S, NEW s \in Seq(S), NEW i \in 1..Len(s)
    PROVE  /\ RemoveAt(s, i) \in Seq(S) /\ Len(RemoveAt(s, i)) = Len(s) - 1
           /\ \A k \in 1..(i - 1) : RemoveAt(s, i)[k] = s[k]
<1>1. PICK n \in Nat : n = Len(s)
  OBVIOUS
<1>2. PICK a : a = SubSeq(s, 1, i - 1)
  OBVIOUS
<1>3. PICK b : b = SubSeq(s, i + 1, Len(s))
  OBVIOUS
<1>4. a \in Seq(S) /\ Len(a) = i - 1 /\ \A k \in 1..(i - 1) : a[k] = s[k]
  <2>1. 1 \in 1..(Len(s) + 1) /\ i - 1 \in (1 - 1)..Len(s)
    BY <1>1
  <2>2. /\ a \in Seq(S) /\ Len(a) = (i - 1) - 1 + 1
        /\ \A k \in 1..((i - 1) - 1 + 1) : a[k] = s[1 + k - 1]
    BY <1>2, <2>1, SubSeqIs
  <2>3. (i - 1) - 1 + 1 = i - 1 /\ \A k \in 1..(i - 1) : 1 + k - 1 = k
    BY <1>1
  <2> QED BY <2>2, <2>3
<1>5. b \in Seq(S) /\ Len(b) = n - i
  <2>1. i + 1 \in 1..(Len(s) + 1) /\ Len(s) \in ((i + 1) - 1)..Len(s)
    BY <1>1
  <2>2. b \in Seq(S) /\ Len(b) = n - (i + 1) + 1
    BY <1>1, <1>3, <2>1, SubSeqIs
  <2> QED BY <1>1, <2>2
<1>6. PICK d : d = a \o b
  OBVIOUS
<1>7. d \in Seq(S) /\ Concatenates(d, a, b)
  BY <1>4, <1>5, <1>6, ConcatIs
<1>8. RemoveAt(s, i) = d
  BY <1>2, <1>3, <1>6, Zenon DEF RemoveAt
<1>9. Len(d) = n - 1
  BY <1>1, <1>4, <1>5, <1>7 DEF Concatenates
<1>10. \A k \in 1..(i - 1) : d[k] = s[k]
  BY <1>4, <1>7 DEF Concatenates
<1> QED
  BY <1>1, <1>7, <1>8, <1>9, <1>10

\* The front matter of a body, and the way to it.
Stands(text, m, c, r) ==
    /\ m \in 1..Len(text) /\ c \in (m + 1)..Len(text)
    /\ Fronted(text, m, c, r)
    /\ \E P : Passed(text, P, m)

\* It is there as long as its lines are.
LEMMA FrontKept ==
    ASSUME NEW r, NEW s \in Seq(Line), NEW t \in Seq(Line), NEW m, NEW c,
           Stands(s, m, c, r), Len(Dumped(r)) \in Nat, c <= Len(t),
           \A k \in 1..c : t[k] = s[k]
    PROVE  Stands(t, m, c, r)
<1>1. PICK P : Passed(s, P, m)
  BY DEF Stands
<1>2. PICK l \in Nat : l = Len(Dumped(r))
  OBVIOUS
<1>3. PICK n \in Nat : n = Len(s)
  BY SeqIs, Zenon
<1>4. PICK u \in Nat : u = Len(t)
  BY SeqIs, Zenon
<1>5. m \in 1..n /\ c \in (m + 1)..n /\ c = m + l + 1 /\ c <= u
  BY <1>2, <1>3, <1>4 DEF Stands, Fronted
<1>6. m \in 1..u /\ c \in (m + 1)..u /\ m \in 1..c /\ c \in 1..c
  BY <1>5
<1>7. Fronted(t, m, c, r)
  <2>1. t[m] = Fence /\ t[c] = Fence
    BY <1>6 DEF Stands, Fronted
  <2>2. ASSUME NEW k \in 1..l PROVE t[m + k] = Dumped(r)[k]
    <3>1. m + k \in 1..c
      BY <1>5
    <3>2. s[m + k] = Dumped(r)[k]
      BY <1>2 DEF Stands, Fronted
    <3> QED BY <3>1, <3>2
  <2> QED
    BY <1>2, <1>4, <1>5, <1>6, <2>1, <2>2 DEF Fronted
<1>8. Passed(t, P, m)
  <2>1. 1 \in P /\ m \in P /\ P \subseteq 1..m
    BY <1>1 DEF Passed
  <2>2. ASSUME NEW i \in P \ {m}
        PROVE  \/ t[i] = Blank /\ i + 1 \in P
               \/ /\ t[i] = CommentOpens
                  /\ \E d \in i..(m - 1) : /\ t[d] = CommentCloses /\ d + 1 \in P
                                           /\ \A k \in i..(d - 1) : t[k] # CommentCloses
    <3>1. i \in 1..m /\ t[i] = s[i]
      BY <1>5, <2>1
    <3>2. CASE s[i] = Blank /\ i + 1 \in P
      BY <3>1, <3>2
    <3>3. CASE ~(s[i] = Blank /\ i + 1 \in P)
      <4>1. /\ s[i] = CommentOpens
            /\ \E d \in i..(m - 1) : /\ s[d] = CommentCloses /\ d + 1 \in P
                                     /\ \A k \in i..(d - 1) : s[k] # CommentCloses
        BY <1>1, <2>2, <3>3 DEF Passed
      <4>2. PICK d \in i..(m - 1) : /\ s[d] = CommentCloses /\ d + 1 \in P
                                    /\ \A k \in i..(d - 1) : s[k] # CommentCloses
        BY <4>1
      <4>3. d \in 1..c /\ \A k \in i..(d - 1) : k \in 1..c
        BY <1>5, <3>1
      <4> QED BY <3>1, <4>1, <4>2, <4>3
    <3> QED BY <3>2, <3>3
  <2> QED
    BY <2>1, <2>2 DEF Passed
<1> QED
  BY <1>4, <1>6, <1>7, <1>8 DEF Stands

\* Lines that a reader goes past: blank lines and whole comments.
Leads(L, Q) ==
    /\ 1 \in Q /\ Q \subseteq 1..Len(L)
    /\ \A i \in Q :
          \/ L[i] = Blank /\ i + 1 \in Q \cup {Len(L) + 1}
          \/ /\ L[i] = CommentOpens
             /\ \E d \in i..Len(L) : /\ L[d] = CommentCloses /\ d + 1 \in Q \cup {Len(L) + 1}
                                     /\ \A k \in i..(d - 1) : L[k] # CommentCloses

\* Above the front matter they only move it.
LEMMA FrontMoved ==
    ASSUME NEW r, NEW s \in Seq(Line), NEW L \in Seq(Line), NEW Q, Leads(L, Q),
           NEW m, NEW c, Stands(s, m, c, r), Len(Dumped(r)) \in Nat
    PROVE  Stands(L \o s, m + Len(L), c + Len(L), r)
<1>1. PICK P : Passed(s, P, m)
  BY DEF Stands
<1>2. PICK l \in Nat : l = Len(Dumped(r))
  OBVIOUS
<1>3. PICK n \in Nat : n = Len(s)
  BY SeqIs, Zenon
<1>4. PICK a \in Nat : a = Len(L)
  BY SeqIs, Zenon
<1>5. PICK t : t = L \o s
  OBVIOUS
<1>6. t \in Seq(Line) /\ Concatenates(t, L, s)
  BY <1>5, ConcatIs
<1>7. /\ Len(t) = a + n
      /\ \A k \in 1..a : t[k] = L[k]
      /\ \A k \in 1..n : t[a + k] = s[k]
  BY <1>3, <1>4, <1>6 DEF Concatenates
<1>8. m \in 1..n /\ c \in (m + 1)..n /\ c = m + l + 1
  BY <1>2, <1>3 DEF Stands, Fronted
<1>9. m + a \in 1..(a + n) /\ c + a \in ((m + a) + 1)..(a + n) /\ c + a = (m + a) + l + 1
  BY <1>8
<1>10. Fronted(t, m + a, c + a, r)
  <2>1. t[m + a] = Fence /\ t[c + a] = Fence
    <3>1. m + a = a + m /\ c + a = a + c /\ m \in 1..n /\ c \in 1..n
      BY <1>8
    <3>2. s[m] = Fence /\ s[c] = Fence
      BY DEF Stands, Fronted
    <3> QED BY <1>7, <3>1, <3>2
  <2>2. ASSUME NEW k \in 1..l PROVE t[(m + a) + k] = Dumped(r)[k]
    <3>1. m + k \in 1..n /\ (m + a) + k = a + (m + k)
      BY <1>8
    <3>2. s[m + k] = Dumped(r)[k]
      BY <1>2 DEF Stands, Fronted
    <3> QED BY <1>7, <3>1, <3>2
  <2> QED
    BY <1>2, <1>7, <1>9, <2>1, <2>2 DEF Fronted
<1> DEFINE R == Q \cup {a + p : p \in P}
<1>11. /\ 1 \in P /\ m \in P /\ P \subseteq 1..m
       /\ \A i \in P \ {m} :
            \/ s[i] = Blank /\ i + 1 \in P
            \/ /\ s[i] = CommentOpens
               /\ \E d \in i..(m - 1) : /\ s[d] = CommentCloses /\ d + 1 \in P
                                        /\ \A k \in i..(d - 1) : s[k] # CommentCloses
  BY <1>1 DEF Passed
<1>12. 1 \in R /\ m + a \in R /\ R \subseteq 1..(m + a)
  <2>1. Q \subseteq 1..a
    BY <1>4 DEF Leads
  <2>2. 1 \in R
    BY DEF Leads
  <2>3. a + m \in R /\ a + m = m + a
    BY <1>8, <1>11
  <2>4. \A p \in P : a + p \in 1..(m + a)
    BY <1>8, <1>11
  <2>5. Q \subseteq 1..(m + a)
    BY <1>8, <2>1
  <2> QED BY <2>2, <2>3, <2>4, <2>5
<1>13. \A i \in Q \cup {a + 1} : i \in R
  BY <1>11
<1>14. ASSUME NEW i \in R \ {m + a}
       PROVE  \/ t[i] = Blank /\ i + 1 \in R
              \/ /\ t[i] = CommentOpens
                 /\ \E d \in i..((m + a) - 1) : /\ t[d] = CommentCloses /\ d + 1 \in R
                                                /\ \A k \in i..(d - 1) : t[k] # CommentCloses
  <2>1. CASE i \in Q
    <3>1. i \in 1..a /\ t[i] = L[i]
      BY <1>4, <1>7, <2>1 DEF Leads
    <3>2. \/ L[i] = Blank /\ i + 1 \in Q \cup {a + 1}
          \/ /\ L[i] = CommentOpens
             /\ \E d \in i..a : /\ L[d] = CommentCloses /\ d + 1 \in Q \cup {a + 1}
                                /\ \A k \in i..(d - 1) : L[k] # CommentCloses
      BY <1>4, <2>1 DEF Leads
    <3>3. CASE L[i] = Blank /\ i + 1 \in Q \cup {a + 1}
      BY <1>13, <3>1, <3>3, Zenon
    <3>4. ASSUME L[i] = CommentOpens, NEW d \in i..a, L[d] = CommentCloses,
                 d + 1 \in Q \cup {a + 1}, \A k \in i..(d - 1) : L[k] # CommentCloses
          PROVE  /\ t[i] = CommentOpens
                 /\ \E e \in i..((m + a) - 1) : /\ t[e] = CommentCloses /\ e + 1 \in R
                                                /\ \A k \in i..(e - 1) : t[k] # CommentCloses
      <4>1. d \in 1..a /\ d \in i..((m + a) - 1) /\ \A k \in i..(d - 1) : k \in 1..a
        BY <1>8, <3>1
      <4>2. d + 1 \in R
        BY <1>13, <3>4, Zenon
      <4>3. t[d] = CommentCloses /\ \A k \in i..(d - 1) : t[k] # CommentCloses
        BY <1>7, <3>4, <4>1
      <4> QED BY <3>1, <3>4, <4>1, <4>2, <4>3, Zenon
    <3> QED BY <3>2, <3>3, <3>4, Zenon
  <2>2. ASSUME NEW p \in P, i = a + p
        PROVE  \/ t[i] = Blank /\ i + 1 \in R
               \/ /\ t[i] = CommentOpens
                  /\ \E d \in i..((m + a) - 1) : /\ t[d] = CommentCloses /\ d + 1 \in R
                                                 /\ \A k \in i..(d - 1) : t[k] # CommentCloses
    <3>1. p \in 1..m /\ p # m /\ t[i] = s[p]
      BY <1>7, <1>8, <1>11, <1>14, <2>2
    <3>2. \A q \in P : a + q \in R
      OBVIOUS
    <3>3. CASE s[p] = Blank /\ p + 1 \in P
      <4>1. i + 1 = a + (p + 1)
        BY <2>2, <3>1
      <4> QED BY <3>1, <3>2, <3>3, <4>1, Zenon
    <3>4. ASSUME s[p] = CommentOpens, NEW d \in p..(m - 1), s[d] = CommentCloses,
                 d + 1 \in P, \A k \in p..(d - 1) : s[k] # CommentCloses
          PROVE  /\ t[i] = CommentOpens
                 /\ \E e \in i..((m + a) - 1) : /\ t[e] = CommentCloses /\ e + 1 \in R
                                                /\ \A k \in i..(e - 1) : t[k] # CommentCloses
      <4>1. a + d \in i..((m + a) - 1) /\ d \in 1..n /\ (a + d) + 1 = a + (d + 1)
        BY <1>8, <2>2, <3>1
      <4>2. t[a + d] = CommentCloses /\ (a + d) + 1 \in R
        BY <1>7, <3>2, <3>4, <4>1, Zenon
      <4>3. ASSUME NEW k \in i..((a + d) - 1) PROVE t[k] # CommentCloses
        <5>1. PICK j : j = k - a
          OBVIOUS
        <5>2. j \in p..(d - 1) /\ j \in 1..n /\ k = a + j
          BY <1>8, <2>2, <3>1, <5>1
        <5> QED BY <1>7, <3>4, <5>2, Zenon
      <4> QED BY <3>1, <3>4, <4>1, <4>2, <4>3, Zenon
    <3>5. \/ s[p] = Blank /\ p + 1 \in P
          \/ /\ s[p] = CommentOpens
             /\ \E d \in p..(m - 1) : /\ s[d] = CommentCloses /\ d + 1 \in P
                                      /\ \A k \in p..(d - 1) : s[k] # CommentCloses
      BY <1>11, <3>1
    <3> QED BY <3>3, <3>4, <3>5, Zenon
  <2> QED
    BY <2>1, <2>2
<1>15. Passed(t, R, m + a)
  <2> HIDE DEF R
  <2> QED BY <1>12, <1>14, Zenon DEF Passed
<1> QED
  <2> HIDE DEF R
  <2> QED BY <1>4, <1>5, <1>7, <1>9, <1>10, <1>15 DEF Stands

-----------------------------------------------------------------------------
(* The invariant of the texts.                                             *)

BodiesInv ==
    /\ issueBody \in Seq(Line) /\ prBody \in Seq(Line)
    /\ IsWords(task) /\ (Plain(task) => Sound(task))
    /\ untouched => Stands(issueBody, front[1], front[2], task)

LEMMA StringsAreWords == Seq(STRING) \subseteq Line
<1>1. STRING \subseteq Words
  BY DEF Words
<1>2. \A s \in Seq(STRING) : s \in Seq(Words)
  BY <1>1, SeqNarrows, SeqIs
<1> QED
  BY <1>2 DEF Line

\* What a maintainer asks for gives a record that reads back.
LEMMA DraftsGive ==
    ASSUME NEW d \in TaskDrafts, ValidationErrors(d) = {}
    PROVE  IsWords(TaskRecord(d)) /\ (Plain(TaskRecord(d)) => Sound(TaskRecord(d)))
<1>1. PICK r : r = TaskRecord(d)
  OBVIOUS
<1>2. /\ \A k \in DOMAIN d : d[k] \in STRING /\ d[k] # "quote opens"
      /\ d["version"] = "1" /\ d["project_ref"] = "here" /\ d["target_file"] # "P.v"
  BY DraftsAreOwn
<1>3. /\ "project_ref" \in DOMAIN d
      /\ \A k \in Fields : r[k] = IF k \in DOMAIN d THEN Normalized(k, d[k]) ELSE "null"
  BY <1>1, RecordIs, RequiredAre
<1>4. ASSUME NEW k \in Fields PROVE r[k] \in Words
  <2>1. "null" \in Words /\ "./P.lean" \in Words /\ "P.lean" \in Words
    BY DEF Words
  <2>2. CASE k \in DOMAIN d
    <3>1. Normalized(k, d[k]) \in {d[k], "./P.lean", "P.lean"}
      BY NormalizedKeeps
    <3>2. d[k] \in Words
      BY <1>2, <2>2 DEF Words
    <3> QED BY <1>3, <2>1, <2>2, <3>1, <3>2
  <2>3. CASE k \notin DOMAIN d
    BY <1>3, <2>1, <2>3
  <2> QED BY <2>2, <2>3
<1>5. r["project_ref"] = "here"
  <2>1. "project_ref" \in Fields /\ "project_ref" # "target_file"
    BY FieldsAre
  <2>2. Normalized("project_ref", d["project_ref"]) = d["project_ref"]
    BY <2>1, NormalizedKeeps
  <2> QED BY <1>2, <1>3, <2>1, <2>2
<1>6. r["target_file"] # "P.v"
  <2>1. "target_file" \in Fields
    BY FieldsAre
  <2>2. Normalized("target_file", d["target_file"]) \in {d["target_file"], "./P.lean", "P.lean"}
    BY NormalizedKeeps
  <2> QED BY <1>2, <1>3, <2>1, <2>2
<1>7. Plain(r) => Sound(r)
  BY <1>1, <1>2, <1>5, <1>6, RecordSound
<1> QED
  BY <1>1, <1>4, <1>7 DEF IsWords

LEMMA DumpedHasLength ==
    ASSUME NEW r, IsWords(r)
    PROVE  Len(Dumped(r)) \in Nat
<1>1. Dumped(r) \in Seq(Line)
  BY DumpedIs DEF IsWords
<1> QED
  BY <1>1, SeqIs, Zenon

LEMMA TemplatesAreLines ==
    ASSUME NEW indent \in {"0", "4"}
    PROVE  Template(indent) \in Seq(Line)
<1>1. /\ "opener" \in Words /\ "closer" \in Words /\ "" \in Words /\ indent \in Words
      /\ "1" \in Words /\ "c" \in Words /\ "e" \in Words /\ "reduction-version" \in Words
      /\ "parent" \in Words /\ "children" \in Words
  BY DEF Words
<1>2. \A x, y, z \in Words : <<x, y, z>> \in Seq(Words)
  OBVIOUS
<1>3. Opener(indent) \in Line /\ Closer(indent) \in Line
  BY <1>1, <1>2 DEF Opener, Closer, Line
<1>4. /\ <<"reduction-version", "1">> \in Line /\ <<"parent", "c">> \in Line
      /\ <<"children", "e">> \in Line /\ Prose \in Line
  BY <1>1, MarksAreLines
<1>5. \A a, b, c, d, e, f \in Line : <<a, b, c, d, e, f>> \in Seq(Line)
  OBVIOUS
<1> QED
  BY <1>3, <1>4, <1>5, Zenon DEF Template

LEMMA BodiesBegin ==
    ASSUME BodiesInit
    PROVE  BodiesInv
<1>1. PICK d \in TaskDrafts : ValidationErrors(d) = {} /\ task = TaskRecord(d)
  BY DEF BodiesInit
<1>2. IsWords(task) /\ (Plain(task) => Sound(task))
  BY <1>1, DraftsGive
<1>3. PICK prose \in Proses : issueBody = TaskToBody(task, prose)
  BY DEF BodiesInit
<1>4. prose \in Seq(Line)
  <2>1. prose \in Seq(Seq(STRING))
    BY LinesAreWords
  <2>2. \A k \in 1..Len(prose) : prose[k] \in Seq(STRING)
    BY <2>1, SeqIs
  <2>3. \A k \in 1..Len(prose) : prose[k] \in Line
    BY <2>2, StringsAreWords
  <2> QED BY <2>1, <2>3, SeqNarrows
<1>5. PICK D : D = Dumped(task)
  OBVIOUS
<1>6. front[1] = 1 /\ front[2] = Len(D) + 2
  BY <1>5 DEF BodiesInit
<1>7. /\ issueBody \in Seq(Line)
      /\ Fronted(issueBody, 1, Len(D) + 2, task) /\ Passed(issueBody, {1}, 1)
  BY <1>2, <1>3, <1>4, <1>5, WrittenIs
<1>8. Stands(issueBody, front[1], front[2], task)
  <2>1. /\ 1 \in 1..Len(issueBody) /\ Len(D) + 2 \in (1 + 1)..Len(issueBody)
    BY <1>7, Zenon DEF Fronted
  <2> QED BY <1>6, <1>7, <2>1 DEF Stands
<1>9. prBody \in Seq(Line)
  BY TemplatesAreLines DEF BodiesInit
<1> QED
  BY <1>2, <1>7, <1>8, <1>9 DEF BodiesInv

LEMMA TuplesAre ==
    ASSUME NEW S, NEW a \in S, NEW b \in S, NEW c \in S, NEW d \in S
    PROVE  /\ <<a>> \in Seq(S) /\ Len(<<a>>) = 1 /\ <<a>>[1] = a
           /\ <<a, b, c>> \in Seq(S) /\ Len(<<a, b, c>>) = 3
           /\ <<a, b, c>>[1] = a /\ <<a, b, c>>[2] = b /\ <<a, b, c>>[3] = c
           /\ <<a, b, c, d>> \in Seq(S) /\ Len(<<a, b, c, d>>) = 4
           /\ <<a, b, c, d>>[1] = a /\ <<a, b, c, d>>[2] = b
           /\ <<a, b, c, d>>[3] = c /\ <<a, b, c, d>>[4] = d
OBVIOUS

LEMMA LeadersAre ==
    ASSUME NEW L, L \in {<<Blank>>, <<CommentOpens, Prose, CommentCloses>>,
                         <<CommentOpens, Fence, CommentCloses, Blank>>}
    PROVE  L \in Seq(Line) /\ \E Q : Leads(L, Q)
<1>1. /\ CommentOpens # CommentCloses /\ Prose # CommentCloses /\ Fence # CommentCloses
  BY DEF CommentOpens, CommentCloses, Prose, Fence
<1>2. CASE L = <<Blank>>
  <2>1. L \in Seq(Line) /\ Len(L) = 1 /\ L[1] = Blank
    BY <1>2, TuplesAre, MarksAreLines, Zenon
  <2>2. Leads(L, {1})
    BY <2>1 DEF Leads
  <2> QED BY <2>1, <2>2
<1>3. CASE L = <<CommentOpens, Prose, CommentCloses>>
  <2>1. /\ L \in Seq(Line) /\ Len(L) = 3
        /\ L[1] = CommentOpens /\ L[2] = Prose /\ L[3] = CommentCloses
    BY <1>3, TuplesAre, MarksAreLines, Zenon
  <2>2. Leads(L, {1})
    <3>1. /\ 3 \in 1..Len(L) /\ 3 + 1 \in {1} \cup {Len(L) + 1} /\ 1 \in 1..Len(L)
      BY <2>1
    <3>2. \A k \in 1..(3 - 1) : k = 1 \/ k = 2
      OBVIOUS
    <3>3. \A k \in 1..(3 - 1) : L[k] # CommentCloses
      BY <1>1, <2>1, <3>2, Zenon
    <3> QED BY <2>1, <3>1, <3>3, Zenon DEF Leads
  <2> QED BY <2>1, <2>2
<1>4. CASE L = <<CommentOpens, Fence, CommentCloses, Blank>>
  <2>1. /\ L \in Seq(Line) /\ Len(L) = 4 /\ L[4] = Blank
        /\ L[1] = CommentOpens /\ L[2] = Fence /\ L[3] = CommentCloses
    BY <1>4, TuplesAre, MarksAreLines, Zenon
  <2>2. Leads(L, {1, 4})
    <3>1. /\ 3 \in 1..Len(L) /\ 3 + 1 \in {1, 4} \cup {Len(L) + 1}
          /\ {1, 4} \subseteq 1..Len(L) /\ 4 + 1 \in {1, 4} \cup {Len(L) + 1}
          /\ 1 \in {1, 4}
      BY <2>1
    <3>2. \A k \in 1..(3 - 1) : k = 1 \/ k = 2
      OBVIOUS
    <3>3. \A k \in 1..(3 - 1) : L[k] # CommentCloses
      BY <1>1, <2>1, <3>2, Zenon
    <3>4. \A i \in {1, 4} : i = 1 \/ i = 4
      OBVIOUS
    <3> QED BY <2>1, <3>1, <3>3, <3>4, Zenon DEF Leads
  <2> QED BY <2>1, <2>2
<1> QED
  BY <1>2, <1>3, <1>4

LEMMA BodiesGoOn ==
    ASSUME BodiesInv, [BodiesNext]_bodyVars
    PROVE  BodiesInv'
<1> USE DEF BodiesInv
<1>1. Len(Dumped(task)) \in Nat
  BY DumpedHasLength
<1>2. CASE Prepend
  <2>1. PICK L \in {<<Blank>>, <<CommentOpens, Prose, CommentCloses>>,
                    <<CommentOpens, Fence, CommentCloses, Blank>>} :
           /\ issueBody' = L \o issueBody
           /\ front' = <<front[1] + Len(L), front[2] + Len(L)>>
    BY <1>2, Zenon DEF Prepend
  <2>2. UNCHANGED <<task, untouched, prBody>>
    BY <1>2 DEF Prepend
  <2>3. L \in Seq(Line) /\ \E Q : Leads(L, Q)
    BY LeadersAre
  <2>4. issueBody' \in Seq(Line)
    BY <2>1, <2>3, ConcatIs
  <2>5. front'[1] = front[1] + Len(L) /\ front'[2] = front[2] + Len(L)
    BY <2>1
  <2>6. ASSUME untouched PROVE Stands(issueBody', front'[1], front'[2], task)
    <3>1. PICK Q : Leads(L, Q)
      BY <2>3
    <3>2. Stands(L \o issueBody, front[1] + Len(L), front[2] + Len(L), task)
      BY <1>1, <2>3, <2>6, <3>1, FrontMoved
    <3> QED BY <2>1, <2>5, <3>2
  <2> QED
    BY <2>2, <2>4, <2>6
<1>3. CASE InsertLine
  <2>1. PICK at \in 2..(Len(issueBody) + 1), line \in BodyLines :
           /\ issueBody' = InsertAt(issueBody, at, line)
           /\ untouched' = (untouched /\ at > front[2])
    BY <1>3, Zenon DEF InsertLine
  <2>2. UNCHANGED <<task, front, prBody>>
    BY <1>3 DEF InsertLine
  <2>3. PICK n \in Nat : n = Len(issueBody)
    BY SeqIs, Zenon
  <2>4. line \in Line /\ at \in 1..(n + 1)
    BY <2>1, <2>3, LinesAreWords, StringsAreWords
  <2>5. /\ issueBody' \in Seq(Line) /\ Len(issueBody') = n + 1
        /\ \A k \in 1..(at - 1) : issueBody'[k] = issueBody[k]
    BY <2>1, <2>3, <2>4, InsertKeeps
  <2>6. ASSUME untouched' PROVE Stands(issueBody', front[1], front[2], task)
    <3>1. untouched /\ at > front[2] /\ Stands(issueBody, front[1], front[2], task)
      BY <2>1, <2>6
    <3>2. front[2] \in Nat
      BY <2>3, <3>1 DEF Stands
    <3>3. front[2] <= n + 1 /\ \A k \in 1..front[2] : k \in 1..(at - 1)
      BY <2>4, <3>1, <3>2
    <3> QED BY <1>1, <2>5, <3>1, <3>3, FrontKept
  <2> QED
    BY <2>2, <2>5, <2>6
<1>4. CASE RemoveLine
  <2>1. PICK at \in DOMAIN issueBody :
           /\ issueBody' = RemoveAt(issueBody, at)
           /\ untouched' = (untouched /\ at > front[2])
    BY <1>4, Zenon DEF RemoveLine
  <2>2. UNCHANGED <<task, front, prBody>>
    BY <1>4 DEF RemoveLine
  <2>3. PICK n \in Nat : n = Len(issueBody) /\ DOMAIN issueBody = 1..n
    <3>1. Len(issueBody) \in Nat /\ DOMAIN issueBody = 1..Len(issueBody)
      BY SeqIs, Zenon
    <3> QED BY <3>1
  <2>4. at \in 1..n
    BY <2>1, <2>3
  <2>5. /\ issueBody' \in Seq(Line) /\ Len(issueBody') = n - 1
        /\ \A k \in 1..(at - 1) : issueBody'[k] = issueBody[k]
    BY <2>1, <2>3, <2>4, RemoveKeeps
  <2>6. ASSUME untouched' PROVE Stands(issueBody', front[1], front[2], task)
    <3>1. untouched /\ at > front[2] /\ Stands(issueBody, front[1], front[2], task)
      BY <2>1, <2>6
    <3>2. front[2] \in Nat
      BY <2>3, <3>1 DEF Stands
    <3>3. front[2] <= n - 1 /\ \A k \in 1..front[2] : k \in 1..(at - 1)
      BY <2>4, <3>1, <3>2
    <3> QED BY <1>1, <2>5, <3>1, <3>3, FrontKept
  <2> QED
    BY <2>2, <2>5, <2>6
<1>5. CASE EditDescription
  <2>1. UNCHANGED <<task, issueBody, front, untouched>>
    BY <1>5 DEF EditDescription
  <2>2. prBody' \in Seq(Line)
    <3>1. CASE \E at \in 1..(Len(prBody) + 1), line \in BlockLines :
                  prBody' = InsertAt(prBody, at, line)
      <4>1. PICK at \in 1..(Len(prBody) + 1), line \in BlockLines :
               prBody' = InsertAt(prBody, at, line)
        BY <3>1
      <4>2. line \in Line
        BY LinesAreWords, StringsAreWords
      <4> QED BY <4>1, <4>2, InsertKeeps
    <3>2. CASE \E at \in DOMAIN prBody : prBody' = RemoveAt(prBody, at)
      <4>1. PICK at \in DOMAIN prBody : prBody' = RemoveAt(prBody, at)
        BY <3>2
      <4>2. at \in 1..Len(prBody)
        BY SeqIs, Zenon
      <4> QED BY <4>1, <4>2, RemoveKeeps
    <3> QED BY <1>5, <3>1, <3>2 DEF EditDescription
  <2> QED
    BY <2>1, <2>2
<1>6. CASE UNCHANGED bodyVars
  BY <1>6 DEF bodyVars
<1> QED
  BY <1>2, <1>3, <1>4, <1>5, <1>6 DEF BodiesNext

LEMMA BodiesRead ==
    ASSUME BodiesInv
    PROVE  BodiesReadBack
<1>1. ASSUME untouched, Plain(task)
      PROVE  LET parsed == ParseIssueBody(issueBody)
             IN  /\ parsed.errors = {} /\ parsed.record = task
                 /\ parsed.prose =
                        WithoutBlanks(SubSeq(issueBody, front[2] + 1, Len(issueBody)))
  <2>1. PICK m : m = front[1]
    OBVIOUS
  <2>2. PICK c : c = front[2]
    OBVIOUS
  <2>3. Stands(issueBody, m, c, task) /\ issueBody \in Seq(Line)
    BY <1>1, <2>1, <2>2 DEF BodiesInv
  <2>4. FirstContent(issueBody) = m
    BY <2>3, ContentIs DEF Stands, Fronted
  <2>5. PICK w : w = WithoutBlanks(SubSeq(issueBody, c + 1, Len(issueBody)))
    OBVIOUS
  <2>6. ParseIssueBody(issueBody) = [errors |-> {}, record |-> task, prose |-> w]
    BY <1>1, <2>3, <2>4, <2>5, FrontedReads DEF BodiesInv, Stands
  <2>7. /\ ParseIssueBody(issueBody).errors = {} /\ ParseIssueBody(issueBody).record = task
        /\ ParseIssueBody(issueBody).prose = w
    BY <2>6
  <2> QED
    BY <2>2, <2>5, <2>7, Zenon
<1>2. OnlyTheFrontMatterSpeaks
  BY <1>1, Zenon DEF OnlyTheFrontMatterSpeaks
<1>3. AcceptedBodiesAreTasks
  BY AcceptedReads DEF AcceptedBodiesAreTasks, BodiesInv
<1>4. BlocksAreWhole
  BY BlocksRead DEF BodiesInv
<1> QED
  BY <1>2, <1>3, <1>4 DEF BodiesReadBack

\* Whatever is written above the front matter of an issue or below it, it reads
\* back as the task that it was written from, if that is Plain; an accepted body
\* is a task, and reads the same when its record, if Plain, is written anew; a
\* reduction is read from between two fences of one indentation (serialize.py,
\* intake.py, reduction_record.py).
THEOREM BodiesAlwaysReadBack == BodiesSpec => []BodiesReadBack
<1>1. BodiesInit => BodiesInv
  BY BodiesBegin
<1>2. BodiesInv /\ [BodiesNext]_bodyVars => BodiesInv'
  BY BodiesGoOn
<1>3. BodiesInv => BodiesReadBack
  BY BodiesRead
<1> QED
  BY <1>1, <1>2, <1>3, PTL DEF BodiesSpec
=============================================================================
