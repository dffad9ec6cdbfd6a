---------------------------- MODULE MCOrchestrator ----------------------------
(***************************************************************************)
(* Five parts that share nothing, side by side: the intake workflow with   *)
(* calls that fail ("intake"), the orchestrator's loop ("loop"), the graph *)
(* ("graph"), the overlay ("overlay") and the texts of tasks and pull      *)
(* requests ("bodies").  A behaviour is of one part; the variables of the  *)
(* others keep one value.                                                  *)
(***************************************************************************)
EXTENDS Intake, OrchestratorLoop, OverlayManifest, RoadmapGraph, TaskBodies

CONSTANTS Parts, r1, r2

VARIABLE part

-----------------------------------------------------------------------------
(* What the parts are made of.                                             *)

\* A body that is accepted holds either of two records.
MCRecords == {r1, r2}

\* A repository set up without one of the labels that intake writes.
MCUndefined == {"invalid"}

\* Three declarations: two whose last segments are the same, and one whose
\* name is what the first of them becomes without its dots.
MCDecls == <<"A.c", "A_c", "B.c">>
MCLeafOf == [d \in {"A.c", "A_c", "B.c"} |-> IF d = "A_c" THEN "A_c" ELSE "c"]
MCQualifiedOf == [d \in {"A.c", "A_c", "B.c"} |-> IF d = "B.c" THEN "B_c" ELSE "A_c"]
MCPlannedIds == {<<"c">>, <<"plan">>}

\* Three releases: paths stay, go, come back and change class, b before it goes;
\* x is another prover's.
Rel(managed, seeded) == [managed |-> managed, seeded |-> seeded]
MCReleases == <<Rel({"a", "b", "x"}, {"s", "t"}), Rel({"a", "c", "s", "x"}, {"b"}),
                Rel({"c"}, {"t"})>>

\* What a maintainer asks for: files that need a normalisation, or two, or are
\* refused, and a value of several lines.
Draft(type, file, ref) ==
    [version |-> "1", type |-> type, target_file |-> file, target_decl |-> "c",
     project_ref |-> "here", deps |-> "1", blueprint_ref |-> ref]
MCTaskDrafts == {Draft("prove", "./P.lean", "null"), Draft("golf", "././P.lean", "null"),
                 Draft("prove", "P.lean", "a rule"), Draft("prove", "../P.lean", "null")}
MCProses == {<< >>, << <<"">>, <<"prose">>, <<"---">>, <<"prose">> >>}
MCBodyLines ==
    {<<"---">>, <<"<!--">>, <<"-->">>, <<"prose">>, <<"version", "2">>, <<"type", "nap">>,
     <<"target_file", "././P.lean">>, <<"target_file", "P.v">>,
     <<"project_ref", "elsewhere">>, <<"owner", "me">>, <<"target_decl", "null">>}
MCBlockLines ==
    {<<"prose">>, <<"">>, <<"opener", "", "0">>, <<"opener", "", "4">>,
     <<"closer", "", "0">>, <<"closer", "", "4">>, <<"parent", "d">>,
     <<"children", "none">>, <<"owner", "me">>}

-----------------------------------------------------------------------------
NoIssue ==
    /\ body = Bad /\ labels = {"available"} /\ acks = [r \in Records |-> 0]
    /\ run = NoRun /\ judged = Nothing /\ missed = {} /\ events = 0

NoInstall ==
    /\ disk = 0 /\ manifest = 0 /\ release = 0 /\ pc = "none" /\ left = {}
    /\ edits = 0 /\ deaths = 0 /\ recorded = 0 /\ lost = {} /\ abandoned = FALSE

MCInit ==
    /\ part \in Parts
    /\ IF part = "intake" THEN Init ELSE NoIssue
    /\ LoopWorld
    /\ loopPc = (IF part = "loop" THEN "listing" ELSE "none")
    /\ GraphInit
    /\ IF part = "overlay" THEN OverlayInit ELSE NoInstall
    /\ IF part = "bodies" THEN BodiesInit
       ELSE /\ task = NoRecord /\ issueBody = << >> /\ front = <<1, 1>> /\ untouched = FALSE
            /\ prBody = << >> /\ lineEdits = 0

MCNext ==
    /\ UNCHANGED part
    /\ \/ /\ part = "intake" /\ Next
          /\ UNCHANGED <<loopVars, graphVars, overlayVars, bodyVars>>
       \/ /\ part = "loop" /\ LoopNext
          /\ UNCHANGED <<intakeVars, graphVars, overlayVars, bodyVars>>
       \/ /\ part = "graph" /\ GraphNext
          /\ UNCHANGED <<intakeVars, loopVars, overlayVars, bodyVars>>
       \/ /\ part = "overlay" /\ OverlayNext
          /\ UNCHANGED <<intakeVars, loopVars, graphVars, bodyVars>>
       \/ /\ part = "bodies" /\ BodiesNext
          /\ UNCHANGED <<intakeVars, loopVars, graphVars, overlayVars>>

\* The loop's fairness; where its loopPc is "none" it asks for nothing.
MCSpec ==
    /\ MCInit
    /\ [][MCNext]_<<part, intakeVars, loopVars, graphVars, overlayVars, bodyVars>>
    /\ WF_loopVars(Sweep \/ Merge \/ Poll)

-----------------------------------------------------------------------------
\* Every poll ends, and however sweeps are cut short every label comes to say
\* what its thread says (PollsEnd and BoardCatchesUp of OrchestratorLoop).
LoopGoesOn == PollsEnd /\ BoardCatchesUp
===============================================================================
