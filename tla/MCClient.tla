------------------------------ MODULE MCClient ------------------------------
(***************************************************************************)
(* Three parts of the client that share nothing, side by side: two issues  *)
(* of one project worked on from one machine ("workspace"), submissions by *)
(* the owner and a contributor whose fork may lose its name                 *)
(* ("submit"), and claims and updates run from one checkout ("update").  A *)
(* behaviour is of one part.                                               *)
(***************************************************************************)
EXTENDS Workspace, Submission, ChoirUpdate

CONSTANT Parts

VARIABLE part

ClientInit == part \in Parts /\ Init /\ SubmitInit /\ UpdateInit

ClientNext ==
    /\ UNCHANGED part
    /\ \/ part = "workspace" /\ Next /\ UNCHANGED <<submitVars, updVars>>
       \/ part = "submit" /\ SubmitNext /\ UNCHANGED <<vars, updVars>>
       \/ part = "update" /\ UpdateNext /\ UNCHANGED <<vars, submitVars>>

\* Both fairness conditions ask nothing of a process that has not started.
ClientSpec ==
    /\ ClientInit /\ [][ClientNext]_<<part, vars, submitVars, updVars>>
    /\ Fairness
    /\ \A c \in Contributors : WF_submitVars(Submit(c))

-----------------------------------------------------------------------------
\* Every set-up and every submit comes to an end (SetUpsEnd of Workspace and
\* SubmitsEnd of Submission).
CommandsEnd == SetUpsEnd /\ SubmitsEnd
=============================================================================
