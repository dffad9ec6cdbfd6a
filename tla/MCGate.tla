-------------------------------- MODULE MCGate --------------------------------
(***************************************************************************)
(* The parts of the gate, side by side: a behaviour is of one part and the *)
(* variables of the others keep one value.                                 *)
(***************************************************************************)
EXTENDS Statements, DeclSpans, DeclAudits, AuditJobs, TrustCounts, ComparatorWorkspace,
        GatePolicies, TLC

CONSTANT Parts

VARIABLE part

-----------------------------------------------------------------------------
(* What the parts are made of.                                             *)

MCBeginnings == {<< >>, <<Declaration>>}

\* What one text is made of: each set holds the symbols that one hazard needs.
MCAlphabets ==
    {{BlockOpen, BlockClose, Quote, Escape, NewLine},
     {LineMarker, BlockOpen, BlockClose, Quote, NewLine},
     {CommentMark, Open, Close, Blank, BlockOpen},
     {Open, Close, Quote, Escape, NewLine},
     {Declaration, Quote, NewLine, Proof},
     {Declaration, Open, Close, NewLine, Dot},
     {Declaration, Quote, NewLine, Command, Blank},
     {Declaration, BlockOpen, BlockClose, Proof, NewLine},
     {BlockOpen, BlockClose, Quote, Dot, Blank}}

Draft(scope, leaf, kind, statement, body) ==
    [scope |-> scope, leaf |-> leaf, kind |-> kind, statement |-> statement, body |-> body]
MCDrafts ==
    {Draft("A", "c", "proof", "s1", "hole"), Draft("A", "c", "proof", "s1", "long"),
     Draft("B", "c", "proof", "s1", "hole"), Draft("A", "d", "proof", "s1", "hole"),
     Draft("A", "c", "defn", "s1", "hole"), Draft("A", "c", "defn", "s1", "short"),
     Draft("A", "c", "proof", "unreadable", "hole"),
     Draft("A", "c", "whole", "s1", "short"),
     Draft("A", ":", "proof", "s1", "hole"), Draft("A", ":", "proof", "s2", "hole")}

Project(p, policy, toolchain) == [prover |-> p, policy |-> policy, toolchain |-> toolchain]
MCProjects == {Project("lean4", "block", "current"), Project("isabelle", "report", "current")}
Says(link, block) == [link |-> link, block |-> block]
MCDescriptions == {Says(1, "c"), Says(1, "d"), Says(3, "c")}

\* The two files of a project: sound, absent, or wrong in one place.
Policy(there, toml, axiom, style, choice) ==
    [verify |-> [there |-> there, toml |-> toml, axiom |-> axiom, style |-> style],
     project |-> choice]
MCPolicies ==
    {Policy(FALSE, TRUE, "default", "default", "absent"),
     Policy(TRUE, TRUE, "whitelist", "50", "lean4"),
     Policy(TRUE, TRUE, "whitelist", "unknown", "lean4"),
     Policy(TRUE, TRUE, "net_zero", "default", "isabelle"),
     Policy(TRUE, FALSE, "whitelist", "default", "unknown")}

-----------------------------------------------------------------------------
GateInit ==
    /\ part \in Parts
    /\ IF part = "text" THEN Init ELSE text = << >>
    /\ LeanInit
    /\ IF part = "spans" THEN SpansInit
       ELSE /\ spanProver = "lean4" /\ lines = << >> /\ scopes = << >> /\ paths = << >>
            /\ owners = << >> /\ header = NoScope /\ current = 0
    /\ IF part = "audits" THEN AuditsInit
       ELSE prover = "lean4" /\ base = << >> /\ head = << >> /\ edits = 0
    /\ IF part = "jobs" THEN JobsInit
       ELSE /\ project = Project("lean4", "block", "current") /\ tree = << >>
            /\ commits = << >> /\ description = Says(1, "c") /\ opened = FALSE
            /\ descriptionEdits = 0 /\ edited = FALSE /\ broke = {}
            /\ sorryJob = Queued /\ immutabilityJob = Queued /\ comparatorJob = Queued
    /\ IF part = "counts" THEN ItemsInit
       ELSE /\ auditProver = "lean4" /\ auditPolicy = "net_zero" /\ baseItems = << >>
            /\ headItems = << >> /\ itemEdits = 0
    /\ IF part = "workspace" THEN WorkspaceInit
       ELSE /\ baseTree = (Own("P") :> {}) /\ headTree = baseTree /\ target = "P"
            /\ writes = 0
    /\ IF part = "policies" THEN PoliciesInit
       ELSE /\ audit = "style" /\ linked = FALSE /\ branch = << >> /\ own = 0
            /\ work = {} /\ pushes = 0 /\ since = 0 /\ unread = {} /\ exit = Running

GateNext ==
    /\ UNCHANGED part
    /\ part # "text" => UNCHANGED text
    /\ part # "lean" => UNCHANGED leanVars
    /\ part # "spans" => UNCHANGED spansVars
    /\ part # "audits" => UNCHANGED auditVars
    /\ part # "jobs" => UNCHANGED jobsVars
    /\ part # "counts" => UNCHANGED itemVars
    /\ part # "workspace" => UNCHANGED workspaceVars
    /\ part # "policies" => UNCHANGED policyVars
    /\ \/ part = "text" /\ Next
       \/ part = "lean" /\ LeanNext
       \/ part = "spans" /\ SpansNext
       \/ part = "audits" /\ AuditsNext
       \/ part = "jobs" /\ JobsNext
       \/ part = "counts" /\ ItemsNext
       \/ part = "workspace" /\ WorkspaceNext
       \/ part = "policies" /\ PoliciesNext

GateSpec ==
    GateInit /\ [][GateNext]_<<part, text, leanVars, spansVars, auditVars, jobsVars,
                               itemVars, workspaceVars, policyVars>>
=============================================================================
