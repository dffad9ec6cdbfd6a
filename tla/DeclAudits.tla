------------------------------ MODULE DeclAudits ------------------------------
(***************************************************************************)
(* A file that a worker edits, and the audits of its two versions: the     *)
(* worker edits the head in ways that the contract permits and in ways     *)
(* that it does not (src/gate/verify/statement_immutability.py,            *)
(* sorry_delta.py, style.py, changed_decls.py).                            *)
(***************************************************************************)
EXTENDS FileAudits, SequencesExt

CONSTANTS
    Scopes,      \* what qualifies a name
    Drafts,      \* the declarations a base version may hold
    Leaves,      \* the names that a task may give
    MaxBase,     \* bound on the declarations of the base version
    MaxEdits     \* bound on the edits of the worker

ASSUME DraftsAssumption ==
    /\ Scopes \subseteq STRING \ {"anon"} /\ Drafts \subseteq Declarations
    /\ Anonymous \notin Leaves /\ MaxBase \in Nat

VARIABLES
    prover,     \* isabelle's extractor takes the body of a definition too
    base, head,
    edits

auditVars == <<prover, base, head, edits>>

-----------------------------------------------------------------------------
(* The worker.                                                             *)

AuditsInit ==
    /\ prover \in {"lean4", "isabelle"}
    /\ base \in BoundedSeq(Drafts, MaxBase)
    /\ head = base
    /\ edits = 0

Edit(h) ==
    /\ edits < MaxEdits
    /\ edits' = edits + 1
    /\ head' = h
    /\ UNCHANGED <<prover, base>>

\* A proof filled, shortened or broken, a blueprint filled, or a body that is
\* not the worker's rewritten.
EditBody ==
    \E i \in DOMAIN head, body \in Bodies :
        body # head[i].body /\ Edit([head EXCEPT ![i].body = body])

EditStatement ==
    \E i \in DOMAIN head, s \in Statements :
        s # head[i].statement /\ Edit([head EXCEPT ![i].statement = s])

\* Moved to another scope.
MoveScope ==
    \E i \in DOMAIN head, scope \in Scopes :
        scope # head[i].scope /\ Edit([head EXCEPT ![i].scope = scope])

Delete == \E i \in DOMAIN head : Edit(RemoveAt(head, i))

Swap == Len(head) = 2 /\ Edit(Reverse(head))

AddHelper == \E d \in Drafts : Edit(Append(head, d))

AuditsNext == EditBody \/ EditStatement \/ MoveScope \/ Delete \/ Swap \/ AddHelper

AuditsSpec == AuditsInit /\ [][AuditsNext]_auditVars

-----------------------------------------------------------------------------
(* Properties.                                                             *)

\* What the contract asks of a base declaration b that head's h stands for: a
\* proof may be any, a definition published with a placeholder may be filled.
Kept(b, h) ==
    /\ h.kind = b.kind /\ h.leaf = b.leaf /\ h.statement = b.statement
    /\ b.leaf # Anonymous => h.scope = b.scope
    /\ \/ b.kind = "proof"
       \/ b.kind = "defn" /\ BaseBodyIsPlaceholder(b)
       \/ h.body = b.body

Unique(side, p) ==
    \A i, j \in DOMAIN side : i # j => DeclKey(side[i], p) # DeclKey(side[j], p)

\* A file that passes the immutability audit has every declaration of its base
\* version, each once, as the contract asks: whatever is renamed, duplicated,
\* moved, swapped or added, no change of a statement or of a finished
\* definition hides behind a name.
UnchangedMeansKept ==
    CompareDeclarations(base, head, prover) = "unchanged" =>
        \E m \in Injection(DOMAIN base, DOMAIN head) :
            \A i \in DOMAIN base : Kept(base[i], head[m[i]])

\* Work that keeps the contract is not blocked, where every declaration can be
\* told apart and read: fills, rewritten proofs, helpers, another order.  (Not so
\* of a blueprint of Isabelle's that has no name: it is known by its body.)
PermittedWorkPasses ==
    (/\ Unique(base, prover) /\ Unique(head, prover)
     /\ prover = "isabelle" =>
            \A i \in DOMAIN base : base[i].leaf = Anonymous => base[i].kind # "defn"
     /\ \A i \in DOMAIN base : base[i].statement \in Readable
     /\ \A i \in DOMAIN base : \E j \in DOMAIN head : Kept(base[i], head[j])) =>
        CompareDeclarations(base, head, prover) = "unchanged"

\* "an unchanged text means nothing about that declaration changed, so no
\* extraction is needed to know it": a file whose declarations are all still
\* there passes, also with some that cannot be read or told apart, as long as
\* what is added shares no key with them.
UntouchedFilePasses ==
    (\E m \in Injection(DOMAIN base, DOMAIN head) :
        /\ \A i \in DOMAIN base : head[m[i]] = base[i]
        /\ \A j \in DOMAIN head \ Range(m), i \in DOMAIN base :
            DeclKey(head[j], prover) # DeclKey(base[i], prover)) =>
        CompareDeclarations(base, head, prover) = "unchanged"

\* A reduction that both audits pass proves its target: the target that base
\* has is in head, with its statement, and neither it nor anything that goes
\* by its name has a placeholder; and a placeholder that was not in base
\* under the same name is an obligation that the submission declared, alone
\* of that name.
ReductionProvesTarget ==
    CompareDeclarations(base, head, prover) = "unchanged" =>
        \A target \in Leaves, children \in SUBSET Leaves :
            CompareReduction(base, head, target, children) = "clean" =>
                /\ \A i \in DOMAIN base : base[i].leaf = target =>
                    \E j \in DOMAIN head :
                        /\ CountKey(head[j]) = CountKey(base[i])
                        /\ head[j].kind = base[i].kind
                        /\ head[j].statement = base[i].statement /\ Holes(head[j]) = 0
                /\ \A j \in DOMAIN head : Holes(head[j]) > 0 =>
                    /\ head[j].leaf # target
                    /\ \/ \E i \in DOMAIN base :
                            CountKey(base[i]) = CountKey(head[j]) /\ Holes(base[i]) > 0
                       \/ /\ head[j].leaf \in children
                          /\ \A k \in DOMAIN head : k # j => head[k].leaf # head[j].leaf

\* Under the reduction contract no placeholder moves from one declaration to
\* another: each that head holds beyond those of base's declarations of the
\* same qualified name is an obligation that is new to the file.
NoPlaceholderMoves ==
    \A j \in DOMAIN head : Holes(head[j]) > 0 =>
        \A target \in Leaves, children \in SUBSET Leaves :
            CompareReduction(base, head, target, children) = "clean" =>
                /\ \A k \in DOMAIN head : CountKey(head[k]) = CountKey(head[j]) => k = j
                /\ \/ HolesUnder(base, CountKey(head[j])) > 0
                   \/ /\ \A i \in DOMAIN base : base[i].leaf # head[j].leaf
                      /\ head[j].leaf \in children

\* A declaration that base does not have, under its name and with its statement,
\* is one that the trust report asks the prover about, or the report says that it
\* had more targets than it probed, unless Lean's extractor can take another of
\* the same last segment for it.
RestatedIsProbed ==
    \A i \in DOMAIN head, taken \in 0..Cap :
        (/\ head[i].leaf # Anonymous
         /\ \A j \in NamedAlike(base, head[i], prover) :
                base[j].statement # head[i].statement
         /\ prover = "lean4" => LeafCount(head, head[i].leaf) <= 1
                                /\ LeafCount(base, head[i].leaf) <= 1) =>
            \/ i \in ProbeTargets(base, head, prover, taken)
            \/ Capped(base, head, prover, taken)

\* A file that passes the length check has no long declaration but those that
\* were at least as long, under that name, in base.
LongWasLong ==
    CompareStyle(base, head) = "clean" =>
        \A j \in DOMAIN head : LinesOf(head[j]) > Threshold =>
            \E i \in DOMAIN base :
                base[i].leaf = head[j].leaf /\ LinesOf(base[i]) >= LinesOf(head[j])

\* What the audits of a file let pass: no statement lost or changed; in a
\* reduction, no placeholder moved, none added but as an obligation, and no
\* target left open; no long proof made longer; nothing restated that is neither
\* probed nor said to be cut.  The ordinary contract compares one count of
\* placeholders and lets one move within its file.
AuditsRefuse ==
    /\ UnchangedMeansKept /\ NoPlaceholderMoves /\ ReductionProvesTarget
    /\ LongWasLong /\ RestatedIsProbed

\* What the audits must not refuse: permitted work, and files left alone.
AuditsPermit == PermittedWorkPasses /\ UntouchedFilePasses
=============================================================================
