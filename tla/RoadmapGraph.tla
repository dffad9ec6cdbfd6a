----------------------------- MODULE RoadmapGraph -----------------------------
(***************************************************************************)
(* roadmap/graph.json and its regeneration from the built source           *)
(* (src/orchestrator/graph/reconcile.py and sync.py).  Contributors'       *)
(* declarations come, go, gain and lose proofs; the orchestrator plans,    *)
(* builds, and folds what the environment says into the plan.              *)
(*                                                                         *)
(* A node's file and kind are left out.  A sync is one step: the one       *)
(* process that runs it owns the checkout.                                 *)
(***************************************************************************)
EXTENDS Naturals, FiniteSets, SequencesExt

CONSTANTS
    Decls,        \* the names of declarations, in the order of `sorted`
    LeafOf,       \* the last segment of each
    QualifiedOf,  \* each with its dots replaced
    PlannedIds,   \* ids that the orchestrator gives to nodes
    Generated,    \* a name of the prover's own, which no source declares
    MaxChanges    \* bound on the changes of source and plan

\* A name of a declaration is not the name of none.
ASSUME DeclsAssumption == Decls \in Seq(STRING \ {""})

VARIABLES
    source,     \* declaration -> [uses, proof], proof is << >> for a placeholder
    built,      \* the source that the artifacts are of
    graph,      \* node id -> node
    synced,     \* the graph was regenerated since source and plan last changed
    changes

graphVars == <<source, built, graph, synced, changes>>

Names == {Decls[k] : k \in DOMAIN Decls}
NoDecl == ""
NoProof == << >>
HasPlaceholder(term) == term.proof = NoProof
ProofUses(term) == IF HasPlaceholder(term) THEN {} ELSE term.proof[1]

-----------------------------------------------------------------------------
(* reconcile.                                                              *)

\* id_of: the node of each declaration that has one.  The plan gives no two
\* nodes one declaration.
NodesOf(nodes, d) == {n \in DOMAIN nodes : nodes[n].decl = d}
Known(nodes) == {d \in Names : NodesOf(nodes, d) # {}}
IdOf(nodes, d) == CHOOSE n \in NodesOf(nodes, d) : TRUE

\* _node_id.
NodeId(d, taken) ==
    LET leaf == <<LeafOf[d]>>
        qualified == <<QualifiedOf[d]>>
        numbered(k) == <<QualifiedOf[d], k>>
    IN  CASE leaf \notin taken -> leaf
          [] leaf \in taken /\ qualified \notin taken -> qualified
          [] OTHER -> numbered(CHOOSE k \in 2..(Cardinality(taken) + 2) :
                /\ numbered(k) \notin taken
                /\ \A j \in 2..(k - 1) : numbered(j) \in taken)

Minted(d, term) ==
    [decl |-> d, upstream |-> FALSE, group |-> FALSE, statement |-> "formalized",
     proof |-> IF HasPlaceholder(term) THEN "planned" ELSE "formalized",
     uses |-> {}, proofUses |-> {}]

\* _mint, of one name and of all.
MintOne(nodes, d, deps) ==
    LET id == NodeId(d, DOMAIN nodes)
    IN  IF d \in DOMAIN deps /\ d \notin Known(nodes)
        THEN [n \in DOMAIN nodes \cup {id} |->
                IF n = id THEN Minted(d, deps[d]) ELSE nodes[n]]
        ELSE nodes
Mint(nodes, deps) == FoldLeft(LAMBDA ns, d : MintOne(ns, d, deps), nodes, Decls)

\* _derivable_fields, of which a proof's is the second.
Derivable(node) == ~node.group /\ ~node.upstream /\ node.statement # "planned"

\* The edges that a list comes to hold.
Wanted(nodes, old, targets) ==
    {IdOf(nodes, t) : t \in targets \cap Known(nodes)}
        \cup {n \in old \cap DOMAIN nodes : nodes[n].upstream}

\* Mutant: a placeholder's route is taken for a stale reading.
RewireAll(nodes, node, term) ==
    [node EXCEPT !.uses = Wanted(nodes, @, term.uses),
                 !.proofUses = Wanted(nodes, @, ProofUses(term))]

Rewire(nodes, node, term) ==
    [node EXCEPT !.uses = Wanted(nodes, @, term.uses),
                 !.proofUses = IF HasPlaceholder(term) THEN @
                               ELSE Wanted(nodes, @, ProofUses(term))]

Reconcile(plan, deps) ==
    LET nodes == Mint(plan, deps)
    IN  [n \in DOMAIN nodes |->
            IF nodes[n].decl \in DOMAIN deps /\ Derivable(nodes[n])
            THEN Rewire(nodes, nodes[n], deps[nodes[n].decl])
            ELSE nodes[n]]

-----------------------------------------------------------------------------
(* What changes.                                                           *)

Empty == [d \in {} |-> 0]

GraphInit ==
    /\ source = Empty /\ built = Empty /\ graph = Empty
    /\ synced = FALSE /\ changes = 0

Changes == changes < MaxChanges /\ changes' = changes + 1 /\ synced' = FALSE

Terms(d) ==
    {[uses |-> u, proof |-> p] :
        u \in {{}} \cup {{x} : x \in (DOMAIN source \cup {Generated}) \ {d}},
        p \in {NoProof} \cup {<<{x}>> : x \in (DOMAIN source \cup {Generated}) \ {d}}}

\* A pull request merges: a declaration is new, or stated or proved anew.
Declare(d) ==
    /\ Changes
    /\ \E t \in Terms(d) :
        source' = [x \in DOMAIN source \cup {d} |-> IF x = d THEN t ELSE source[x]]
    /\ source' # source
    /\ UNCHANGED <<built, graph>>

\* A declaration that nothing uses is removed.
Withdraw(d) ==
    /\ Changes
    /\ d \in DOMAIN source
    /\ \A x \in DOMAIN source : d \notin source[x].uses \cup ProofUses(source[x])
    /\ source' = [x \in DOMAIN source \ {d} |-> source[x]]
    /\ UNCHANGED <<built, graph>>

Build ==
    /\ built # source /\ built' = source
    /\ UNCHANGED <<source, graph, synced, changes>>

\* The orchestrator plans a node, with or without a name for its declaration,
\* or one that stands for a result of the library or for a group.
Plan ==
    /\ Changes
    /\ \E id \in PlannedIds \ DOMAIN graph,
          d \in {NoDecl} \cup (Names \ Known(graph)),
          as \in {"planned", "upstream", "group"} :
        /\ as = "group" => d = NoDecl
        /\ graph' = [n \in DOMAIN graph \cup {id} |->
             IF n = id THEN [decl |-> d, upstream |-> as = "upstream", group |-> as = "group",
                             statement |-> "planned", proof |-> "planned",
                             uses |-> {}, proofUses |-> {}]
             ELSE graph[n]]
    /\ UNCHANGED <<source, built>>

\* It writes an edge: a route to a proof, or a result of the library.
Route ==
    /\ Changes
    /\ \E n, m \in DOMAIN graph :
        /\ n # m
        /\ graph' = [graph EXCEPT ![n].proofUses = @ \cup {m}]
    /\ graph' # graph
    /\ UNCHANGED <<source, built>>

\* It records that planned work has landed.
Record ==
    /\ Changes
    /\ \E n \in DOMAIN graph :
        /\ graph[n].statement = "planned" /\ graph[n].decl \in DOMAIN source
        /\ ~graph[n].upstream
        /\ graph' = [graph EXCEPT ![n].statement = "formalized"]
    /\ UNCHANGED <<source, built>>

\* Mutant: the artifacts are taken as they are.
FreshUnchecked == TRUE

\* require_built.
Fresh == built = source

\* sync_graph, without --check: derive, and write if the text differs.
Sync ==
    /\ Fresh
    /\ graph' = Reconcile(graph, built)
    /\ synced' = TRUE
    /\ UNCHANGED <<source, built, changes>>

GraphNext ==
    \/ \E d \in Names : Declare(d) \/ Withdraw(d)
    \/ Build \/ Plan \/ Route \/ Record \/ Sync

GraphSpec == GraphInit /\ [][GraphNext]_graphVars

-----------------------------------------------------------------------------
(* Properties.                                                             *)

\* sync.py: "the regeneration is idempotent, so a non-empty answer means a
\* merge landed without one".
RegenerationIsIdempotent == synced => Reconcile(graph, source) = graph

\* Once regenerated, the plan holds every declaration of the source, by one
\* node, and its derived edges between declarations are those of the terms of
\* this source, whatever sources were built and regenerated from before.
EdgesAreTheTerms ==
    synced => \A d \in DOMAIN source :
        /\ Cardinality(NodesOf(graph, d)) = 1
        /\ LET node == graph[IdOf(graph, d)]
               ends(edges) == {graph[n].decl : n \in {m \in edges : ~graph[m].upstream}}
               ofPlan(targets) == {t \in targets \cap Known(graph) :
                                        ~graph[IdOf(graph, t)].upstream}
           IN  Derivable(node) =>
                /\ ends(node.uses) = ofPlan(source[d].uses)
                /\ ~HasPlaceholder(source[d]) =>
                        ends(node.proofUses) = ofPlan(ProofUses(source[d]))

\* A regenerated plan stays as it is until source or plan change, and is the
\* plan of this source.
PlanIsTheSource == RegenerationIsIdempotent /\ EdgesAreTheTerms

\* A regeneration writes nothing that no term can answer for: no node goes or
\* changes its declaration or its status, a node that is planned, upstream or
\* a group stays as it is, and no edge to a library result and no route to a
\* proof still owed is lost.
KeepsIntent ==
    graph' = Reconcile(graph, built) =>
        \A n \in DOMAIN graph :
            /\ n \in DOMAIN graph'
            /\ graph'[n].decl = graph[n].decl
            /\ graph'[n].statement = graph[n].statement
            /\ graph'[n].proof = graph[n].proof
            /\ ~Derivable(graph[n]) => graph'[n] = graph[n]
            /\ \A m \in graph[n].proofUses :
                \/ m \in graph'[n].proofUses
                \/ /\ graph[n].decl \in DOMAIN built
                   /\ ~HasPlaceholder(built[graph[n].decl])
                   /\ m \in DOMAIN graph => ~graph[m].upstream
IntentSurvives == [][KeepsIntent]_graphVars
===============================================================================
