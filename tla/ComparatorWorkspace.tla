--------------------------- MODULE ComparatorWorkspace --------------------------
(***************************************************************************)
(* The workspace that the comparator runs in (materialize_workspace of     *)
(* src/gate/verify/comparator_cli.py and the generators of comparator.py): *)
(* base's modules under a prefix, head's modules as they are, and three    *)
(* generated roots, in one tree of modules that import one another.        *)
(*                                                                         *)
(* A module is <<prefix, name>>.  A tree gives each of its modules the set *)
(* of what it imports.                                                     *)
(***************************************************************************)
EXTENDS Naturals, Sequences, FiniteSets

CONSTANTS
    Modules,      \* the modules that a project may have
    External,     \* modules of dependencies, with names that no project has
    RootLibs,     \* the libraries of base's lakefile
    MaxImports,   \* bound on the imports of a module
    MaxWrites     \* bound on the changes of the head

Own(name) == <<"", name>>
Prefixed(name) == <<"ChoirBase", name>>
Challenge == Own("Challenge")
Solution == Own("Solution")
ChoirBase == Own("ChoirBase")

\* A project has no module by the name of a generated root, and a dependency
\* none by the name of a module or a root.
ASSUME ModulesAssumption ==
    /\ IsFiniteSet(Modules) /\ RootLibs \subseteq Modules
    /\ (Modules \cup External) \cap {"Challenge", "Solution", "ChoirBase"} = {}
    /\ Modules \cap External = {}

VARIABLES baseTree, headTree, target, writes

workspaceVars == <<baseTree, headTree, target, writes>>

Imports == {s \in SUBSET ({Own(n) : n \in Modules} \cup {Own(n) : n \in External}) :
                Cardinality(s) <= MaxImports}

-----------------------------------------------------------------------------
(* The generator.                                                          *)

\* rewrite_imports, for the names of base_module_set.
RewriteImports(imports, modules) ==
    {IF i[1] = "" /\ i[2] \in modules THEN Prefixed(i[2]) ELSE i : i \in imports}

\* The head files that materialize_workspace skips.
Skipped(module) ==
    module \in {Challenge, Solution, ChoirBase} \/ module[1] = "ChoirBase"

\* Mutant: the roots import the libraries alone.
OrderedModulesLibs(t) == RootLibs

\* _ordered_modules.
OrderedModules(t) == RootLibs \cup {t}

\* The files in the order in which they are written: each may replace those
\* before it.
BaseFiles ==
    LET names == {m[2] : m \in DOMAIN baseTree}
    IN  [m \in {Prefixed(n) : n \in names} |->
            [side |-> "base", imports |-> RewriteImports(baseTree[Own(m[2])], names)]]
HeadFiles ==
    [m \in {h \in DOMAIN headTree : ~Skipped(h)} |->
        [side |-> "head", imports |-> headTree[m]]]
Roots ==
    [m \in {Challenge, Solution, ChoirBase} |->
        [side |-> "generated",
         imports |-> CASE m = Challenge -> {Prefixed(n) : n \in OrderedModules(target)}
                       [] m = Solution  -> {Own(n) : n \in OrderedModules(target)}
                       [] m = ChoirBase -> {Prefixed(n) : n \in RootLibs}]]

\* materialize_workspace.
MaterializeWorkspace ==
    LET base == BaseFiles  head == HeadFiles  roots == Roots
    IN  [m \in DOMAIN base \cup DOMAIN head \cup DOMAIN roots |->
            CASE m \in DOMAIN roots                              -> roots[m]
              [] m \notin DOMAIN roots /\ m \in DOMAIN head      -> head[m]
              [] OTHER                                          -> base[m]]

-----------------------------------------------------------------------------
(* A project, and what a pull request makes of it.                         *)

WorkspaceInit ==
    /\ baseTree \in UNION {[{Own(n) : n \in s} -> Imports] : s \in SUBSET Modules \ {{}}}
    /\ RootLibs \subseteq {m[2] : m \in DOMAIN baseTree}
    /\ \A m \in DOMAIN baseTree : baseTree[m] \subseteq
          DOMAIN baseTree \cup {Own(n) : n \in External}
    /\ target \in {m[2] : m \in DOMAIN baseTree}
    /\ headTree = baseTree
    /\ writes = 0

\* The head writes a module of any name, a generated or a prefixed one too.
WriteModule ==
    /\ writes < MaxWrites
    /\ writes' = writes + 1
    /\ \E m \in {Own(n) : n \in Modules} \cup {Challenge, Solution, ChoirBase}
                \cup {Prefixed(n) : n \in Modules}, imports \in Imports :
          headTree' = [h \in DOMAIN headTree \cup {m} |->
                          IF h = m THEN imports ELSE headTree[h]]
    /\ UNCHANGED <<baseTree, target>>

RemoveModule ==
    /\ writes < MaxWrites
    /\ writes' = writes + 1
    /\ \E m \in DOMAIN headTree :
          headTree' = [h \in DOMAIN headTree \ {m} |-> headTree[h]]
    /\ UNCHANGED <<baseTree, target>>

WorkspaceNext == WriteModule \/ RemoveModule

WorkspaceSpec == WorkspaceInit /\ [][WorkspaceNext]_workspaceVars

-----------------------------------------------------------------------------
(* Properties.                                                             *)

\* What a module of a workspace imports, directly or not.
Reaches(ws, module) ==
    LET step[n \in 0..Cardinality(DOMAIN ws)] ==
            IF n = 0 THEN {module}
            ELSE LET before == step[n - 1]
                 IN  before \cup UNION {ws[m].imports : m \in before \cap DOMAIN ws}
    IN  step[Cardinality(DOMAIN ws)]

\* Whatever the head tree holds, the challenge is base's: every module that it
\* imports, directly or not, is base's version or a dependency, and none is
\* missing.
ChallengeStandsOnBase ==
    LET ws == MaterializeWorkspace
    IN  \A m \in Reaches(ws, Challenge) \ {Challenge} :
            IF m \in DOMAIN ws THEN ws[m].side = "base" ELSE m[2] \in External /\ m[1] = ""

\* The solution is head's: the target's module and all that it imports under
\* its own names are head's versions, the target's among them.
SolutionStandsOnHead ==
    LET ws == MaterializeWorkspace
    IN  /\ Own(target) \in ws[Solution].imports
        /\ \A m \in Reaches(ws, Solution) \ {Solution} :
            m \in DOMAIN ws /\ ws[m].side = "head" =>
                m \in DOMAIN headTree /\ ws[m].imports = headTree[m]
        /\ \A m \in Reaches(ws, Own(target)) :
            m \in DOMAIN ws /\ m[1] = "" /\ m[2] \in Modules => ws[m].side = "head"

\* The comparator's two sides are built from base alone and from head alone.
SidesStandApart == ChallengeStandsOnBase /\ SolutionStandsOnHead
=============================================================================
