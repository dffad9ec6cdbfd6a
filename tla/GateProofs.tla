------------------------------ MODULE GateProofs ------------------------------
(***************************************************************************)
(* Proofs about the gate: by which policy a pull request is judged         *)
(* (GatePolicies), what the comparator's two sides are built from          *)
(* (ComparatorWorkspace), what the axiom and decidability audits count     *)
(* (TrustCounts), what the audits of a file let pass (DeclAudits), and     *)
(* what the jobs of a pull request say together (AuditJobs).               *)
(***************************************************************************)
EXTENDS GatePolicies, ComparatorWorkspace, TrustCounts, DeclAudits, AuditJobs, FoldLemmas

-----------------------------------------------------------------------------
(* GatePolicies: an audit has judged by one of the policies that the       *)
(* branch has had since the head was pushed.                               *)

PoliciesTypeOK ==
    /\ audit \in Audits
    /\ branch \in Seq(Policies)
    /\ since \in 1..Len(branch)

\* The audit has not answered, has not got so far, or judged by a policy that
\* was the branch's at some moment since the push.
OneOfTheBranch ==
    \/ exit = Running
    \/ exit = 2
    \/ \E policy \in InForce, shown \in Shown :
           exit = Main(policy, shown) /\ unread = Unread(shown)

PoliciesInv == PoliciesTypeOK /\ OneOfTheBranch

LEMMA InitPolicies == PoliciesInit => PoliciesInv
<1> SUFFICES ASSUME PoliciesInit PROVE PoliciesInv
  OBVIOUS
<1>1. PICK policy \in Policies : branch = <<policy>>
  BY DEF PoliciesInit
<1>2. Len(branch) = 1 /\ branch \in Seq(Policies)
  BY <1>1
<1> QED
  BY <1>2 DEF PoliciesInit, PoliciesInv, PoliciesTypeOK, OneOfTheBranch

\* Where the branch and the head's push stay, so do the policies in force; a
\* change of the branch only adds one.
LEMMA InForceGrows ==
    ASSUME branch \in Seq(Policies), since \in 1..Len(branch), since' = since,
           branch' = branch \/ \E policy \in Policies : branch' = Append(branch, policy)
    PROVE  InForce \subseteq InForce'
<1>1. ASSUME NEW i \in since..Len(branch)
      PROVE  i \in since..Len(branch') /\ branch'[i] = branch[i]
  <2>1. i \in 1..Len(branch)
    OBVIOUS
  <2> QED
    BY <2>1
<1> QED
  BY <1>1 DEF InForce

LEMMA NextPolicies == PoliciesInv /\ [PoliciesNext]_policyVars => PoliciesInv'
<1> SUFFICES ASSUME PoliciesInv, [PoliciesNext]_policyVars PROVE PoliciesInv'
  OBVIOUS
<1> USE DEF PoliciesInv, PoliciesTypeOK
<1>1. CASE Adds \/ EditsPolicy
  <2>1. Pushed
    BY <1>1 DEF Adds, EditsPolicy
  <2> QED
    BY <2>1 DEF Pushed, OneOfTheBranch
<1>2. CASE Maintain
  <2>1. PICK policy \in Policies : branch' = Append(branch, policy)
    BY <1>2 DEF Maintain
  <2>2. UNCHANGED <<audit, linked, own, work, pushes, since, unread, exit>>
    BY <1>2 DEF Maintain
  <2>3. PoliciesTypeOK'
    BY <2>1, <2>2
  <2>4. InForce \subseteq InForce'
    BY <2>1, <2>2, InForceGrows
  <2>5. ASSUME NEW p \in InForce, NEW shown \in Shown, exit = Main(p, shown)
        PROVE  p \in InForce' /\ exit' = Main(p, shown)'
    BY <2>2, <2>4, <2>5 DEF Main, AxiomMain, DecideMain, StyleMain, EquivMain,
       FoundNew, BaseText, HeadText, CompareStatements
  <2>6. OneOfTheBranch'
    BY <2>2, <2>5, Zenon DEF OneOfTheBranch
  <2> QED
    BY <2>3, <2>6
<1>3. CASE Runs
  <2>1. UNCHANGED <<audit, linked, branch, own, work, pushes, since>>
    BY <1>3 DEF Runs
  <2>2. PoliciesTypeOK'
    BY <2>1
  <2>3. CASE exit' = 2
    BY <2>2, <2>3 DEF OneOfTheBranch
  <2>4. CASE \E shown \in Shown :
               exit' = Main(PolicyAtBase, shown) /\ unread' = Unread(shown)
    <3>1. PICK shown \in Shown :
             exit' = Main(PolicyAtBase, shown) /\ unread' = Unread(shown)
      BY <2>4
    <3>2. Len(branch) \in since..Len(branch)
      BY DEF Audits
    <3>3. PolicyAtBase \in InForce'
      BY <2>1, <3>2 DEF PolicyAtBase, InForce
    <3>4. PICK policy \in InForce' : policy = PolicyAtBase
      BY <3>3
    <3>5. exit' = Main(policy, shown)'
      BY <2>1, <3>1, <3>4 DEF Main, AxiomMain, DecideMain, StyleMain, EquivMain,
         FoundNew, BaseText, HeadText, CompareStatements
    <3> QED
      BY <2>2, <3>1, <3>5 DEF OneOfTheBranch
  <2> QED
    BY <1>3, <2>3, <2>4 DEF Runs
<1>4. CASE UNCHANGED policyVars
  <2>1. UNCHANGED <<audit, linked, branch, work, since, unread, exit>>
    BY <1>4 DEF policyVars
  <2>2. PoliciesTypeOK'
    BY <2>1
  <2>3. InForce \subseteq InForce'
    BY <2>1 DEF InForce
  <2>4. ASSUME NEW p \in InForce, NEW shown \in Shown, exit = Main(p, shown)
        PROVE  p \in InForce' /\ exit' = Main(p, shown)'
    BY <2>1, <2>3, <2>4 DEF Main, AxiomMain, DecideMain, StyleMain, EquivMain,
       FoundNew, BaseText, HeadText, CompareStatements
  <2>5. OneOfTheBranch'
    BY <2>1, <2>4, Zenon DEF OneOfTheBranch
  <2> QED
    BY <2>2, <2>5
<1> QED
  BY <1>1, <1>2, <1>3, <1>4 DEF PoliciesNext

LEMMA PoliciesInvariant == PoliciesSpec => []PoliciesInv
BY InitPolicies, NextPolicies, PTL DEF PoliciesSpec

\* What a side whose files git has shown holds.
LEMMA SidesRead ==
    ASSUME NEW shown \in Shown
    PROVE  /\ shown["base"] \in BOOLEAN /\ shown["head"] \in BOOLEAN
           /\ "base" \notin Unread(shown) => shown["base"] = TRUE
           /\ "head" \notin Unread(shown) => shown["head"] = TRUE
<1>1. "base" \in Sides /\ "head" \in Sides
  BY DEF Sides
<1>2. \A side \in Sides : shown[side] \in BOOLEAN
  BY DEF Shown
<1> QED
  BY <1>1, <1>2 DEF Unread

\* What the audits answer for a policy that names no other prover than Lean,
\* whether git has shown it or not, where it has shown the files of head.
LEMMA GreenOnLean ==
    ASSUME audit \in Audits, NEW policy, IsLean(policy), NEW shown, Main(policy, shown) = 0,
           shown["head"] = TRUE
    PROVE  /\ audit = "axiom" => /\ "axiom" \notin work
                                 /\ "allowed_axiom" \in work => Allows(policy)
           /\ audit = "decide" => "instance" \notin work
           /\ audit = "equiv" /\ linked /\ shown["base"] = TRUE
                /\ "target_removed" \notin work => "restated" \notin work
<1>1. ReadProver(policy, shown["project"]) \in {"lean4", "error"}
  BY DEF ReadProver, IsLean, Provers
<1>0. \A x \in work : x \in {"axiom", "allowed_axiom", "instance"} =>
          x \in FoundNew("lean4", shown)
  BY DEF FoundNew, HeadText, BaseText, Old
<1>2. CASE audit = "axiom"
  <2>1. AxiomMain(policy, shown) = 0
    BY <1>2 DEF Main
  <2>2. ReadProver(policy, shown["project"]) = "lean4"
    BY <1>1, <2>1 DEF AxiomMain
  <2>3. NewAxioms(LoadVerifyConfig(policy, shown["verify"]).axiom,
                  FoundNew("lean4", shown)) = {}
    BY <2>1, <2>2 DEF AxiomMain
  <2>4. "axiom" \notin work
    BY <1>0, <2>3 DEF NewAxioms
  <2>5. ASSUME "allowed_axiom" \in work PROVE Allows(policy)
    <3>1. LoadVerifyConfig(policy, shown["verify"]).axiom = "whitelist"
      BY <1>0, <2>3, <2>5 DEF NewAxioms
    <3>2. policy.verify.there /\ ~Malformed(policy.verify)
      BY <3>1 DEF LoadVerifyConfig, Defaults
    <3>3. policy.verify.axiom = "whitelist"
      BY <3>1, <3>2 DEF LoadVerifyConfig, ParseVerifyConfig, Defaults
    <3> QED
      BY <3>2, <3>3 DEF Allows
  <2> QED
    BY <1>2, <2>4, <2>5
<1>3. CASE audit = "decide"
  <2>1. DecideMain(policy, shown) = 0
    BY <1>3 DEF Main
  <2>2. ReadProver(policy, shown["project"]) = "lean4"
    BY <1>1, <2>1 DEF DecideMain
  <2>3. FoundNew("lean4", shown) \cap {"instance", "old_instance"} = {}
    BY <2>1, <2>2 DEF DecideMain
  <2> QED
    BY <1>0, <1>3, <2>3
<1>4. CASE audit = "style"
  BY <1>4
<1>5. CASE audit = "equiv"
  <2>1. EquivMain(policy, shown) = 0
    BY <1>5 DEF Main
  <2> DEFINE named == ReadProver(policy, shown["project"])
             refuses == named = "error" \/ CompareStatements(named, shown) = "changed"
  <2>2. linked /\ refuses => EquivMain(policy, shown) = 1
    BY Zenon DEF EquivMain
  <2>3. ASSUME linked, shown["base"] = TRUE, "target_removed" \notin work,
               "restated" \in work
        PROVE  refuses
    <3>1. CASE named = "lean4"
      BY <2>3, <3>1 DEF CompareStatements
    <3> QED
      BY <1>1, <3>1
  <2> HIDE DEF refuses
  <2>4. 0 # 1
    OBVIOUS
  <2>5. ~(linked /\ refuses)
    BY <2>1, <2>2, <2>4, Zenon
  <2>6. linked /\ shown["base"] = TRUE /\ "target_removed" \notin work =>
            "restated" \notin work
    BY <2>3, <2>5, Zenon
  <2>7. audit # "axiom" /\ audit # "decide"
    BY <1>5
  <2> QED
    BY <2>6, <2>7, Zenon
<1> QED
  BY <1>2, <1>3, <1>4, <1>5 DEF Audits

\* And what red takes, where git has shown the files of base.
LEMMA RedTakesWork ==
    ASSUME audit \in Audits, NEW policy, NEW shown, Main(policy, shown) = 1,
           shown["base"] = TRUE
    PROVE  \/ work \cap {"axiom", "allowed_axiom", "instance", "restated"} # {}
           \/ audit = "equiv" /\ ReadProver(policy, TRUE) = "error"
<1>0. FoundNew(ReadProver(policy, shown["project"]), shown) \subseteq work \ Old
  BY DEF FoundNew, HeadText, BaseText
<1>1. CASE audit = "axiom"
  <2> DEFINE found == NewAxioms(LoadVerifyConfig(policy, shown["verify"]).axiom,
                                FoundNew(ReadProver(policy, shown["project"]), shown))
  <2>1. AxiomMain(policy, shown) = 1
    BY <1>1 DEF Main
  <2>2. found # {}
    BY <2>1 DEF AxiomMain
  <2>3. found \subseteq work \cap {"axiom", "allowed_axiom"}
    BY <1>0 DEF NewAxioms, Old
  <2> QED
    BY <2>2, <2>3
<1>2. CASE audit = "decide"
  <2>1. DecideMain(policy, shown) = 1
    BY <1>2 DEF Main
  <2>2. FoundNew(ReadProver(policy, shown["project"]), shown)
          \cap {"instance", "old_instance"} # {}
    BY <2>1 DEF DecideMain
  <2>3. "instance" \in work
    BY <1>0, <2>2 DEF Old
  <2> QED
    BY <2>3
<1>3. CASE audit = "style"
  <2>1. StyleMain(policy, shown) = 1
    BY <1>3 DEF Main
  <2>2. FALSE
    BY <2>1 DEF StyleMain
  <2> QED
    BY <2>2
<1>4. CASE audit = "equiv"
  <2>1. \/ ReadProver(policy, shown["project"]) = "error"
        \/ CompareStatements(ReadProver(policy, shown["project"]), shown) = "changed"
    BY <1>4 DEF Main, EquivMain
  <2>2. CASE ReadProver(policy, shown["project"]) = "error"
    BY <1>4, <2>2 DEF ReadProver
  <2>3. CASE CompareStatements(ReadProver(policy, shown["project"]), shown) = "changed"
    BY <2>3 DEF CompareStatements
  <2> QED
    BY <2>1, <2>2, <2>3
<1> QED
  BY <1>1, <1>2, <1>3, <1>4 DEF Audits

LEMMA PoliciesJudge == PoliciesInv => JudgedByTheBranch
<1> SUFFICES ASSUME PoliciesInv PROVE JudgedByTheBranch
  OBVIOUS
<1>0. audit \in Audits
  BY DEF PoliciesInv, PoliciesTypeOK
<1>1. ASSUME exit \in {0, 1}
      PROVE  \E policy \in InForce, shown \in Shown :
                exit = Main(policy, shown) /\ unread = Unread(shown)
  BY <1>1 DEF PoliciesInv, OneOfTheBranch, Running
<1>2. NothingIsLetThrough
  <2> SUFFICES ASSUME exit = 0, "head" \notin unread,
                      \A policy \in InForce : IsLean(policy)
               PROVE  /\ audit = "axiom" =>
                          /\ "axiom" \notin work
                          /\ "allowed_axiom" \in work => \E policy \in InForce : Allows(policy)
                      /\ audit = "decide" => "instance" \notin work
                      /\ audit = "equiv" /\ linked /\ "base" \notin unread
                           /\ "target_removed" \notin work => "restated" \notin work
    BY DEF NothingIsLetThrough
  <2>1. PICK policy \in InForce, shown \in Shown :
           exit = Main(policy, shown) /\ unread = Unread(shown)
    BY <1>1
  <2>2. Main(policy, shown) = 0 /\ IsLean(policy)
    BY <2>1
  <2>3. shown["head"] = TRUE /\ ("base" \notin unread => shown["base"] = TRUE)
    BY <2>1, SidesRead
  <2> QED
    BY <1>0, <2>1, <2>2, <2>3, GreenOnLean
<1>3. RedIsTheContributors
  <2> SUFFICES ASSUME exit = 1, "base" \notin unread
               PROVE  \/ work \cap {"axiom", "allowed_axiom", "instance", "restated"} # {}
                      \/ audit = "equiv" /\ \E policy \in InForce :
                                                ReadProver(policy, TRUE) = "error"
    BY DEF RedIsTheContributors
  <2>1. PICK policy \in InForce, shown \in Shown :
           exit = Main(policy, shown) /\ unread = Unread(shown)
    BY <1>1
  <2>2. Main(policy, shown) = 1
    BY <2>1
  <2>3. shown["base"] = TRUE
    BY <2>1, SidesRead
  <2> QED
    BY <1>0, <2>1, <2>2, <2>3, RedTakesWork
<1> QED
  BY <1>2, <1>3 DEF JudgedByTheBranch

\* config.py, "A contributor can't loosen the audit policy in their own PR": for
\* whatever policies branch and head have, an audit that passes and could read
\* the files of head found nothing that the branch did not allow at some moment
\* since the push, and one that fails and could read those of base found
\* something of the contributor's.
THEOREM JudgedByTheBranchHolds == PoliciesSpec => []JudgedByTheBranch
BY PoliciesInvariant, PoliciesJudge, PTL

-----------------------------------------------------------------------------
(* ComparatorWorkspace: what is reached from a module stays in any set     *)
(* that holds it and is closed under the imports.                          *)

ImportsClosed(ws, S) == \A m \in S \cap DOMAIN ws : ws[m].imports \subseteq S

LEMMA ReachesWithin ==
    ASSUME NEW ws, IsFiniteSet(DOMAIN ws), NEW module, NEW S, module \in S,
           ImportsClosed(ws, S)
    PROVE  Reaches(ws, module) \subseteq S
<1> DEFINE K == Cardinality(DOMAIN ws)
           Grown(T) == T \cup UNION {ws[m].imports : m \in T \cap DOMAIN ws}
           U == {module} \cup UNION {ws[m].imports : m \in DOMAIN ws}
           g == [T \in SUBSET U |-> Grown(T)]
           Steps(f) == [n \in 0..K |-> IF n = 0 THEN {module} ELSE Grown(f[n - 1])]
           step == CHOOSE f : f = Steps(f)
<1>1. Reaches(ws, module) = step[K]
  BY DEF Reaches
<1>2. K \in Nat
  BY FS_CardinalityType
<1>3. g \in [SUBSET U -> SUBSET U] /\ {module} \in SUBSET U
  OBVIOUS
<1>4. PICK f \in [0..K -> SUBSET U] : f[0] = {module} /\ \A n \in 1..K : f[n] = g[f[n - 1]]
  <2> DEFINE V == SUBSET U
             x == {module}
  <2>1. K \in Nat /\ g \in [V -> V] /\ x \in V
    BY <1>2, <1>3
  <2> HIDE DEF K, U, g, V, x
  <2>2. \E f \in [0..K -> V] : f[0] = x /\ \A n \in 1..K : f[n] = g[f[n - 1]]
    BY <2>1, IterationExists, SMTT(30)
  <2> QED
    BY <2>2, Zenon DEF V, x
<1>5. f = Steps(f)
  <2>1. \A n \in 1..K : f[n] = Grown(f[n - 1])
    <3>1. \A n \in 1..K : f[n - 1] \in SUBSET U
      BY <1>2
    <3> QED
      BY <1>4, <3>1
  <2>2. \A n \in 0..K : n = 0 \/ n \in 1..K
    BY <1>2
  <2>3. \A n \in 0..K : f[n] = Steps(f)[n]
    <3> HIDE DEF K, Grown
    <3> QED BY <1>4, <2>1, <2>2
  <2>4. DOMAIN f = 0..K /\ DOMAIN Steps(f) = 0..K
    OBVIOUS
  <2> HIDE DEF Steps
  <2>5. Steps(f) = [n \in 0..K |-> Steps(f)[n]]
    BY DEF Steps
  <2> QED
    BY <2>3, <2>4, <2>5
<1>6. step = Steps(step)
  <2>1. \E h : h = Steps(h)
    BY <1>5
  <2> HIDE DEF Steps
  <2> QED BY <2>1
<1>7. /\ step[0] = {module}
      /\ \A n \in 1..K : step[n] = Grown(step[n - 1])
  <2> HIDE DEF step, K, Grown
  <2>1. \A n \in 0..K : step[n] = IF n = 0 THEN {module} ELSE Grown(step[n - 1])
    BY <1>6, Zenon
  <2> QED
    BY <1>2, <2>1
<1> DEFINE Inside == {n \in Nat : n <= K => step[n] \subseteq S}
<1>8. 0 \in Inside
  <2> HIDE DEF step
  <2> QED BY <1>7
<1>9. ASSUME NEW n \in Nat, n \in Inside PROVE n + 1 \in Inside
  <2> SUFFICES ASSUME n + 1 <= K PROVE step[n + 1] \subseteq S
    OBVIOUS
  <2>1. step[n] \subseteq S
    BY <1>2, <1>9
  <2>2. n + 1 \in 1..K /\ (n + 1) - 1 = n
    BY <1>2
  <2>3. step[n + 1] = Grown(step[n])
    <3> HIDE DEF step, K, Grown
    <3> QED BY <1>7, <2>2
  <2> HIDE DEF step
  <2> QED
    BY <2>1, <2>3 DEF ImportsClosed
<1>10. Nat \subseteq Inside
  <2> HIDE DEF Inside
  <2> QED BY <1>8, <1>9, SetInduction
<1>11. step[K] \subseteq S
  <2> HIDE DEF step
  <2> QED BY <1>2, <1>10
<1> QED
  BY <1>1, <1>11

-----------------------------------------------------------------------------
(* ComparatorWorkspace: what trees there are.                              *)

BaseNames == {m[2] : m \in DOMAIN baseTree}
GeneratedRoots == {Challenge, Solution, ChoirBase}
OwnNames == {Own(n) : n \in Modules}
Dependencies == {Own(n) : n \in External}

BaseTreeOK ==
    /\ IsFiniteSet(DOMAIN baseTree) /\ DOMAIN baseTree \subseteq OwnNames
    /\ \A m \in DOMAIN baseTree : baseTree[m] \subseteq DOMAIN baseTree \cup Dependencies
    /\ RootLibs \subseteq BaseNames /\ target \in BaseNames

HeadTreeOK ==
    /\ IsFiniteSet(DOMAIN headTree)
    /\ DOMAIN headTree \subseteq
          OwnNames \cup GeneratedRoots \cup {Prefixed(n) : n \in Modules}

TreesOK == BaseTreeOK /\ HeadTreeOK

LEMMA InitTrees == WorkspaceInit => TreesOK
<1> SUFFICES ASSUME WorkspaceInit PROVE TreesOK
  OBVIOUS
<1>1. PICK s \in SUBSET Modules : baseTree \in [{Own(n) : n \in s} -> Imports]
  BY DEF WorkspaceInit
<1>2. DOMAIN baseTree = {Own(n) : n \in s}
  BY <1>1
<1>3. IsFiniteSet(DOMAIN baseTree)
  <2> DEFINE naming == [n \in s |-> Own(n)]
  <2>1. IsFiniteSet(s)
    BY ModulesAssumption, FS_Subset
  <2>2. naming \in Surjection(s, DOMAIN baseTree)
    BY <1>2 DEF Surjection
  <2> HIDE DEF naming
  <2> QED
    BY <2>1, <2>2, FS_Surjection
<1>4. BaseTreeOK
  BY <1>2, <1>3 DEF WorkspaceInit, BaseTreeOK, BaseNames, OwnNames, Dependencies
<1>5. HeadTreeOK
  BY <1>4 DEF WorkspaceInit, BaseTreeOK, HeadTreeOK
<1> QED
  BY <1>4, <1>5 DEF TreesOK

LEMMA NextTrees == TreesOK /\ [WorkspaceNext]_workspaceVars => TreesOK'
<1> SUFFICES ASSUME TreesOK, [WorkspaceNext]_workspaceVars PROVE TreesOK'
  OBVIOUS
<1>1. baseTree' = baseTree /\ target' = target
  BY DEF WorkspaceNext, WriteModule, RemoveModule, workspaceVars
<1>2. BaseTreeOK'
  BY <1>1 DEF TreesOK, BaseTreeOK, BaseNames
<1>3. CASE WriteModule
  <2>1. PICK m \in OwnNames \cup GeneratedRoots \cup {Prefixed(n) : n \in Modules} :
            DOMAIN headTree' = DOMAIN headTree \cup {m}
    BY <1>3 DEF WriteModule, OwnNames, GeneratedRoots
  <2>2. IsFiniteSet(DOMAIN headTree')
    BY <2>1, FS_AddElement DEF TreesOK, HeadTreeOK
  <2> QED
    BY <1>2, <2>1, <2>2 DEF TreesOK, HeadTreeOK
<1>4. CASE RemoveModule
  <2>1. DOMAIN headTree' \subseteq DOMAIN headTree
    BY <1>4 DEF RemoveModule
  <2>2. IsFiniteSet(DOMAIN headTree')
    BY <2>1, FS_Subset DEF TreesOK, HeadTreeOK
  <2> QED
    BY <1>2, <2>1, <2>2 DEF TreesOK, HeadTreeOK
<1>5. CASE UNCHANGED workspaceVars
  BY <1>2, <1>5 DEF workspaceVars, TreesOK, HeadTreeOK
<1> QED
  BY <1>3, <1>4, <1>5 DEF WorkspaceNext

LEMMA TreesInvariant == WorkspaceSpec => []TreesOK
BY InitTrees, NextTrees, PTL DEF WorkspaceSpec

-----------------------------------------------------------------------------
(* What the workspace holds, file by file.                                 *)

\* The three kinds of names are apart, and so are names and their images.
LEMMA NamesApart ==
    /\ \A n : /\ Own(n)[1] = "" /\ Own(n)[2] = n
              /\ Prefixed(n)[1] = "ChoirBase" /\ Prefixed(n)[2] = n
              /\ Skipped(Prefixed(n)) /\ Prefixed(n) \notin GeneratedRoots
    /\ \A n \in Modules \cup External : Own(n) \notin GeneratedRoots
<1>1. \A n \in Modules \cup External : n # "Challenge" /\ n # "Solution" /\ n # "ChoirBase"
  BY ModulesAssumption
<1> QED
  BY <1>1 DEF Own, Prefixed, Skipped, GeneratedRoots, Challenge, Solution, ChoirBase

LEMMA OwnsApart == \A n, m : n # m => Own(n)[2] # Own(m)[2]
<1>1. \A n : Own(n)[2] = n
  BY NamesApart
<1> QED
  BY <1>1

KeptOfHead == {h \in DOMAIN headTree : ~Skipped(h)}
PrefixedBase == {Prefixed(n) : n \in BaseNames}

\* Each file is of one side, wherever the head wrote.
FilesBySide(ws) ==
    /\ DOMAIN ws = PrefixedBase \cup KeptOfHead \cup GeneratedRoots
    /\ IsFiniteSet(DOMAIN ws)
    /\ KeptOfHead \subseteq OwnNames
    /\ \A n \in BaseNames :
        /\ ws[Prefixed(n)].side = "base"
        /\ ws[Prefixed(n)].imports = RewriteImports(baseTree[Own(n)], BaseNames)
    /\ \A m \in KeptOfHead : ws[m].side = "head" /\ ws[m].imports = headTree[m]
    /\ \A m \in GeneratedRoots : ws[m].side = "generated"
    /\ ws[Challenge].imports = {Prefixed(n) : n \in OrderedModules(target)}
    /\ ws[Solution].imports = {Own(n) : n \in OrderedModules(target)}

LEMMA FilesOfTheWorkspace ==
    ASSUME TreesOK, NEW ws, ws = MaterializeWorkspace
    PROVE  FilesBySide(ws)
<1>1. /\ DOMAIN BaseFiles = PrefixedBase
      /\ \A n \in BaseNames :
            /\ BaseFiles[Prefixed(n)].side = "base"
            /\ BaseFiles[Prefixed(n)].imports = RewriteImports(baseTree[Own(n)], BaseNames)
  BY NamesApart DEF BaseFiles, PrefixedBase, BaseNames
<1>2. /\ DOMAIN HeadFiles = KeptOfHead
      /\ \A m \in KeptOfHead :
            HeadFiles[m].side = "head" /\ HeadFiles[m].imports = headTree[m]
  BY DEF HeadFiles, KeptOfHead
<1>3. /\ DOMAIN Roots = GeneratedRoots
      /\ \A m \in GeneratedRoots : Roots[m].side = "generated"
  BY DEF Roots, GeneratedRoots
<1> DEFINE ofRoot(m) ==
            CASE m = Challenge -> {Prefixed(n) : n \in OrderedModules(target)}
              [] m = Solution  -> {Own(n) : n \in OrderedModules(target)}
              [] m = ChoirBase -> {Prefixed(n) : n \in RootLibs}
<1>8. ASSUME NEW m \in GeneratedRoots PROVE Roots[m].imports = ofRoot(m)
  <2>1. Roots[m] = [side |-> "generated", imports |-> ofRoot(m)]
    BY Zenon DEF Roots, GeneratedRoots
  <2> HIDE DEF ofRoot
  <2> QED
    BY <2>1
<1>9. Challenge # Solution /\ Challenge # ChoirBase /\ Solution # ChoirBase
  BY DEF Challenge, Solution, ChoirBase, Own
<1>10. /\ Roots[Challenge].imports = {Prefixed(n) : n \in OrderedModules(target)}
       /\ Roots[Solution].imports = {Own(n) : n \in OrderedModules(target)}
  BY <1>8, <1>9 DEF GeneratedRoots
<1>4. KeptOfHead \subseteq OwnNames
  <2>1. \A m \in GeneratedRoots : Skipped(m)
    BY DEF Skipped, GeneratedRoots
  <2>2. \A m \in {Prefixed(n) : n \in Modules} : Skipped(m)
    BY NamesApart
  <2> QED
    BY <2>1, <2>2 DEF TreesOK, HeadTreeOK, KeptOfHead
<1>5. KeptOfHead \cap GeneratedRoots = {} /\ PrefixedBase \cap GeneratedRoots = {}
      /\ PrefixedBase \cap KeptOfHead = {}
  <2>1. \A m \in GeneratedRoots : Skipped(m)
    BY DEF Skipped, GeneratedRoots
  <2>2. \A m \in PrefixedBase : Skipped(m) /\ m \notin GeneratedRoots
    BY NamesApart DEF PrefixedBase
  <2> QED
    BY <2>1, <2>2 DEF KeptOfHead
<1>6. /\ DOMAIN ws = PrefixedBase \cup KeptOfHead \cup GeneratedRoots
      /\ \A m \in GeneratedRoots : ws[m] = Roots[m]
      /\ \A m \in KeptOfHead : m \notin GeneratedRoots => ws[m] = HeadFiles[m]
      /\ \A m \in PrefixedBase : m \notin GeneratedRoots /\ m \notin KeptOfHead =>
            ws[m] = BaseFiles[m]
  BY <1>1, <1>2, <1>3 DEF MaterializeWorkspace
<1>7. IsFiniteSet(DOMAIN ws)
  <2>1. IsFiniteSet(DOMAIN baseTree) /\ IsFiniteSet(DOMAIN headTree)
    BY DEF TreesOK, BaseTreeOK, HeadTreeOK
  <2>2. IsFiniteSet(PrefixedBase)
    <3> DEFINE name == [m \in DOMAIN baseTree |-> Prefixed(m[2])]
    <3>1. name \in Surjection(DOMAIN baseTree, PrefixedBase)
      BY DEF Surjection, PrefixedBase, BaseNames
    <3> HIDE DEF name
    <3> QED
      BY <2>1, <3>1, FS_Surjection
  <2>3. IsFiniteSet(KeptOfHead)
    BY <2>1, FS_Subset DEF KeptOfHead
  <2>4. IsFiniteSet(GeneratedRoots)
    <3>1. IsFiniteSet({Challenge}) /\ IsFiniteSet({Solution}) /\ IsFiniteSet({ChoirBase})
      BY FS_Singleton
    <3>2. GeneratedRoots = ({Challenge} \cup {Solution}) \cup {ChoirBase}
      BY DEF GeneratedRoots
    <3> QED
      BY <3>1, <3>2, FS_Union, Zenon
  <2>5. IsFiniteSet(PrefixedBase \cup KeptOfHead)
    BY <2>2, <2>3, FS_Union
  <2> QED
    BY <1>6, <2>4, <2>5, FS_Union
<1>15. \A n \in BaseNames : Prefixed(n) \in PrefixedBase
  BY DEF PrefixedBase
<1>11. \A n \in BaseNames :
        /\ ws[Prefixed(n)].side = "base"
        /\ ws[Prefixed(n)].imports = RewriteImports(baseTree[Own(n)], BaseNames)
  <2>1. \A n \in BaseNames : ws[Prefixed(n)] = BaseFiles[Prefixed(n)]
    BY <1>5, <1>6, <1>15
  <2> QED
    BY <1>1, <2>1
<1>12. \A m \in KeptOfHead : ws[m].side = "head" /\ ws[m].imports = headTree[m]
  BY <1>2, <1>5, <1>6
<1>13. \A m \in GeneratedRoots : ws[m].side = "generated"
  BY <1>3, <1>6
<1>14. ws[Challenge] = Roots[Challenge] /\ ws[Solution] = Roots[Solution]
  BY <1>6 DEF GeneratedRoots
<1> QED
  BY <1>4, <1>6, <1>7, <1>10, <1>11, <1>12, <1>13, <1>14, Zenon DEF FilesBySide

-----------------------------------------------------------------------------
(* Each side stands on its own files.                                      *)

\* What a base module imports in the workspace is base's, or a dependency.
LEMMA RewrittenStayInBase ==
    ASSUME BaseTreeOK, NEW n \in BaseNames
    PROVE  RewriteImports(baseTree[Own(n)], BaseNames) \subseteq PrefixedBase \cup Dependencies
<1>1. PICK m \in DOMAIN baseTree : m[2] = n
  BY DEF BaseNames
<1>2. PICK k \in Modules : m = Own(k)
  BY <1>1 DEF BaseTreeOK, OwnNames
<1>3. m = Own(n)
  BY <1>1, <1>2, NamesApart
<1>4. SUFFICES ASSUME NEW i \in baseTree[m]
               PROVE  (IF i[1] = "" /\ i[2] \in BaseNames THEN Prefixed(i[2]) ELSE i)
                        \in PrefixedBase \cup Dependencies
  BY <1>3 DEF RewriteImports
<1>5. i \in DOMAIN baseTree \/ i \in Dependencies
  BY <1>1 DEF BaseTreeOK
<1>6. CASE i \in DOMAIN baseTree
  <2>1. PICK j \in Modules : i = Own(j)
    BY <1>6 DEF BaseTreeOK, OwnNames
  <2>2. i[1] = "" /\ i[2] \in BaseNames
    BY <1>6, <2>1, NamesApart DEF BaseNames
  <2> QED
    BY <2>2 DEF PrefixedBase
<1>7. CASE i \in Dependencies
  BY <1>7 DEF PrefixedBase
<1> QED
  BY <1>5, <1>6, <1>7

LEMMA ChallengeHolds == TreesOK => ChallengeStandsOnBase
<1> SUFFICES ASSUME TreesOK PROVE ChallengeStandsOnBase
  OBVIOUS
<1> DEFINE S == {Challenge} \cup PrefixedBase \cup Dependencies
<1>1. PICK ws : ws = MaterializeWorkspace
  OBVIOUS
<1>2. FilesBySide(ws)
  BY <1>1, FilesOfTheWorkspace
<1> USE DEF FilesBySide
<1>3. Dependencies \cap DOMAIN ws = {}
  <2>1. ASSUME NEW e \in External PROVE Own(e) \notin DOMAIN ws
    <3>1. Own(e) \notin PrefixedBase /\ Own(e) \notin GeneratedRoots
      BY NamesApart DEF PrefixedBase
    <3>2. Own(e) \notin OwnNames
      <4>1. \A n \in Modules : n # e
        BY ModulesAssumption
      <4>2. \A n \in Modules : Own(n)[2] # Own(e)[2]
        BY <4>1, OwnsApart
      <4> QED
        BY <4>2 DEF OwnNames
    <3> QED
      BY <1>2, <3>1, <3>2
  <2> QED
    BY <2>1 DEF Dependencies
<1>4. ImportsClosed(ws, S)
  <2>1. ws[Challenge].imports \subseteq S
    <3>2. OrderedModules(target) \subseteq BaseNames
      BY DEF OrderedModules, TreesOK, BaseTreeOK
    <3> QED
      BY <1>2, <3>2 DEF PrefixedBase
  <2>2. ASSUME NEW n \in BaseNames PROVE ws[Prefixed(n)].imports \subseteq S
    <3>1. ws[Prefixed(n)].imports = RewriteImports(baseTree[Own(n)], BaseNames)
      BY <1>2
    <3> QED
      BY <3>1, RewrittenStayInBase DEF TreesOK
  <2>3. ASSUME NEW m \in S \cap DOMAIN ws PROVE m = Challenge \/ m \in PrefixedBase
    BY <1>3
  <2> QED
    BY <2>1, <2>2, <2>3 DEF ImportsClosed, PrefixedBase
<1>5. Reaches(ws, Challenge) \subseteq S
  <2>1. Challenge \in S
    OBVIOUS
  <2> HIDE DEF S
  <2> QED
    BY <1>2, <1>4, <2>1, ReachesWithin
<1>6. ASSUME NEW m \in S \ {Challenge}
      PROVE  IF m \in DOMAIN ws THEN ws[m].side = "base" ELSE m[2] \in External /\ m[1] = ""
  <2>1. CASE m \in PrefixedBase
    <3>1. m \in DOMAIN ws
      BY <1>2, <2>1
    <3>2. ws[m].side = "base"
      BY <1>2, <2>1 DEF PrefixedBase
    <3> QED
      BY <3>1, <3>2
  <2>2. CASE m \in Dependencies
    <3>1. m \notin DOMAIN ws
      BY <1>3, <2>2
    <3>2. m[2] \in External /\ m[1] = ""
      <4>1. PICK e \in External : m = Own(e)
        BY <2>2 DEF Dependencies
      <4> QED
        BY <4>1, NamesApart
    <3> QED
      BY <3>1, <3>2
  <2> QED
    BY <2>1, <2>2
<1>7. \A m \in Reaches(ws, Challenge) \ {Challenge} :
        IF m \in DOMAIN ws THEN ws[m].side = "base" ELSE m[2] \in External /\ m[1] = ""
  <2> HIDE DEF S
  <2> QED BY <1>5, <1>6
<1> QED
  BY <1>1, <1>7 DEF ChallengeStandsOnBase

LEMMA SolutionHolds == TreesOK => SolutionStandsOnHead
<1> SUFFICES ASSUME TreesOK PROVE SolutionStandsOnHead
  OBVIOUS
<1>1. PICK ws : ws = MaterializeWorkspace
  OBVIOUS
<1>2. FilesBySide(ws)
  BY <1>1, FilesOfTheWorkspace
<1> USE DEF FilesBySide
<1>3. Own(target) \in ws[Solution].imports
  BY <1>2 DEF OrderedModules
<1>4. ASSUME NEW m \in DOMAIN ws, ws[m].side = "head"
      PROVE  m \in DOMAIN headTree /\ ws[m].imports = headTree[m]
  <2>1. m \in KeptOfHead
    BY <1>2, <1>4 DEF PrefixedBase
  <2> QED
    BY <1>2, <2>1 DEF KeptOfHead
<1>5. ASSUME NEW m \in DOMAIN ws, m[1] = "", m[2] \in Modules
      PROVE  ws[m].side = "head"
  <2>1. m \notin PrefixedBase
    BY <1>5, NamesApart DEF PrefixedBase
  <2>2. m \notin GeneratedRoots
    <3>1. \A r \in GeneratedRoots : r[2] \in {"Challenge", "Solution", "ChoirBase"}
      BY NamesApart DEF GeneratedRoots, Challenge, Solution, ChoirBase
    <3> QED
      BY <1>5, <3>1, ModulesAssumption
  <2> QED
    BY <1>2, <2>1, <2>2
<1> QED
  BY <1>1, <1>3, <1>4, <1>5 DEF SolutionStandsOnHead

\* comparator.py builds the two sides of the comparison apart: for every project
\* and whatever modules the head writes or removes, under the names of the
\* generated roots and of base's copies too, the challenge stands on base's
\* versions alone and the solution on head's.
THEOREM SidesStandApartHolds == WorkspaceSpec => []SidesStandApart
<1>1. TreesOK => SidesStandApart
  BY ChallengeHolds, SolutionHolds DEF SidesStandApart
<1> QED
  BY <1>1, TreesInvariant, PTL

-----------------------------------------------------------------------------
(* TrustCounts: a file's text is its items' texts end to end, and no       *)
(* instance's header reaches past the `:=` of its own item.                *)

\* What a text is made of.
Toks == {"instance", "line break", "Decidable", ":=", "where"}

\* Decidable is read in the instance's own header: before its `:=` and before
\* the next instance.
Heads(text, i) ==
    /\ text[i] = "instance"
    /\ \E j \in i..Len(text) :
        text[j] = "Decidable" /\ \A m \in (i + 1)..j : text[m] \notin {":=", "instance"}

\* The span up to HeaderEnd holds Decidable where the header does.
LEMMA HeaderIs ==
    ASSUME NEW text \in Seq(Toks), NEW i \in 1..Len(text)
    PROVE  (text[i] = "instance"
               /\ \E j \in i..HeaderEnd(text, i) : text[j] = "Decidable") <=> Heads(text, i)
<1> DEFINE stops == {j \in (i + 1)..Len(text) : text[j] \in {":=", "instance"}}
<1>1. Len(text) \in Nat
  OBVIOUS
<1>2. CASE stops = {}
  <2>1. HeaderEnd(text, i) = Len(text)
    BY <1>2 DEF HeaderEnd
  <2>2. \A m \in (i + 1)..Len(text) : text[m] \notin {":=", "instance"}
    BY <1>2
  <2>3. \A j \in i..Len(text) : \A m \in (i + 1)..j : m \in (i + 1)..Len(text)
    BY <1>1
  <2> QED
    BY <2>1, <2>2, <2>3, Zenon DEF Heads
<1>3. CASE stops # {}
  <2>1. PICK s : s = Min(stops)
    OBVIOUS
  <2>2. s \in stops /\ \A x \in stops : s <= x
    <3>1. stops \in SUBSET Nat
      BY <1>1
    <3>2. \E x \in stops : \A y \in stops : x <= y
      <4> HIDE DEF stops
      <4> QED BY <1>3, <3>1, LeastNat
    <3> HIDE DEF stops
    <3> QED BY <2>1, <3>2 DEF Min
  <2>3. HeaderEnd(text, i) = s - 1
    BY <1>3, <2>1 DEF HeaderEnd
  <2>4. s \in (i + 1)..Len(text) /\ text[s] \in {":=", "instance"}
    BY <2>2
  <2>5. ASSUME NEW j \in i..(s - 1), NEW m \in (i + 1)..j
        PROVE  text[m] \notin {":=", "instance"}
    <3>1. m \in (i + 1)..Len(text) /\ m < s
      BY <1>1, <2>4
    <3> QED
      BY <2>2, <3>1, <2>4
  <2>6. ASSUME NEW j \in i..Len(text),
               \A m \in (i + 1)..j : text[m] \notin {":=", "instance"}
        PROVE  j \in i..(s - 1)
    <3>1. ~(s \in (i + 1)..j)
      BY <2>4, <2>6, Zenon
    <3> QED
      BY <1>1, <2>4, <3>1
  <2>7. \A j \in i..(s - 1) : j \in i..Len(text)
    BY <1>1, <2>4
  <2> QED
    BY <2>3, <2>5, <2>6, <2>7, Zenon DEF Heads
<1> QED
  BY <1>2, <1>3

\* The instances that CountDecidable counts in a text.
Headed(text) == {i \in 1..Len(text) : Heads(text, i)}

\* The audit counts them.
LEMMA CountIs ==
    ASSUME NEW file, TextOf(file) \in Seq(Toks)
    PROVE  CountDecidable(file) = Cardinality(Headed(TextOf(file)))
<1>1. PICK text \in Seq(Toks) : text = TextOf(file)
  OBVIOUS
<1>2. DOMAIN text = 1..Len(text)
  OBVIOUS
<1>3. {i \in DOMAIN text : text[i] = "instance"
         /\ \E j \in i..HeaderEnd(text, i) : text[j] = "Decidable"} = Headed(text)
  BY <1>2, HeaderIs, Zenon DEF Headed
<1> QED
  BY <1>1, <1>3 DEF CountDecidable

\* A text of whole items, none of which ends in `where`.
Closed(text) ==
    /\ text \in Seq(Toks)
    /\ text # << >> => text[Len(text)] = ":="

LEMMA Concat ==
    ASSUME NEW S, NEW t \in Seq(S), NEW u \in Seq(S)
    PROVE  /\ t \o u \in Seq(S) /\ Len(t \o u) = Len(t) + Len(u)
           /\ \A i \in 1..Len(t) : (t \o u)[i] = t[i]
           /\ \A i \in 1..Len(u) : (t \o u)[Len(t) + i] = u[i]
OBVIOUS

\* A text after a closed one adds its own headers: none reaches across the end
\* of the first.
LEMMA HeadersApart ==
    ASSUME NEW t, Closed(t), NEW u \in Seq(Toks), u # << >>, u[Len(u)] = ":="
    PROVE  /\ Closed(t \o u)
           /\ Headed(t \o u) = Headed(t) \cup {Len(t) + i : i \in Headed(u)}
<1> DEFINE L == Len(t)
           M == Len(u)
<1>1. PICK v : v = t \o u
  OBVIOUS
<1>2. t \in Seq(Toks) /\ L \in Nat /\ M \in Nat \ {0}
  BY DEF Closed
<1>3. v \in Seq(Toks) /\ Len(v) = L + M
  BY <1>1, <1>2, Concat
<1>4. \A i \in 1..L : v[i] = t[i]
  BY <1>1, <1>2, Concat
<1>5. \A i \in 1..M : v[L + i] = u[i]
  BY <1>1, <1>2, Concat
<1>6. L # 0 => t[L] = ":="
  BY DEF Closed
<1>7. Closed(v)
  <2>1. v[L + M] = u[M] /\ u[M] = ":="
    BY <1>2, <1>5
  <2> QED
    BY <1>3, <2>1 DEF Closed
<1> HIDE DEF L, M
<1>8. ASSUME NEW i \in 1..L PROVE Heads(v, i) <=> Heads(t, i)
  <2>1. \A j \in i..L : j \in 1..L /\ j \in i..(L + M)
    BY <1>2
  <2>2. ASSUME NEW j \in i..(L + M), v[i] = "instance",
               \A m \in (i + 1)..j : v[m] \notin {":=", "instance"}
        PROVE  j \in i..L
    <3>1. L \in 1..L /\ v[L] = ":="
      BY <1>2, <1>4, <1>6
    <3>2. i # L
      BY <2>2, <3>1
    <3>3. ~(L \in (i + 1)..j)
      BY <2>2, <3>1
    <3> QED
      BY <1>2, <3>2, <3>3
  <2>3. \A j \in i..L : \A m \in (i + 1)..j : m \in 1..L
    BY <1>2
  <2> QED
    <3>1. L = Len(t) /\ Len(v) = L + M
      BY <1>3 DEF L
    <3>2. ASSUME Heads(t, i) PROVE Heads(v, i)
      <4>1. PICK j \in i..L : t[j] = "Decidable" /\
                \A m \in (i + 1)..j : t[m] \notin {":=", "instance"}
        BY <3>1, <3>2 DEF Heads
      <4>2. v[j] = "Decidable" /\ \A m \in (i + 1)..j : v[m] \notin {":=", "instance"}
        BY <1>4, <2>1, <2>3, <4>1
      <4>3. v[i] = "instance"
        BY <1>4, <3>2 DEF Heads
      <4> QED
        BY <2>1, <3>1, <4>2, <4>3 DEF Heads
    <3>3. ASSUME Heads(v, i) PROVE Heads(t, i)
      <4>1. PICK j \in i..(L + M) : v[j] = "Decidable" /\
                \A m \in (i + 1)..j : v[m] \notin {":=", "instance"}
        BY <3>1, <3>3 DEF Heads
      <4>2. v[i] = "instance"
        BY <3>3 DEF Heads
      <4>3. j \in i..L
        BY <2>2, <4>1, <4>2
      <4>4. t[j] = "Decidable" /\ \A m \in (i + 1)..j : t[m] \notin {":=", "instance"}
        BY <1>4, <2>1, <2>3, <4>1, <4>3
      <4>5. t[i] = "instance"
        BY <1>4, <4>2
      <4> QED
        BY <3>1, <4>3, <4>4, <4>5 DEF Heads
    <3> QED
      BY <3>2, <3>3
<1>9. ASSUME NEW i \in 1..M PROVE Heads(v, L + i) <=> Heads(u, i)
  <2>1. M = Len(u) /\ Len(v) = L + M
    BY <1>3 DEF M
  <2>2. ASSUME Heads(u, i) PROVE Heads(v, L + i)
    <3>1. PICK j \in i..M : u[j] = "Decidable" /\
              \A m \in (i + 1)..j : u[m] \notin {":=", "instance"}
      BY <2>1, <2>2 DEF Heads
    <3>2. j \in 1..M /\ L + j \in (L + i)..(L + M) /\ v[L + j] = "Decidable"
      <4>1. j \in 1..M /\ L + j \in (L + i)..(L + M)
        BY <1>2
      <4> QED
        BY <1>5, <3>1, <4>1
    <3>3. ASSUME NEW m \in (L + i + 1)..(L + j) PROVE v[m] \notin {":=", "instance"}
      <4>1. PICK n \in (i + 1)..j : m = L + n
        <5>1. m - L \in (i + 1)..j /\ m = L + (m - L)
          BY <1>2
        <5> QED
          BY <5>1
      <4>2. n \in 1..M
        BY <1>2
      <4> QED
        BY <1>5, <3>1, <4>1, <4>2
    <3>4. v[L + i] = "instance"
      BY <1>5, <2>2 DEF Heads
    <3> QED
      BY <2>1, <3>2, <3>3, <3>4 DEF Heads
  <2>3. ASSUME Heads(v, L + i) PROVE Heads(u, i)
    <3>1. PICK k \in (L + i)..(L + M) : v[k] = "Decidable" /\
              \A m \in (L + i + 1)..k : v[m] \notin {":=", "instance"}
      BY <2>1, <2>3 DEF Heads
    <3>2. PICK j \in i..M : k = L + j
      <4>1. k - L \in i..M /\ k = L + (k - L)
        BY <1>2
      <4> QED
        BY <4>1
    <3>3. u[j] = "Decidable"
      <4>1. j \in 1..M
        BY <1>2
      <4> QED
        BY <1>5, <3>1, <3>2, <4>1
    <3>4. ASSUME NEW n \in (i + 1)..j PROVE u[n] \notin {":=", "instance"}
      <4>1. n \in 1..M /\ L + n \in (L + i + 1)..k
        BY <1>2, <3>2
      <4> QED
        BY <1>5, <3>1, <4>1
    <3>5. u[i] = "instance"
      BY <1>5, <2>3 DEF Heads
    <3> QED
      BY <2>1, <3>3, <3>4, <3>5 DEF Heads
  <2> QED
    BY <2>2, <2>3
<1>10. Headed(v) = Headed(t) \cup {Len(t) + i : i \in Headed(u)}
  <2>1. \A i \in 1..(L + M) : i \in 1..L \/ \E k \in 1..M : i = L + k
    <3>1. ASSUME NEW i \in 1..(L + M), ~(i \in 1..L)
          PROVE  i - L \in 1..M /\ i = L + (i - L)
      BY <1>2, <3>1
    <3> QED
      BY <3>1
  <2>2. \A i \in 1..L : i \in 1..(L + M)
    BY <1>2
  <2>3. \A k \in 1..M : L + k \in 1..(L + M)
    BY <1>2
  <2>4. Headed(v) = {i \in 1..(L + M) : Heads(v, i)}
    BY <1>3 DEF Headed
  <2>5. Headed(t) = {i \in 1..L : Heads(t, i)} /\ Headed(u) = {i \in 1..M : Heads(u, i)}
    BY DEF Headed, L, M
  <2>6. Len(t) = L
    BY DEF L
  <2> HIDE DEF Headed, Heads
  <2>7. ASSUME NEW i \in Headed(v) PROVE i \in Headed(t) \/ \E k \in Headed(u) : i = L + k
    BY <1>8, <1>9, <2>1, <2>4, <2>5, <2>7, Zenon
  <2>8. ASSUME NEW i \in Headed(t) PROVE i \in Headed(v)
    BY <1>8, <2>2, <2>4, <2>5, <2>8, Zenon
  <2>9. ASSUME NEW k \in Headed(u) PROVE L + k \in Headed(v)
    BY <1>9, <2>3, <2>4, <2>5, <2>9, Zenon
  <2> QED
    BY <2>6, <2>7, <2>8, <2>9, Zenon
<1> QED
  BY <1>1, <1>7, <1>10

\* Any item but an instance that ends in `where` ends at its `:=`, and only a
\* decidability instance has Decidable in its header.
Ended == Items \ {"instance where", "Decidable instance where"}

LEMMA FourIs ==
    ASSUME NEW S, NEW a \in S, NEW b \in S, NEW c \in S, NEW d \in S
    PROVE  <<a, b, c, d>> \in Seq(S) /\ Len(<<a, b, c, d>>) = 4
OBVIOUS

LEMMA TextOfEnded ==
    ASSUME NEW item \in Ended
    PROVE  /\ Text(item) \in Seq(Toks) /\ Text(item) # << >>
           /\ Text(item)[Len(Text(item))] = ":="
           /\ Headed(Text(item)) = IF item = "Decidable instance" THEN {1} ELSE {}
<1>1. CASE item = "instance"
  <2>1. PICK u : u = <<"instance", ":=">>
    OBVIOUS
  <2>2. Text(item) = u
    BY <1>1, <2>1 DEF Text
  <2>3. u \in Seq(Toks) /\ Len(u) = 2 /\ u[1] = "instance" /\ u[2] = ":="
    BY <2>1 DEF Toks
  <2>4. Headed(u) = {}
    BY <2>3 DEF Headed, Heads
  <2>6. u # << >> /\ u[Len(u)] = ":="
    BY <2>3
  <2> QED
    BY <1>1, <2>2, <2>3, <2>4, <2>6, Zenon
<1>2. CASE item = "Decidable instance"
  <2>1. PICK u : u = <<"instance", "line break", "Decidable", ":=">>
    OBVIOUS
  <2>2. Text(item) = u
    BY <1>2, <2>1 DEF Text
  <2>3. u \in Seq(Toks) /\ Len(u) = 4
    <3>1. /\ "instance" \in Toks /\ "line break" \in Toks
          /\ "Decidable" \in Toks /\ ":=" \in Toks
      BY DEF Toks
    <3> QED
      BY <2>1, <3>1, FourIs, Zenon
  <2>4. u[1] = "instance" /\ u[2] = "line break" /\ u[3] = "Decidable" /\ u[4] = ":="
    BY <2>1
  <2>5. Heads(u, 1)
    <3>1. \A m \in (1 + 1)..3 : m = 2 \/ m = 3
      OBVIOUS
    <3>2. \A m \in (1 + 1)..3 : u[m] \notin {":=", "instance"}
      BY <2>4, <3>1
    <3>3. 3 \in 1..Len(u)
      <4>1. PICK n : n = Len(u)
        OBVIOUS
      <4>2. n = 4
        BY <2>3, <4>1, Zenon
      <4>3. 3 \in 1..n
        BY <4>2
      <4> QED
        BY <4>1, <4>3, Zenon
    <3> QED
      BY <2>4, <3>2, <3>3, Zenon DEF Heads
  <2>6. \A i \in 1..Len(u) : i = 1 \/ i = 2 \/ i = 3 \/ i = 4
    BY <2>3
  <2>7. 1 \in 1..Len(u)
    BY <2>3
  <2>8. Headed(u) \subseteq {1}
    BY <2>4, <2>6 DEF Headed, Heads
  <2>9. Headed(u) = {1}
    BY <2>5, <2>7, <2>8, Zenon DEF Headed
  <2>10. u # << >>
    BY <2>3
  <2>11. u[Len(u)] = ":="
    BY <2>3, <2>4
  <2> QED
    BY <1>2, <2>2, <2>3, <2>9, <2>10, <2>11, Zenon
<1>3. CASE item = "theorem on Decidable"
  <2>1. PICK u : u = <<"Decidable", ":=">>
    OBVIOUS
  <2>2. Text(item) = u
    BY <1>3, <2>1 DEF Text
  <2>3. u \in Seq(Toks) /\ Len(u) = 2 /\ u[1] = "Decidable" /\ u[2] = ":="
    BY <2>1 DEF Toks
  <2>4. Headed(u) = {}
    BY <2>3 DEF Headed, Heads
  <2>6. u # << >> /\ u[Len(u)] = ":="
    BY <2>3
  <2> QED
    BY <1>3, <2>2, <2>3, <2>4, <2>6, Zenon
<1>4. CASE item \in Axioms \cup {"native_decide", "theorem"}
  <2>1. PICK u : u = <<":=">>
    OBVIOUS
  <2>2. Text(item) = u
    BY <1>4, <2>1 DEF Text, Axioms
  <2>3. u \in Seq(Toks) /\ Len(u) = 1 /\ u[1] = ":="
    BY <2>1 DEF Toks
  <2>4. Headed(u) = {}
    BY <2>3 DEF Headed, Heads
  <2>6. u # << >> /\ u[Len(u)] = ":="
    BY <2>3
  <2>5. item # "Decidable instance"
    BY <1>4 DEF Axioms
  <2> QED
    BY <2>2, <2>3, <2>4, <2>5, <2>6, Zenon
<1> QED
  BY <1>1, <1>2, <1>3, <1>4 DEF Ended, Items, Instances

LEMMA HeadedIsFinite ==
    ASSUME NEW t, Closed(t)
    PROVE  /\ IsFiniteSet(Headed(t)) /\ Cardinality(Headed(t)) \in Nat
           /\ Len(t) \in Nat /\ Len(t) + 1 \notin Headed(t)
<1>1. Len(t) \in Nat
  BY DEF Closed
<1>2. 1 \in Int /\ Len(t) \in Int
  BY <1>1
<1>3. IsFiniteSet(1..Len(t))
  BY <1>2, FS_Interval, Zenon
<1>4. IsFiniteSet(Headed(t))
  BY <1>3, FS_Subset DEF Headed
<1>5. Len(t) + 1 \notin Headed(t)
  BY <1>1 DEF Headed
<1> QED
  BY <1>1, <1>4, <1>5, FS_CardinalityType

\* The decidability instances among the first n items.
Named(file, n) == {i \in 1..n : file[i] = "Decidable instance"}

LEMMA NamedIsFinite ==
    ASSUME NEW file, NEW n \in Nat
    PROVE  /\ IsFiniteSet(Named(file, n)) /\ Cardinality(Named(file, n)) \in Nat
           /\ n + 1 \notin Named(file, n)
<1>1. 1 \in Int /\ n \in Int
  OBVIOUS
<1>2. IsFiniteSet(1..n)
  BY <1>1, FS_Interval, Zenon
<1>3. IsFiniteSet(Named(file, n))
  BY <1>2, FS_Subset DEF Named
<1>4. n + 1 \notin Named(file, n)
  <2>1. n + 1 \notin 1..n
    OBVIOUS
  <2> QED
    BY <2>1, Zenon DEF Named
<1> QED
  BY <1>3, <1>4, FS_CardinalityType

\* One more item, one more in both counts or in neither.
LEMMA CountsGrowTogether ==
    ASSUME NEW file, NEW n \in Nat, file[n + 1] \in Ended,
           NEW t, Closed(t), Cardinality(Headed(t)) = Cardinality(Named(file, n))
    PROVE  /\ Closed(t \o Text(file[n + 1]))
           /\ Cardinality(Headed(t \o Text(file[n + 1]))) = Cardinality(Named(file, n + 1))
<1>1. PICK item \in Ended : item = file[n + 1]
  OBVIOUS
<1>2. PICK u : u = Text(item)
  OBVIOUS
<1>3. /\ u \in Seq(Toks) /\ u # << >> /\ u[Len(u)] = ":="
      /\ Headed(u) = IF item = "Decidable instance" THEN {1} ELSE {}
  BY <1>2, TextOfEnded, Zenon
<1>4. Closed(t \o u) /\ Headed(t \o u) = Headed(t) \cup {Len(t) + i : i \in Headed(u)}
  BY <1>3, HeadersApart
<1>7. 1..(n + 1) = (1..n) \cup {n + 1}
  OBVIOUS
<1>5. CASE item = "Decidable instance"
  <2>1. Headed(t \o u) = Headed(t) \cup {Len(t) + 1}
    BY <1>3, <1>4, <1>5
  <2>2. Cardinality(Headed(t \o u)) = Cardinality(Headed(t)) + 1
    BY <2>1, HeadedIsFinite, FS_AddElement
  <2>3. Named(file, n + 1) = Named(file, n) \cup {n + 1}
    BY <1>1, <1>5, <1>7, Zenon DEF Named
  <2>4. Cardinality(Named(file, n + 1)) = Cardinality(Named(file, n)) + 1
    BY <2>3, NamedIsFinite, FS_AddElement
  <2> QED
    BY <1>1, <1>2, <1>4, <2>2, <2>4
<1>6. CASE item # "Decidable instance"
  <2>1. Headed(t \o u) = Headed(t)
    BY <1>3, <1>4, <1>6
  <2>2. Named(file, n + 1) = Named(file, n)
    BY <1>1, <1>6, <1>7, Zenon DEF Named
  <2> QED
    BY <1>1, <1>2, <1>4, <2>1, <2>2
<1> QED
  BY <1>5, <1>6

\* The audit's count of a file whose items all end at their `:=`.
LEMMA CountDecidableIs ==
    ASSUME NEW file, file \in Seq(Ended)
    PROVE  CountDecidable(file) = CountOf(file, {"Decidable instance"})
<1>1. PICK K \in Nat : K = Len(file)
  OBVIOUS
<1>2. DOMAIN file = 1..K /\ \A n \in 1..K : file[n] \in Ended
  BY <1>1
<1>3. PICK seqs : seqs = [i \in DOMAIN file |-> Text(file[i])]
  OBVIOUS
<1>4. seqs \in Seq(Seq(Toks)) /\ Len(seqs) = K
  <2>1. \A n \in 1..K : Text(file[n]) \in Seq(Toks)
    BY <1>2, TextOfEnded, Zenon
  <2>2. PICK T : T = Seq(Toks)
    OBVIOUS
  <2>3. seqs = [n \in 1..K |-> Text(file[n])]
    BY <1>2, <1>3
  <2>4. seqs \in Seq(T) /\ Len(seqs) = K
    BY <2>1, <2>2, <2>3
  <2> QED
    BY <2>2, <2>4, Zenon
<1>5. PICK f \in [0..K -> Seq(Toks)] :
          /\ f[0] = << >>
          /\ \A n \in 1..K : f[n] = f[n - 1] \o seqs[n]
          /\ FlattenSeq(seqs) = f[K]
  BY <1>4, FlattenIs, Zenon
<1>6. TextOf(file) = f[K]
  BY <1>3, <1>5 DEF TextOf
<1> DEFINE Good == {n \in Nat : n <= K =>
                       Closed(f[n]) /\ Cardinality(Headed(f[n])) = Cardinality(Named(file, n))}
<1>7. 0 \in Good
  <2>1. Closed(<< >>) /\ Headed(<< >>) = {} /\ Named(file, 0) = {}
    BY DEF Closed, Headed, Named
  <2> QED
    BY <1>5, <2>1, Zenon
<1>8. ASSUME NEW n \in Nat, n \in Good PROVE n + 1 \in Good
  <2> SUFFICES ASSUME n + 1 <= K
               PROVE  /\ Closed(f[n + 1])
                      /\ Cardinality(Headed(f[n + 1])) = Cardinality(Named(file, n + 1))
    OBVIOUS
  <2>1. n + 1 \in 1..K /\ (n + 1) - 1 = n /\ n <= K
    OBVIOUS
  <2>2. seqs[n + 1] = Text(file[n + 1])
    BY <1>2, <1>3, <2>1
  <2>3. f[n + 1] = f[n] \o Text(file[n + 1])
    BY <1>5, <2>1, <2>2
  <2>4. file[n + 1] \in Ended
    BY <1>2, <2>1
  <2>5. Closed(f[n]) /\ Cardinality(Headed(f[n])) = Cardinality(Named(file, n))
    BY <1>8, <2>1
  <2> QED
    BY <2>3, <2>4, <2>5, CountsGrowTogether
<1>9. Nat \subseteq Good
  <2> HIDE DEF Good
  <2> QED BY <1>7, <1>8, SetInduction
<1>10. K \in Good
  BY <1>9, Zenon
<1>11. f[K] \in Seq(Toks) /\ Cardinality(Headed(f[K])) = Cardinality(Named(file, K))
  BY <1>10
<1>12. CountDecidable(file) = Cardinality(Headed(f[K]))
  BY <1>6, <1>11, CountIs
<1>13. {i \in DOMAIN file : file[i] \in {"Decidable instance"}} = Named(file, K)
  BY <1>2 DEF Named
<1> QED
  BY <1>11, <1>12, <1>13 DEF CountOf

\* The items of both versions of the file.
ItemsTypeOK == baseItems \in Seq(Items) /\ headItems \in Seq(Items)

LEMMA InitItems == ItemsInit => ItemsTypeOK
<1>1. \A m \in 0..MaxBaseItems : [1..m -> Items] \subseteq Seq(Items)
  BY ItemsAssumption
<1> QED
  BY <1>1 DEF ItemsInit, ItemsTypeOK, BoundedSeq, SeqOf

LEMMA NextItems == ItemsTypeOK /\ [ItemsNext]_itemVars => ItemsTypeOK'
<1> SUFFICES ASSUME ItemsTypeOK, [ItemsNext]_itemVars PROVE ItemsTypeOK'
  OBVIOUS
<1> USE DEF ItemsTypeOK
<1>0. PICK L \in Nat : L = Len(headItems)
  OBVIOUS
<1>1. ASSUME NEW i \in 1..(Len(headItems) + 1), NEW x \in Items,
             EditItems(InsertAt(headItems, i, x))
      PROVE  ItemsTypeOK'
  <2>1. SubSeq(headItems, 1, i - 1) \in Seq(Items)
    BY <1>0
  <2>2. SubSeq(headItems, i, Len(headItems)) \in Seq(Items)
    BY <1>0
  <2>3. InsertAt(headItems, i, x) \in Seq(Items)
    BY <2>1, <2>2 DEF InsertAt
  <2> QED
    BY <1>1, <2>3 DEF EditItems
<1>2. ASSUME NEW i \in DOMAIN headItems, EditItems(RemoveAt(headItems, i))
      PROVE  ItemsTypeOK'
  <2>1. SubSeq(headItems, 1, i - 1) \in Seq(Items)
    BY <1>0
  <2>2. SubSeq(headItems, i + 1, Len(headItems)) \in Seq(Items)
    BY <1>0
  <2>3. RemoveAt(headItems, i) \in Seq(Items)
    BY <2>1, <2>2 DEF RemoveAt
  <2> QED
    BY <1>2, <2>3 DEF EditItems
<1>3. CASE UNCHANGED itemVars
  BY <1>3 DEF itemVars
<1> QED
  BY <1>1, <1>2, <1>3 DEF ItemsNext, InsertItem, RemoveItem

LEMMA CountIsNat == ASSUME NEW file \in Seq(Items), NEW items PROVE CountOf(file, items) \in Nat
<1>1. 1 \in Int /\ Len(file) \in Int /\ DOMAIN file = 1..Len(file)
  OBVIOUS
<1>2. IsFiniteSet(DOMAIN file)
  BY <1>1, FS_Interval, Zenon
<1> QED
  BY <1>2, FS_Subset, FS_CardinalityType DEF CountOf

LEMMA AxiomsAreAllowed == ItemsTypeOK => NoUnallowedAxiomIsAdded
<1> SUFFICES ASSUME ItemsTypeOK, ~CompareAxioms(baseItems, headItems, auditPolicy, auditProver)
             PROVE  /\ CountOf(headItems, {"native_decide"}) <= CountOf(baseItems, {"native_decide"})
                    /\ CountOf(headItems, Axioms) > CountOf(baseItems, Axioms) =>
                        auditPolicy = "whitelist" /\ auditProver = "lean4"
                        /\ "axiom other" \notin ToSet(headItems)
  BY DEF NoUnallowedAxiomIsAdded
<1>1. ~(CountOf(headItems, {"native_decide"}) > CountOf(baseItems, {"native_decide"}))
  BY DEF CompareAxioms
<1>2. CountOf(headItems, {"native_decide"}) <= CountOf(baseItems, {"native_decide"})
  BY <1>1, CountIsNat DEF ItemsTypeOK
<1>3. ASSUME CountOf(headItems, Axioms) > CountOf(baseItems, Axioms)
      PROVE  auditPolicy = "whitelist" /\ auditProver = "lean4"
             /\ "axiom other" \notin ToSet(headItems)
  <2>1. auditPolicy = "whitelist" /\ auditProver = "lean4"
    BY <1>3 DEF CompareAxioms, SupportsWhitelist
  <2>2. ExtractAxiomNames(headItems, auditProver) \ {"axiom allowed"} = {}
    BY <2>1 DEF CompareAxioms, SupportsWhitelist
  <2>3. "axiom other" \notin {headItems[i] : i \in DOMAIN headItems}
    BY <2>1, <2>2 DEF ExtractAxiomNames, Axioms
  <2> QED
    BY <2>1, <2>3 DEF ToSet
<1> QED
  BY <1>2, <1>3

LEMMA InstancesAreCounted == ItemsTypeOK => DecidableInstancesAreCounted
<1> SUFFICES ASSUME ItemsTypeOK,
                    ToSet(headItems) \cap {"instance where", "Decidable instance where"} = {}
             PROVE  CountDecidable(headItems) = CountOf(headItems, {"Decidable instance"})
  BY DEF DecidableInstancesAreCounted
<1>1. \A i \in DOMAIN headItems : headItems[i] \in Ended
  <2>1. \A i \in DOMAIN headItems : headItems[i] \in ToSet(headItems)
    BY Zenon DEF ToSet
  <2>2. \A i \in DOMAIN headItems : headItems[i] \in Items
    BY SeqIs, Zenon DEF ItemsTypeOK
  <2> QED
    BY <2>1, <2>2, Zenon DEF Ended
<1>2. headItems \in Seq(Items) /\ DOMAIN headItems = 1..Len(headItems)
  BY SeqIs, Zenon DEF ItemsTypeOK
<1>3. \A k \in 1..Len(headItems) : headItems[k] \in Ended
  BY <1>1, <1>2, Zenon
<1>4. headItems \in Seq(Ended)
  BY <1>2, <1>3, SeqNarrows, Zenon
<1> QED
  BY <1>4, CountDecidableIs

\* axiom_honesty.py and decide_instance.py: for every number of items and of
\* edits, a file that passes the axiom audit has no more axioms that nobody
\* allowed and no more of the other constructs than its base version, and the
\* decidability audit counts exactly the decidability instances, wherever their
\* headers break their lines.
THEOREM TrustGrowsInSightHolds == ItemsSpec => []TrustGrowsInSight
<1>1. ItemsTypeOK => TrustGrowsInSight
  BY AxiomsAreAllowed, InstancesAreCounted DEF TrustGrowsInSight
<1> QED
  BY <1>1, InitItems, NextItems, PTL DEF ItemsSpec

-----------------------------------------------------------------------------
(* DeclAudits: what the versions of the file consist of.                   *)

AuditsTypeOK ==
    /\ prover \in {"lean4", "isabelle"}
    /\ base \in Seq(Declarations) /\ head \in Seq(Declarations)

LEMMA InitAudits == AuditsInit => AuditsTypeOK
<1>1. \A m \in 0..MaxBase : [1..m -> Drafts] \subseteq Seq(Declarations)
  BY DraftsAssumption
<1> QED
  BY <1>1 DEF AuditsInit, AuditsTypeOK, BoundedSeq, SeqOf

LEMMA NextAudits == AuditsTypeOK /\ [AuditsNext]_auditVars => AuditsTypeOK'
<1> SUFFICES ASSUME AuditsTypeOK, [AuditsNext]_auditVars PROVE AuditsTypeOK'
  OBVIOUS
<1> USE DEF AuditsTypeOK
<1>0. PICK L \in Nat : L = Len(head) /\ DOMAIN head = 1..L
  OBVIOUS
<1>1. ASSUME NEW h \in Seq(Declarations), Edit(h) PROVE AuditsTypeOK'
  BY <1>1 DEF Edit
<1>2. ASSUME NEW d \in Declarations
      PROVE  /\ \A body \in Bodies : [d EXCEPT !.body = body] \in Declarations
             /\ \A s \in Statements : [d EXCEPT !.statement = s] \in Declarations
             /\ \A scope \in Scopes : [d EXCEPT !.scope = scope] \in Declarations
  <2>2. \A scope \in Scopes : [d EXCEPT !.scope = scope] \in Declarations
    BY DraftsAssumption DEF Declarations
  <2>3. \A body \in Bodies : [d EXCEPT !.body = body] \in Declarations
    BY DEF Declarations
  <2>4. \A s \in Statements : [d EXCEPT !.statement = s] \in Declarations
    BY DEF Declarations
  <2> QED
    BY <2>2, <2>3, <2>4
<1>3. ASSUME NEW i \in DOMAIN head, NEW d \in Declarations
      PROVE  [head EXCEPT ![i] = d] \in Seq(Declarations)
  BY <1>0
<1>4. CASE EditBody
  <2>1. PICK i \in DOMAIN head, body \in Bodies : Edit([head EXCEPT ![i].body = body])
    BY <1>4 DEF EditBody
  <2>2. [head EXCEPT ![i].body = body] = [head EXCEPT ![i] = [head[i] EXCEPT !.body = body]]
    OBVIOUS
  <2>3. head[i] \in Declarations
    BY <1>0
  <2>4. PICK d \in Declarations : d = [head[i] EXCEPT !.body = body]
    BY <1>2, <2>3
  <2> QED
    BY <1>1, <1>3, <2>1, <2>2, <2>4
<1>5. CASE EditStatement
  <2>1. PICK i \in DOMAIN head, s \in Statements : Edit([head EXCEPT ![i].statement = s])
    BY <1>5 DEF EditStatement
  <2>2. [head EXCEPT ![i].statement = s] = [head EXCEPT ![i] = [head[i] EXCEPT !.statement = s]]
    OBVIOUS
  <2>3. head[i] \in Declarations
    BY <1>0
  <2>4. PICK d \in Declarations : d = [head[i] EXCEPT !.statement = s]
    BY <1>2, <2>3
  <2> QED
    BY <1>1, <1>3, <2>1, <2>2, <2>4
<1>6. CASE MoveScope
  <2>1. PICK i \in DOMAIN head, scope \in Scopes : Edit([head EXCEPT ![i].scope = scope])
    BY <1>6 DEF MoveScope
  <2>2. [head EXCEPT ![i].scope = scope] = [head EXCEPT ![i] = [head[i] EXCEPT !.scope = scope]]
    OBVIOUS
  <2>3. head[i] \in Declarations
    BY <1>0
  <2>4. PICK d \in Declarations : d = [head[i] EXCEPT !.scope = scope]
    BY <1>2, <2>3
  <2> QED
    BY <1>1, <1>3, <2>1, <2>2, <2>4
<1>7. CASE Delete
  <2>1. PICK i \in DOMAIN head : Edit(RemoveAt(head, i))
    BY <1>7 DEF Delete
  <2>2. SubSeq(head, 1, i - 1) \in Seq(Declarations)
    BY <1>0
  <2>3. SubSeq(head, i + 1, Len(head)) \in Seq(Declarations)
    BY <1>0
  <2>4. RemoveAt(head, i) \in Seq(Declarations)
    BY <2>2, <2>3 DEF RemoveAt
  <2> QED
    BY <1>1, <2>1, <2>4
<1>8. CASE Swap
  <2>1. Reverse(head) \in Seq(Declarations)
    BY <1>0 DEF Reverse
  <2> QED
    BY <1>1, <1>8, <2>1 DEF Swap
<1>9. CASE AddHelper
  <2>1. PICK d \in Drafts : Edit(Append(head, d))
    BY <1>9 DEF AddHelper
  <2>2. Append(head, d) \in Seq(Declarations)
    BY DraftsAssumption
  <2> QED
    BY <1>1, <2>1, <2>2
<1>10. CASE UNCHANGED auditVars
  BY <1>10 DEF auditVars
<1> QED
  BY <1>4, <1>5, <1>6, <1>7, <1>8, <1>9, <1>10 DEF AuditsNext

LEMMA AuditsInvariant == AuditsSpec => []AuditsTypeOK
BY InitAudits, NextAudits, PTL DEF AuditsSpec

-----------------------------------------------------------------------------
(* DeclAudits: counts of placeholders, and of declarations.                *)

LEMMA HolesAreFew == \A d : Holes(d) \in {0, 1}
BY DEF Holes

\* A sum of placeholders is one if and only if somebody has one.
LEMMA SumOfHoles ==
    ASSUME NEW side, NEW S, IsFiniteSet(S), NEW n,
           n = MapThenSumSet(LAMBDA i : Holes(side[i]), S)
    PROVE  /\ n \in Nat
           /\ n > 0 <=> \E i \in S : Holes(side[i]) > 0
<1> DEFINE pick == [s \in SUBSET S |-> CHOOSE x \in s : TRUE]
           g == [p \in S \X Nat |-> Holes(side[p[1]]) + p[2]]
           first(s) == CHOOSE x \in s : TRUE
<1>1. Picks(pick, S)
  BY DEF Picks
<1>2. g \in [S \X Nat -> Nat]
  BY HolesAreFew
<1>3. PICK f : IsFold(f, S, Nat, pick, 0, g)
  <2> HIDE DEF pick, g
  <2> QED BY <1>1, <1>2, FoldFunctionExists
<1>4. f \in [SUBSET S -> Nat] /\ f[{}] = 0
  BY <1>3 DEF IsFold
<1>5. \A s \in SUBSET S : s # {} => f[s] = Holes(side[first(s)]) + f[s \ {first(s)}]
  <2> SUFFICES ASSUME NEW s \in SUBSET S, s # {}
               PROVE  f[s] = Holes(side[first(s)]) + f[s \ {first(s)}]
    OBVIOUS
  <2>1. f[s] = g[<<first(s), f[s \ {first(s)}]>>]
    BY <1>3 DEF IsFold
  <2>2. first(s) \in S /\ f[s \ {first(s)}] \in Nat
    BY <1>4
  <2> HIDE DEF first
  <2> QED
    BY <2>1, <2>2
<1> DEFINE iter[s \in SUBSET S] ==
              IF s = {} THEN 0 ELSE Holes(side[first(s)]) + iter[s \ {first(s)}]
<1>6. n = iter[S]
  BY DEF MapThenSumSet, MapThenFoldSet
<1>7. f = [s \in SUBSET S |-> IF s = {} THEN 0 ELSE Holes(side[first(s)]) + f[s \ {first(s)}]]
  BY <1>4, <1>5
<1>8. iter = [s \in SUBSET S |->
                 IF s = {} THEN 0 ELSE Holes(side[first(s)]) + iter[s \ {first(s)}]]
  <2> HIDE DEF first
  <2> QED BY <1>7
<1>9. \A s \in SUBSET S : iter[s] = IF s = {} THEN 0
                                    ELSE Holes(side[first(s)]) + iter[s \ {first(s)}]
  <2> HIDE DEF iter
  <2> QED BY <1>8
<1> DEFINE G == {s \in SUBSET S : /\ iter[s] \in Nat
                                  /\ iter[s] > 0 <=> \E i \in s : Holes(side[i]) > 0}
<1> HIDE DEF iter
<1>10. {} \in G
  <2>1. iter[{}] = 0
    BY <1>9
  <2> QED
    BY <2>1
<1>11. ClosedUnder(G, pick, S)
  <2> SUFFICES ASSUME NEW s \in SUBSET S, s # {}, s \ {first(s)} \in G PROVE s \in G
    BY DEF ClosedUnder
  <2>1. PICK x \in s : x = first(s)
    OBVIOUS
  <2>2. iter[s] = Holes(side[x]) + iter[s \ {x}]
    BY <1>9, <2>1
  <2>3. /\ iter[s \ {x}] \in Nat
        /\ iter[s \ {x}] > 0 <=> \E i \in s \ {x} : Holes(side[i]) > 0
    BY <2>1
  <2>4. Holes(side[x]) \in {0, 1}
    BY HolesAreFew
  <2>5. iter[s] \in Nat /\ (iter[s] > 0 <=> Holes(side[x]) > 0 \/ iter[s \ {x}] > 0)
    BY <2>2, <2>3, <2>4
  <2> QED
    BY <2>3, <2>5
<1>12. SUBSET S \subseteq G
  <2> HIDE DEF pick, G
  <2> QED BY <1>1, <1>10, <1>11, SubsetInduction
<1> QED
  BY <1>6, <1>12

-----------------------------------------------------------------------------
(* DeclAudits: what a reduction may not hold.                              *)

LEMMA IndicesFinite ==
    ASSUME NEW side \in Seq(Declarations), NEW S \in SUBSET (DOMAIN side)
    PROVE  IsFiniteSet(S) /\ Cardinality(S) \in Nat
<1>1. DOMAIN side = 1..Len(side) /\ 1 \in Int /\ Len(side) \in Int
  OBVIOUS
<1>2. IsFiniteSet(1..Len(side))
  BY <1>1, FS_Interval, Zenon
<1> QED
  BY <1>1, <1>2, FS_Subset, FS_CardinalityType

LEMMA HolesUnderIs ==
    ASSUME NEW side \in Seq(Declarations), NEW key
    PROVE  /\ HolesUnder(side, key) \in Nat
           /\ HolesUnder(side, key) > 0
                <=> \E i \in DOMAIN side : CountKey(side[i]) = key /\ Holes(side[i]) > 0
<1> DEFINE S == {i \in DOMAIN side : CountKey(side[i]) = key}
<1>1. IsFiniteSet(S)
  BY IndicesFinite
<1>2. HolesUnder(side, key) = MapThenSumSet(LAMBDA i : Holes(side[i]), S)
  BY DEF HolesUnder
<1>3. /\ HolesUnder(side, key) \in Nat
      /\ HolesUnder(side, key) > 0 <=> \E i \in S : Holes(side[i]) > 0
  <2> HIDE DEF S
  <2> QED BY <1>1, <1>2, SumOfHoles
<1> QED
  BY <1>3

\* What rule A and rule B leave of the placeholders in head.
LEMMA CleanReduction ==
    ASSUME NEW b \in Seq(Declarations), NEW h \in Seq(Declarations),
           NEW aim, NEW children, CompareReduction(b, h, aim, children) = "clean",
           NEW j \in DOMAIN h, Holes(h[j]) > 0
    PROVE  /\ h[j].leaf # aim
           /\ \A k \in DOMAIN h : CountKey(h[k]) = CountKey(h[j]) => k = j
           /\ \/ \E i \in DOMAIN b : CountKey(b[i]) = CountKey(h[j]) /\ Holes(b[i]) > 0
              \/ /\ \A i \in DOMAIN b : b[i].leaf # h[j].leaf
                 /\ h[j].leaf \in children
                 /\ \A k \in DOMAIN h : k # j => h[k].leaf # h[j].leaf
<1> DEFINE key == CountKey(h[j])
<1>1. ~IsDisallowed(b, h, j, aim, children)
  BY DEF CompareReduction
<1>2. h[j].leaf # aim
  BY <1>1 DEF IsDisallowed
<1>3. HolesUnder(h, key) > HolesUnder(b, key) => key \in Permitted(b, h, aim, children)
  BY <1>1 DEF IsDisallowed
<1>4. ~(DeclsUnder(h, key) > 1)
  BY <1>1 DEF IsDisallowed
<1>5. \A k \in DOMAIN h : CountKey(h[k]) = key => k = j
  <2> DEFINE S == {i \in DOMAIN h : CountKey(h[i]) = key}
  <2>1. IsFiniteSet(S) /\ Cardinality(S) \in Nat
    BY IndicesFinite
  <2>2. Cardinality(S) <= 1
    BY <1>4, <2>1 DEF DeclsUnder
  <2>3. \A x, y \in S : x = y
    <3> HIDE DEF S
    <3> QED BY <2>1, <2>2, AtMostOne
  <2> QED
    BY <2>3
<1>6. HolesUnder(h, key) \in Nat /\ HolesUnder(h, key) > 0
  BY HolesUnderIs
<1>7. CASE key \in Permitted(b, h, aim, children)
  <2> DEFINE S == {i \in DOMAIN h : h[i].leaf = key[2]}
  <2>1. /\ \A i \in DOMAIN b : b[i].leaf # key[2]
        /\ key[2] \in children /\ LeafCount(h, key[2]) <= 1
    BY <1>7 DEF Permitted
  <2>2. key[2] = h[j].leaf
    BY DEF CountKey
  <2>3. IsFiniteSet(S) /\ Cardinality(S) <= 1
    BY <2>1, IndicesFinite DEF LeafCount
  <2>4. \A k \in DOMAIN h : h[k].leaf = h[j].leaf => k = j
    <3>1. \A x, y \in S : x = y
      <4> HIDE DEF S
      <4> QED BY <2>3, AtMostOne
    <3> QED
      BY <2>2, <3>1
  <2> QED
    BY <1>2, <1>5, <2>1, <2>2, <2>4
<1>8. CASE ~(HolesUnder(h, key) > HolesUnder(b, key))
  <2>1. HolesUnder(b, key) \in Nat
    BY HolesUnderIs
  <2>2. HolesUnder(b, key) > 0
    BY <1>6, <1>8, <2>1
  <2>3. \E i \in DOMAIN b : CountKey(b[i]) = key /\ Holes(b[i]) > 0
    BY <2>2, HolesUnderIs
  <2> QED
    BY <1>2, <1>5, <2>3
<1> QED
  BY <1>3, <1>7, <1>8

LEMMA PlaceholdersStay == AuditsTypeOK => NoPlaceholderMoves
<1> SUFFICES ASSUME AuditsTypeOK, NEW aim \in Leaves, NEW children \in SUBSET Leaves,
                    CompareReduction(base, head, aim, children) = "clean",
                    NEW j \in DOMAIN head, Holes(head[j]) > 0
             PROVE  /\ \A k \in DOMAIN head : CountKey(head[k]) = CountKey(head[j]) => k = j
                    /\ \/ HolesUnder(base, CountKey(head[j])) > 0
                       \/ /\ \A i \in DOMAIN base : base[i].leaf # head[j].leaf
                          /\ head[j].leaf \in children
  BY DEF NoPlaceholderMoves
<1>1. base \in Seq(Declarations) /\ head \in Seq(Declarations)
  BY DEF AuditsTypeOK
<1>2. /\ \A k \in DOMAIN head : CountKey(head[k]) = CountKey(head[j]) => k = j
      /\ \/ \E i \in DOMAIN base : CountKey(base[i]) = CountKey(head[j]) /\ Holes(base[i]) > 0
         \/ /\ \A i \in DOMAIN base : base[i].leaf # head[j].leaf
            /\ head[j].leaf \in children
  BY <1>1, CleanReduction
<1> QED
  BY <1>1, <1>2, HolesUnderIs

-----------------------------------------------------------------------------
(* DeclAudits: what passes the immutability audit.                         *)

\* A key says of what kind a declaration is, and its name and scope.
LEMMA KeyIsKind ==
    ASSUME NEW b \in Declarations, NEW h \in Declarations, NEW p,
           DeclKey(h, p) = DeclKey(b, p)
    PROVE  /\ h.kind = b.kind /\ h.leaf = b.leaf
           /\ b.leaf # Anonymous => h.scope = b.scope
<1>2. b.scope # "anon" /\ h.scope # "anon"
  BY DEF Declarations
<1>3. CASE b.leaf = Anonymous /\ ExtractFor(b, p) # Nothing
  <2>1. DeclKey(b, p) = <<b.kind, "anon", ExtractFor(b, p)>>
    BY <1>3 DEF DeclKey
  <2>2. h.leaf = Anonymous
    BY <1>2, <2>1 DEF DeclKey
  <2> QED
    BY <1>3, <2>1, <2>2 DEF DeclKey
<1>4. CASE ~(b.leaf = Anonymous /\ ExtractFor(b, p) # Nothing)
  <2>1. DeclKey(b, p) = <<b.kind, b.scope, b.leaf>>
    BY <1>4 DEF DeclKey
  <2>2. DeclKey(h, p) = <<h.kind, h.scope, h.leaf>>
    BY <1>2, <2>1 DEF DeclKey
  <2> QED
    BY <2>1, <2>2
<1> QED
  BY <1>3, <1>4

LEMMA StatementOf ==
    ASSUME NEW d \in Declarations, NEW p, ExtractFor(d, p) # Nothing
    PROVE  ExtractFor(d, p)[1] = d.statement /\ d.statement \in Readable
BY DEF ExtractFor

\* Two declarations that the parser finds the same.
LEMMA UniqueUnchanged ==
    ASSUME NEW b \in Declarations, NEW h \in Declarations, NEW p,
           DeclKey(h, p) = DeclKey(b, p), CompareUnique(b, h, p) = "unchanged"
    PROVE  Kept(b, h)
<1> DEFINE filling == b.kind = "defn" /\ BaseBodyIsPlaceholder(b)
           stated == <<ExtractFor(b, p), ExtractFor(h, p)>>
           compared == IF filling THEN [i \in 1..2 |-> MaskDefinitionBody(stated[i])]
                       ELSE stated
<1>1. /\ ~(b.kind = "whole" \/ (b.kind = "defn" /\ ~filling))
      /\ Nothing \notin Range(stated)
      /\ compared[1] = compared[2]
  BY DEF CompareUnique
<1>2. ExtractFor(b, p) # Nothing /\ ExtractFor(h, p) # Nothing
  <2>1. stated[1] \in Range(stated) /\ stated[2] \in Range(stated)
    BY DEF Range
  <2> QED
    BY <1>1, <2>1
<1>3. h.statement = b.statement
  <2>1. CASE filling
    <3>1. MaskDefinitionBody(ExtractFor(b, p)) = MaskDefinitionBody(ExtractFor(h, p))
      BY <1>1, <2>1
    <3>2. ExtractFor(b, p)[1] = ExtractFor(h, p)[1]
      BY <3>1 DEF MaskDefinitionBody
    <3> QED
      BY <1>2, <3>2, StatementOf
  <2>2. CASE ~filling
    <3>1. ExtractFor(b, p) = ExtractFor(h, p)
      BY <1>1, <2>2
    <3> QED
      BY <1>2, <3>1, StatementOf
  <2> QED
    BY <2>1, <2>2
<1>4. b.kind \in {"whole", "defn", "proof"}
  BY DEF Declarations, Kinds
<1> QED
  BY <1>1, <1>3, <1>4, KeyIsKind DEF Kept

\* The text of a declaration, as TextCounts counts it.
TextIs(d) == <<d.statement, d.body>>
SameTexts(b, h, key, p) ==
    TextCounts(b, Entries(b, key, p)) = TextCounts(h, Entries(h, key, p))

\* What base's declaration i is matched with: those of its key, and of its text
\* where the texts decided.
ClassOf(side, b, h, p, i) ==
    LET key == DeclKey(b[i], p)
    IN  {j \in Entries(side, key, p) : SameTexts(b, h, key, p) => TextIs(side[j]) = TextIs(b[i])}

LEMMA TextOccurs ==
    ASSUME NEW side, NEW E, NEW i \in E
    PROVE  TextIs(side[i]) \in DOMAIN TextCounts(side, E)
BY DEF TextCounts, TextIs

LEMMA TextCount ==
    ASSUME NEW side, NEW E, NEW t, t \in DOMAIN TextCounts(side, E)
    PROVE  TextCounts(side, E)[t] = Cardinality({i \in E : TextIs(side[i]) = t})
BY DEF TextCounts, TextIs

\* What "unchanged" says of one key.
LEMMA KeyUnchanged ==
    ASSUME NEW b \in Seq(Declarations), NEW h \in Seq(Declarations), NEW p,
           CompareDeclarations(b, h, p) = "unchanged", NEW i \in DOMAIN b
    PROVE  LET key == DeclKey(b[i], p)
           IN  /\ Entries(h, key, p) # {}
               /\ SameTexts(b, h, key, p)
                    \/ /\ ~(Cardinality(Entries(b, key, p)) > 1)
                       /\ ~(Cardinality(Entries(h, key, p)) > 1)
                       /\ CompareUnique(b[Max(Entries(b, key, p))],
                                        h[Max(Entries(h, key, p))], p) = "unchanged"
<1> DEFINE key == DeclKey(b[i], p)
           verdict == CompareKey(b, h, key, p)
<1>1. verdict \notin {"undetermined", "changed"}
  BY DEF CompareDeclarations
<1>2. Entries(h, key, p) # {}
  BY <1>1 DEF CompareKey
<1>3. CASE ~SameTexts(b, h, key, p)
  <2>1. verdict = IF \/ Cardinality(Entries(b, key, p)) > 1
                     \/ Cardinality(Entries(h, key, p)) > 1
                  THEN "undetermined"
                  ELSE CompareUnique(b[Max(Entries(b, key, p))],
                                     h[Max(Entries(h, key, p))], p)
    BY <1>2, <1>3 DEF CompareKey, SameTexts
  <2>2. \A x, y : CompareUnique(x, y, p) \in {"changed", "undetermined", "unchanged"}
    BY DEF CompareUnique
  <2> HIDE DEF verdict
  <2> QED
    BY <1>1, <1>2, <2>1, <2>2
<1> QED
  BY <1>2, <1>3

LEMMA OnlyOneIsMax == ASSUME NEW i \in Int PROVE Max({i}) = i
BY DEF Max

LEMMA EntriesAre ==
    ASSUME NEW side \in Seq(Declarations), NEW key, NEW p
    PROVE  /\ Entries(side, key, p) \subseteq DOMAIN side
           /\ IsFiniteSet(Entries(side, key, p)) /\ Cardinality(Entries(side, key, p)) \in Nat
           /\ \A j : j \in Entries(side, key, p)
                       <=> j \in DOMAIN side /\ DeclKey(side[j], p) = key
BY IndicesFinite DEF Entries

LEMMA ClassIs ==
    ASSUME NEW side \in Seq(Declarations), NEW b, NEW h, NEW p, NEW i
    PROVE  /\ ClassOf(side, b, h, p, i) \subseteq DOMAIN side
           /\ \A j : j \in ClassOf(side, b, h, p, i)
                 <=> /\ j \in DOMAIN side /\ DeclKey(side[j], p) = DeclKey(b[i], p)
                     /\ SameTexts(b, h, DeclKey(b[i], p), p) => TextIs(side[j]) = TextIs(b[i])
<1> DEFINE key == DeclKey(b[i], p)
           S == Entries(side, key, p)
           same == SameTexts(b, h, key, p)
           t == TextIs(b[i])
<1>1. ClassOf(side, b, h, p, i) = {j \in S : same => TextIs(side[j]) = t}
  BY DEF ClassOf
<1>2. \A j : j \in S <=> j \in DOMAIN side /\ DeclKey(side[j], p) = key
  BY EntriesAre
<1> HIDE DEF key, S, same, t
<1>3. \A j : j \in ClassOf(side, b, h, p, i)
        <=> j \in DOMAIN side /\ DeclKey(side[j], p) = key /\ (same => TextIs(side[j]) = t)
  BY <1>1, <1>2
<1>4. ClassOf(side, b, h, p, i) \subseteq DOMAIN side
  BY <1>3
<1> QED
  BY <1>3, <1>4 DEF key, same, t

\* The classes of a key are of one size in base and in head.
LEMMA ClassesBiject ==
    ASSUME NEW b \in Seq(Declarations), NEW h \in Seq(Declarations), NEW p,
           CompareDeclarations(b, h, p) = "unchanged", NEW i \in DOMAIN b
    PROVE  ExistsBijection(ClassOf(b, b, h, p, i), ClassOf(h, b, h, p, i))
<1> DEFINE key == DeclKey(b[i], p)
           inBase == Entries(b, key, p)
           inHead == Entries(h, key, p)
           t == TextIs(b[i])
<1>1. /\ IsFiniteSet(inBase) /\ Cardinality(inBase) \in Nat /\ i \in inBase
      /\ IsFiniteSet(inHead) /\ Cardinality(inHead) \in Nat /\ inHead # {}
  BY EntriesAre, KeyUnchanged
<1>2. CASE SameTexts(b, h, key, p)
  <2>1. /\ ClassOf(b, b, h, p, i) = {j \in inBase : TextIs(b[j]) = t}
        /\ ClassOf(h, b, h, p, i) = {j \in inHead : TextIs(h[j]) = t}
    BY <1>2 DEF ClassOf
  <2>2. t \in DOMAIN TextCounts(b, inBase)
    <3> HIDE DEF inBase
    <3> QED BY <1>1, TextOccurs
  <2>3. t \in DOMAIN TextCounts(h, inHead)
    <3>1. TextCounts(b, inBase) = TextCounts(h, inHead)
      BY <1>2 DEF SameTexts
    <3> HIDE DEF inBase, inHead, t
    <3> QED BY <2>2, <3>1
  <2>4. /\ TextCounts(b, inBase)[t] = Cardinality({j \in inBase : TextIs(b[j]) = t})
        /\ TextCounts(h, inHead)[t] = Cardinality({j \in inHead : TextIs(h[j]) = t})
    <3> HIDE DEF t, inBase, inHead
    <3> QED BY <2>2, <2>3, TextCount
  <2>5. Cardinality(ClassOf(b, b, h, p, i)) = Cardinality(ClassOf(h, b, h, p, i))
    BY <1>2, <2>1, <2>4 DEF SameTexts
  <2>6. IsFiniteSet(ClassOf(b, b, h, p, i)) /\ IsFiniteSet(ClassOf(h, b, h, p, i))
    <3> HIDE DEF inBase, inHead
    <3> QED BY <1>1, <2>1, FS_Subset
  <2> QED
    BY <2>5, <2>6, FS_SameCardinalityBij
<1>3. CASE ~SameTexts(b, h, key, p)
  <2>1. ClassOf(b, b, h, p, i) = inBase /\ ClassOf(h, b, h, p, i) = inHead
    BY <1>3 DEF ClassOf
  <2>2. ~(Cardinality(inBase) > 1) /\ ~(Cardinality(inHead) > 1)
    BY <1>3, KeyUnchanged
  <2>3. Cardinality(inBase) # 0 /\ Cardinality(inHead) # 0
    <3> HIDE DEF inBase, inHead
    <3> QED BY <1>1, FS_EmptySet
  <2>4. Cardinality(inBase) = Cardinality(inHead)
    <3> HIDE DEF inBase, inHead
    <3> QED BY <1>1, <2>2, <2>3
  <2> HIDE DEF inBase, inHead
  <2> QED
    BY <1>1, <2>1, <2>4, FS_SameCardinalityBij
<1> QED
  BY <1>2, <1>3

\* Whoever is in the class of i is what i became.
LEMMA ClassIsKept ==
    ASSUME NEW b \in Seq(Declarations), NEW h \in Seq(Declarations), NEW p,
           CompareDeclarations(b, h, p) = "unchanged", NEW i \in DOMAIN b,
           NEW j \in ClassOf(h, b, h, p, i)
    PROVE  Kept(b[i], h[j])
<1> DEFINE key == DeclKey(b[i], p)
           inBase == Entries(b, key, p)
           inHead == Entries(h, key, p)
<1>1. j \in DOMAIN h /\ DeclKey(h[j], p) = key
  BY ClassIs
<1>2. b[i] \in Declarations /\ h[j] \in Declarations
  BY <1>1
<1>3. CASE SameTexts(b, h, key, p)
  <2>1. TextIs(h[j]) = TextIs(b[i])
    BY <1>3, ClassIs
  <2>2. h[j].statement = b[i].statement /\ h[j].body = b[i].body
    BY <2>1 DEF TextIs
  <2> QED
    BY <1>1, <1>2, <2>2, KeyIsKind DEF Kept
<1>4. CASE ~SameTexts(b, h, key, p)
  <2>1. /\ ~(Cardinality(inBase) > 1) /\ ~(Cardinality(inHead) > 1)
        /\ CompareUnique(b[Max(inBase)], h[Max(inHead)], p) = "unchanged"
    BY <1>4, KeyUnchanged
  <2>2. /\ IsFiniteSet(inBase) /\ Cardinality(inBase) \in Nat /\ i \in inBase
        /\ IsFiniteSet(inHead) /\ Cardinality(inHead) \in Nat /\ j \in inHead
    BY <1>1, EntriesAre
  <2>3. inBase = {i} /\ inHead = {j}
    <3> HIDE DEF inBase, inHead
    <3>1. Cardinality(inBase) <= 1 /\ Cardinality(inHead) <= 1
      BY <2>1, <2>2
    <3>2. (\A x, y \in inBase : x = y) /\ (\A x, y \in inHead : x = y)
      BY <2>2, <3>1, AtMostOne
    <3> QED
      BY <2>2, <3>2
  <2>4. i \in Int /\ j \in Int
    BY <1>1
  <2>5. CompareUnique(b[i], h[j], p) = "unchanged"
    BY <2>1, <2>3, <2>4, OnlyOneIsMax
  <2> QED
    BY <1>1, <1>2, <2>5, UniqueUnchanged
<1> QED
  BY <1>3, <1>4

\* Every declaration of base is matched with one of head that keeps it.
LEMMA UnchangedKeeps ==
    ASSUME NEW b \in Seq(Declarations), NEW h \in Seq(Declarations), NEW p,
           CompareDeclarations(b, h, p) = "unchanged"
    PROVE  \E m \in Injection(DOMAIN b, DOMAIN h) : \A i \in DOMAIN b : Kept(b[i], h[m[i]])
<1> DEFINE A == [i \in DOMAIN b |-> ClassOf(b, b, h, p, i)]
           B == [i \in DOMAIN b |-> ClassOf(h, b, h, p, i)]
<1>1. A \in [DOMAIN b -> SUBSET DOMAIN b] /\ B \in [DOMAIN b -> SUBSET DOMAIN h]
  BY ClassIs
<1>2. \A i \in DOMAIN b : i \in A[i] /\ ExistsBijection(A[i], B[i])
  BY ClassIs, ClassesBiject
<1>3. ASSUME NEW i \in DOMAIN b, NEW j \in DOMAIN b, B[i] \cap B[j] # {}
      PROVE  A[i] = A[j] /\ B[i] = B[j]
  <2>1. PICK k : k \in ClassOf(h, b, h, p, i) /\ k \in ClassOf(h, b, h, p, j)
    BY <1>3
  <2>2. DeclKey(b[i], p) = DeclKey(b[j], p)
    BY <2>1, ClassIs
  <2>3. SameTexts(b, h, DeclKey(b[i], p), p) => TextIs(b[i]) = TextIs(b[j])
    BY <2>1, <2>2, ClassIs
  <2> QED
    BY <2>2, <2>3 DEF ClassOf
<1>4. MatchedClasses(DOMAIN b, DOMAIN h, A, B)
  <2> HIDE DEF A, B
  <2> QED BY <1>1, <1>2, <1>3 DEF MatchedClasses
<1>5. PICK m \in Injection(DOMAIN b, DOMAIN h) : \A i \in DOMAIN b : m[i] \in B[i]
  <2> HIDE DEF A, B
  <2> QED BY <1>4, Matching
<1>6. \A i \in DOMAIN b : Kept(b[i], h[m[i]])
  BY <1>5, ClassIsKept
<1> QED
  BY <1>6

LEMMA NothingIsLost == AuditsTypeOK => UnchangedMeansKept
BY UnchangedKeeps DEF AuditsTypeOK, UnchangedMeansKept

LEMMA TargetIsProved == AuditsTypeOK => ReductionProvesTarget
<1> SUFFICES ASSUME AuditsTypeOK, NEW aim \in Leaves, NEW children \in SUBSET Leaves,
                    CompareDeclarations(base, head, prover) = "unchanged",
                    CompareReduction(base, head, aim, children) = "clean"
             PROVE  /\ \A i \in DOMAIN base : base[i].leaf = aim =>
                        \E j \in DOMAIN head :
                            /\ CountKey(head[j]) = CountKey(base[i])
                            /\ head[j].kind = base[i].kind
                            /\ head[j].statement = base[i].statement /\ Holes(head[j]) = 0
                    /\ \A j \in DOMAIN head : Holes(head[j]) > 0 =>
                        /\ head[j].leaf # aim
                        /\ \/ \E i \in DOMAIN base :
                                CountKey(base[i]) = CountKey(head[j]) /\ Holes(base[i]) > 0
                           \/ /\ head[j].leaf \in children
                              /\ \A k \in DOMAIN head : k # j => head[k].leaf # head[j].leaf
  BY DEF ReductionProvesTarget
<1>1. base \in Seq(Declarations) /\ head \in Seq(Declarations) /\ aim # Anonymous
  BY DraftsAssumption DEF AuditsTypeOK
<1>2. PICK m \in Injection(DOMAIN base, DOMAIN head) :
            \A i \in DOMAIN base : Kept(base[i], head[m[i]])
  BY <1>1, UnchangedKeeps
<1>3. ASSUME NEW i \in DOMAIN base, base[i].leaf = aim
      PROVE  \E j \in DOMAIN head :
                /\ CountKey(head[j]) = CountKey(base[i]) /\ head[j].kind = base[i].kind
                /\ head[j].statement = base[i].statement /\ Holes(head[j]) = 0
  <2>1. PICK j \in DOMAIN head : Kept(base[i], head[j])
    BY <1>2 DEF Injection
  <2>2. CountKey(head[j]) = CountKey(base[i]) /\ head[j].leaf = aim
    BY <1>1, <1>3, <2>1 DEF Kept, CountKey
  <2>3. ~(Holes(head[j]) > 0)
    BY <1>1, <2>2, CleanReduction
  <2>4. Holes(head[j]) = 0
    BY <2>3, HolesAreFew
  <2> QED
    BY <2>1, <2>2, <2>4 DEF Kept
<1>4. ASSUME NEW j \in DOMAIN head, Holes(head[j]) > 0
      PROVE  /\ head[j].leaf # aim
             /\ \/ \E i \in DOMAIN base :
                    CountKey(base[i]) = CountKey(head[j]) /\ Holes(base[i]) > 0
                \/ /\ head[j].leaf \in children
                   /\ \A k \in DOMAIN head : k # j => head[k].leaf # head[j].leaf
  BY <1>1, <1>4, CleanReduction
<1> QED
  BY <1>3, <1>4

-----------------------------------------------------------------------------
(* DeclAudits: lengths, and what is probed.                                *)

LEMMA MaxIs ==
    ASSUME NEW side \in Seq(Declarations), NEW S \in SUBSET (DOMAIN side), S # {}
    PROVE  Max(S) \in S
<1>1. S \in SUBSET (0..Len(side)) /\ Len(side) \in Nat
  OBVIOUS
<1>2. \E x \in S : \A y \in S : y <= x
  BY <1>1, GreatestOfBounded
<1>3. \E x \in S : \A y \in S : x >= y
  BY <1>1, <1>2
<1> QED
  BY <1>3 DEF Max

LEMMA LongStays == AuditsTypeOK => LongWasLong
<1> SUFFICES ASSUME AuditsTypeOK, CompareStyle(base, head) = "clean",
                    NEW j \in DOMAIN head, LinesOf(head[j]) > Threshold
             PROVE  \E i \in DOMAIN base :
                        base[i].leaf = head[j].leaf /\ LinesOf(base[i]) >= LinesOf(head[j])
  BY DEF LongWasLong
<1> DEFINE long == {i \in DOMAIN base : base[i].leaf = head[j].leaf
                                         /\ LinesOf(base[i]) > Threshold}
<1>1. base \in Seq(Declarations) /\ head \in Seq(Declarations)
  BY DEF AuditsTypeOK
<1>2. ~(LinesOf(head[j]) > BaseLong(base, head[j].leaf))
  BY DEF CompareStyle
<1>3. \A d \in Declarations : LinesOf(d) \in Nat
  BY DEF LinesOf, Declarations, Bodies
<1>4. head[j] \in Declarations /\ LinesOf(head[j]) \in Nat
  BY <1>1, <1>3
<1>5. long # {}
  BY <1>2, <1>4 DEF BaseLong, Threshold
<1>7. Max(long) \in long
  <2>1. long \in SUBSET (DOMAIN base)
    OBVIOUS
  <2> HIDE DEF long
  <2> QED BY <1>1, <1>5, <2>1, MaxIs
<1>8. BaseLong(base, head[j].leaf) = LinesOf(base[Max(long)])
  BY <1>5 DEF BaseLong
<1> HIDE DEF long
<1>9. PICK i \in long : i = Max(long)
  BY <1>7
<1>10. i \in DOMAIN base /\ base[i].leaf = head[j].leaf
  BY DEF long
<1>11. LinesOf(base[i]) >= LinesOf(head[j])
  BY <1>1, <1>2, <1>3, <1>4, <1>8, <1>9, <1>10
<1> QED
  BY <1>10, <1>11

LEMMA OnlyOneIsMin == ASSUME NEW i \in Int PROVE Min({i}) = i
BY DEF Min

\* Of the declarations with a name, whatever the prover calls a name.
LEMMA NamedAre ==
    ASSUME NEW side \in Seq(Declarations), NEW d \in Declarations, NEW p
    PROVE  /\ NamedAlike(side, d, p) \subseteq DOMAIN side
           /\ IsFiniteSet(NamedAlike(side, d, p))
           /\ Cardinality(NamedAlike(side, d, p)) \in Nat
           /\ \A j \in NamedAlike(side, d, p) : side[j].leaf = d.leaf
           /\ p # "lean4" =>
                NamedAlike(side, d, p) = {j \in DOMAIN side : side[j].leaf = d.leaf}
BY IndicesFinite DEF NamedAlike, ProbeName

\* The declaration that the extractor finds by a leaf that only one has.
LEMMA FoundIsOnly ==
    ASSUME NEW side \in Seq(Declarations), NEW p, NEW i \in DOMAIN side,
           \A j \in DOMAIN side : side[j].leaf = side[i].leaf => j = i
    PROVE  LET stated == StatementNamed(side, side[i].leaf, p)
           IN  stated # Nothing => stated = ExtractFor(side[i], p)
<1> DEFINE found == {j \in DOMAIN side : side[j].leaf = side[i].leaf
                                           /\ (p = "lean4" => side[j].kind # "whole")}
<1>1. found = {} \/ found = {i}
  OBVIOUS
<1>2. StatementNamed(side, side[i].leaf, p)
        = IF found = {} THEN Nothing ELSE ExtractFor(side[Min(found)], p)
  BY DEF StatementNamed
<1>3. i \in Int
  OBVIOUS
<1> HIDE DEF found
<1> QED
  BY <1>1, <1>2, <1>3, OnlyOneIsMin

LEMMA LeafIsOnly ==
    ASSUME NEW side \in Seq(Declarations), NEW leaf, LeafCount(side, leaf) <= 1,
           NEW i \in DOMAIN side, NEW j \in DOMAIN side,
           side[i].leaf = leaf, side[j].leaf = leaf
    PROVE  i = j
<1> DEFINE S == {k \in DOMAIN side : side[k].leaf = leaf}
<1>1. IsFiniteSet(S) /\ Cardinality(S) <= 1 /\ i \in S /\ j \in S
  BY IndicesFinite DEF LeafCount
<1> HIDE DEF S
<1> QED
  BY <1>1, AtMostOne

LEMMA RestatedIsTarget ==
    ASSUME AuditsTypeOK, NEW i \in DOMAIN head, head[i].leaf # Anonymous,
           \A j \in NamedAlike(base, head[i], prover) :
               base[j].statement # head[i].statement,
           prover = "lean4" => LeafCount(head, head[i].leaf) <= 1
                               /\ LeafCount(base, head[i].leaf) <= 1,
           ~IsTarget(head[i], base, head, prover)
    PROVE  FALSE
<1> DEFINE inBase == NamedAlike(base, head[i], prover)
           inHead == NamedAlike(head, head[i], prover)
           leaf == head[i].leaf
           was == StatementNamed(base, leaf, prover)
           is == StatementNamed(head, leaf, prover)
<1>1. /\ base \in Seq(Declarations) /\ head \in Seq(Declarations)
      /\ head[i] \in Declarations
  BY DEF AuditsTypeOK
<1>2. /\ inBase # {}
      /\ ~(Cardinality(inBase) > 1) /\ ~(Cardinality(inHead) > 1)
      /\ IF Range(<<was, is>>) = {Nothing} THEN RawLine(head[i]) = RawLine(base[Min(inBase)])
         ELSE was = is
  <2>1. inBase # {} /\ ~(Cardinality(inBase) > 1) /\ ~(Cardinality(inHead) > 1)
    BY DEF IsTarget
  <2>2. ~(IF Range(<<was, is>>) = {Nothing} THEN RawLine(head[i]) # RawLine(base[Min(inBase)])
          ELSE <<was, is>>[1] # <<was, is>>[2])
    BY DEF IsTarget
  <2> QED
    BY <2>1, <2>2
<1>3. PICK j \in inBase : TRUE
  BY <1>2
<1>4. /\ inBase \subseteq DOMAIN base /\ inHead \subseteq DOMAIN head
      /\ IsFiniteSet(inBase) /\ Cardinality(inBase) <= 1
      /\ IsFiniteSet(inHead) /\ Cardinality(inHead) <= 1
      /\ base[j].leaf = leaf /\ i \in inHead
  <2>1. i \in inHead
    BY DEF NamedAlike
  <2> QED
    BY <1>1, <1>2, <1>3, <2>1, NamedAre
<1>5. \A k \in DOMAIN base : base[k].leaf = leaf => k = j
  <2>1. CASE prover = "lean4"
    BY <1>1, <1>3, <1>4, <2>1, LeafIsOnly
  <2>2. CASE prover # "lean4"
    <3>1. inBase = {k \in DOMAIN base : base[k].leaf = leaf}
      BY <1>1, <2>2, NamedAre
    <3>2. \A x, y \in inBase : x = y
      <4> HIDE DEF inBase
      <4> QED BY <1>4, AtMostOne
    <3> QED
      BY <1>3, <3>1, <3>2
  <2> QED
    BY <2>1, <2>2
<1>6. \A k \in DOMAIN head : head[k].leaf = leaf => k = i
  <2>1. CASE prover = "lean4"
    BY <1>1, <2>1, LeafIsOnly
  <2>2. CASE prover # "lean4"
    <3>1. inHead = {k \in DOMAIN head : head[k].leaf = leaf}
      BY <1>1, <2>2, NamedAre
    <3>2. \A x, y \in inHead : x = y
      <4> HIDE DEF inHead
      <4> QED BY <1>4, AtMostOne
    <3> QED
      BY <1>4, <3>1, <3>2
  <2> QED
    BY <2>1, <2>2
<1>7. j \in DOMAIN base /\ j \in Int /\ base[j] \in Declarations
  BY <1>1, <1>3, <1>4
<1>8. base[j].statement # head[i].statement
  BY <1>3
<1>9. was # Nothing => was = ExtractFor(base[j], prover)
  BY <1>1, <1>4, <1>5, <1>7, FoundIsOnly
<1>10. is # Nothing => is = ExtractFor(head[i], prover)
  BY <1>1, <1>6, FoundIsOnly
<1>11. CASE was = Nothing /\ is = Nothing
  <2>1. Range(<<was, is>>) = {Nothing}
    BY <1>11 DEF Range
  <2>2. inBase = {j}
    <3>1. \A k \in inBase : base[k].leaf = leaf /\ k \in DOMAIN base
      BY <1>1, NamedAre
    <3> QED
      BY <1>3, <1>5, <3>1
  <2>3. RawLine(head[i]) = RawLine(base[j])
    BY <1>2, <1>7, <2>1, <2>2, OnlyOneIsMin
  <2> QED
    BY <1>8, <2>3 DEF RawLine
<1>12. CASE ~(was = Nothing /\ is = Nothing)
  <2>1. Range(<<was, is>>) # {Nothing}
    <3>1. <<was, is>>[1] \in Range(<<was, is>>) /\ <<was, is>>[2] \in Range(<<was, is>>)
      BY DEF Range
    <3> HIDE DEF was, is
    <3> QED BY <1>12, <3>1
  <2>2. was = is
    BY <1>2, <2>1
  <2>3. ExtractFor(base[j], prover) = ExtractFor(head[i], prover)
        /\ ExtractFor(head[i], prover) # Nothing
    <3> HIDE DEF was, is
    <3> QED BY <1>9, <1>10, <1>12, <2>2
  <2> QED
    BY <1>1, <1>7, <1>8, <2>3, StatementOf
<1> QED
  BY <1>11, <1>12

\* A target beyond the cap is one of too many.
LEMMA RestatedIsSeen == AuditsTypeOK => RestatedIsProbed
<1> SUFFICES ASSUME AuditsTypeOK, NEW i \in DOMAIN head, NEW taken \in 0..Cap,
                    head[i].leaf # Anonymous,
                    \A j \in NamedAlike(base, head[i], prover) :
                        base[j].statement # head[i].statement,
                    prover = "lean4" => LeafCount(head, head[i].leaf) <= 1
                                        /\ LeafCount(base, head[i].leaf) <= 1,
                    i \notin ProbeTargets(base, head, prover, taken)
             PROVE  Capped(base, head, prover, taken)
  BY DEF RestatedIsProbed
<1>1. PICK T : T = Targets(base, head, prover)
  OBVIOUS
<1>2. i \in T
  BY <1>1, RestatedIsTarget DEF Targets
<1>3. T \subseteq DOMAIN head /\ DOMAIN head \subseteq Nat /\ IsFiniteSet(T)
  <2>1. head \in Seq(Declarations)
    BY DEF AuditsTypeOK
  <2>2. IsFiniteSet(DOMAIN head) /\ DOMAIN head \subseteq Nat
    BY <2>1, IndicesFinite
  <2>3. T \subseteq DOMAIN head
    BY <1>1 DEF Targets
  <2> QED
    BY <2>2, <2>3, FS_Subset
<1>4. PICK B : B = {j \in T : j < i}
  OBVIOUS
<1>5. /\ IsFiniteSet(B) /\ Cardinality(B) \in Nat /\ Cardinality(T) \in Nat
      /\ Cardinality(B) + 1 <= Cardinality(T)
  <2>1. IsFiniteSet(B) /\ i \notin B /\ B \cup {i} \subseteq T
    BY <1>2, <1>3, <1>4, FS_Subset
  <2>2. /\ IsFiniteSet(B \cup {i}) /\ Cardinality(B \cup {i}) = Cardinality(B) + 1
    BY <2>1, FS_AddElement
  <2>3. Cardinality(B \cup {i}) <= Cardinality(T)
    BY <1>3, <2>1, FS_Subset
  <2>4. Cardinality(B) \in Nat /\ Cardinality(T) \in Nat
    BY <1>3, <2>1, FS_CardinalityType
  <2> QED
    BY <2>1, <2>2, <2>3, <2>4
<1>6. ~(taken + Cardinality(B) < Cap)
  BY <1>1, <1>2, <1>4 DEF ProbeTargets
<1> QED
  BY <1>1, <1>5, <1>6, CapAssumption DEF Capped

-----------------------------------------------------------------------------
(* DeclAudits: what the immutability audit lets pass.                      *)

LEMMA PassesIf ==
    ASSUME NEW b, NEW h, NEW p,
           \A i \in DOMAIN b : CompareKey(b, h, DeclKey(b[i], p), p) = "unchanged"
    PROVE  CompareDeclarations(b, h, p) = "unchanged"
BY DEF CompareDeclarations

\* One entry on each side, with one text.
LEMMA OneText ==
    ASSUME NEW b, NEW h, NEW i, NEW j, TextIs(h[j]) = TextIs(b[i])
    PROVE  TextCounts(b, {i}) = TextCounts(h, {j})
<1> DEFINE t == TextIs(b[i])
<1>1. /\ {TextIs(b[k]) : k \in {i}} = {t} /\ {TextIs(h[k]) : k \in {j}} = {t}
      /\ {k \in {i} : TextIs(b[k]) = t} = {i} /\ {k \in {j} : TextIs(h[k]) = t} = {j}
  OBVIOUS
<1>2. Cardinality({i}) = 1 /\ Cardinality({j}) = 1
  BY FS_Singleton
<1>3. /\ TextCounts(b, {i}) = [u \in {TextIs(b[k]) : k \in {i}} |->
                                    Cardinality({k \in {i} : TextIs(b[k]) = u})]
      /\ TextCounts(h, {j}) = [u \in {TextIs(h[k]) : k \in {j}} |->
                                    Cardinality({k \in {j} : TextIs(h[k]) = u})]
  BY DEF TextCounts, TextIs
<1>4. /\ TextCounts(b, {i}) = [u \in {t} |-> 1]
      /\ TextCounts(h, {j}) = [u \in {t} |-> 1]
  BY <1>1, <1>2, <1>3
<1> QED
  BY <1>4

\* The declaration that keeps another goes by its key.
LEMMA KeptHasKey ==
    ASSUME NEW b \in Declarations, NEW h \in Declarations, NEW p, Kept(b, h),
           b.statement \in Readable,
           p = "isabelle" => (b.leaf = Anonymous => b.kind # "defn")
    PROVE  DeclKey(h, p) = DeclKey(b, p)
<1>1. /\ h.kind = b.kind /\ h.leaf = b.leaf /\ h.statement = b.statement
      /\ b.leaf # Anonymous => h.scope = b.scope
  BY DEF Kept
<1>2. CASE b.leaf = Anonymous
  <2>1. ExtractFor(b, p) = <<b.statement>> /\ ExtractFor(h, p) = <<b.statement>>
    BY <1>1, <1>2 DEF ExtractFor
  <2> QED
    BY <1>1, <1>2, <2>1 DEF DeclKey, Nothing
<1>3. CASE b.leaf # Anonymous
  BY <1>1, <1>3 DEF DeclKey
<1> QED
  BY <1>2, <1>3

\* Of what may change, the parser sees no change.
LEMMA KeptIsUnchanged ==
    ASSUME NEW b \in Declarations, NEW h \in Declarations, NEW p, Kept(b, h),
           b.statement \in Readable, TextIs(h) # TextIs(b)
    PROVE  CompareUnique(b, h, p) = "unchanged"
<1> DEFINE filling == b.kind = "defn" /\ BaseBodyIsPlaceholder(b)
           stated == <<ExtractFor(b, p), ExtractFor(h, p)>>
           compared == IF filling THEN [i \in 1..2 |-> MaskDefinitionBody(stated[i])]
                       ELSE stated
<1>1. h.kind = b.kind /\ h.statement = b.statement
  BY DEF Kept
<1>2. b.kind = "proof" \/ filling
  BY <1>1 DEF Kept, TextIs
<1>3. ExtractFor(b, p) # Nothing /\ ExtractFor(h, p) # Nothing
  BY <1>1 DEF ExtractFor, Nothing
<1>4. Nothing \notin Range(stated)
  <2>1. DOMAIN stated = 1..2
    OBVIOUS
  <2>2. \A i \in DOMAIN stated : stated[i] # Nothing
    BY <1>3
  <2> HIDE DEF stated
  <2> QED BY <2>2 DEF Range
<1>5. compared[1] = compared[2]
  <2>1. CASE filling
    <3>1. ExtractFor(b, p)[1] = b.statement /\ ExtractFor(h, p)[1] = b.statement
      BY <1>1, <1>3, StatementOf
    <3>2. MaskDefinitionBody(ExtractFor(b, p)) = MaskDefinitionBody(ExtractFor(h, p))
      BY <3>1 DEF MaskDefinitionBody
    <3> QED
      BY <2>1, <3>2
  <2>2. CASE ~filling
    BY <1>1, <1>2, <2>2 DEF ExtractFor
  <2> QED
    BY <2>1, <2>2
<1>6. ~(b.kind = "whole" \/ (b.kind = "defn" /\ ~filling))
  BY <1>2
<1>7. CompareUnique(b, h, p)
        = IF b.kind = "whole" \/ (b.kind = "defn" /\ ~filling) THEN "changed"
          ELSE IF Nothing \in Range(stated) THEN "undetermined"
          ELSE IF compared[1] = compared[2] THEN "unchanged" ELSE "changed"
  BY DEF CompareUnique
<1> HIDE DEF filling, stated, compared
<1> QED
  BY <1>4, <1>5, <1>6, <1>7

LEMMA WorkPasses == AuditsTypeOK => PermittedWorkPasses
<1> SUFFICES ASSUME AuditsTypeOK, Unique(base, prover), Unique(head, prover),
                    prover = "isabelle" =>
                        \A i \in DOMAIN base : base[i].leaf = Anonymous => base[i].kind # "defn",
                    \A i \in DOMAIN base : base[i].statement \in Readable,
                    \A i \in DOMAIN base : \E j \in DOMAIN head : Kept(base[i], head[j]),
                    NEW i \in DOMAIN base
             PROVE  CompareKey(base, head, DeclKey(base[i], prover), prover) = "unchanged"
  BY PassesIf DEF PermittedWorkPasses
<1> DEFINE key == DeclKey(base[i], prover)
           inBase == Entries(base, key, prover)
           inHead == Entries(head, key, prover)
<1>1. base \in Seq(Declarations) /\ head \in Seq(Declarations)
  BY DEF AuditsTypeOK
<1>2. PICK j \in DOMAIN head : Kept(base[i], head[j])
  OBVIOUS
<1>3. base[i] \in Declarations /\ head[j] \in Declarations /\ i \in Int /\ j \in Int
  BY <1>1
<1>4. DeclKey(head[j], prover) = key
  BY <1>2, <1>3, KeptHasKey
<1>5. inBase = {i} /\ inHead = {j}
  BY <1>4 DEF Entries, Unique
<1>6. CASE TextIs(head[j]) = TextIs(base[i])
  <2>1. TextCounts(base, {i}) = TextCounts(head, {j})
    BY <1>6, OneText
  <2>2. TextCounts(base, inBase) = TextCounts(head, inHead) /\ inHead # {}
    BY <1>5, <2>1
  <2> QED
    BY <2>2 DEF CompareKey
<1>7. CASE TextIs(head[j]) # TextIs(base[i])
  <2>1. CompareUnique(base[i], head[j], prover) = "unchanged"
    BY <1>2, <1>3, <1>7, KeptIsUnchanged
  <2>2. Max(inBase) = i /\ Max(inHead) = j
    BY <1>3, <1>5, OnlyOneIsMax
  <2>3. Cardinality(inBase) = 1 /\ Cardinality(inHead) = 1 /\ inHead # {}
    BY <1>5, FS_Singleton
  <2>4. ~(Cardinality(inBase) > 1 \/ Cardinality(inHead) > 1)
    BY <2>3
  <2>5. CompareUnique(base[Max(inBase)], head[Max(inHead)], prover) = "unchanged"
    BY <2>1, <2>2
  <2> HIDE DEF inBase, inHead
  <2>6. CompareKey(base, head, key, prover)
          = IF TextCounts(base, inBase) = TextCounts(head, inHead) THEN "unchanged"
            ELSE IF Cardinality(inBase) > 1 \/ Cardinality(inHead) > 1
                 THEN "undetermined"
                 ELSE CompareUnique(base[Max(inBase)], head[Max(inHead)], prover)
    BY <2>3 DEF CompareKey, inBase, inHead
  <2> QED
    BY <2>4, <2>5, <2>6
<1> QED
  BY <1>6, <1>7

LEMMA UntouchedPasses == AuditsTypeOK => UntouchedFilePasses
<1> SUFFICES ASSUME AuditsTypeOK, NEW m \in Injection(DOMAIN base, DOMAIN head),
                    \A i \in DOMAIN base : head[m[i]] = base[i],
                    \A j \in DOMAIN head \ Range(m), i \in DOMAIN base :
                        DeclKey(head[j], prover) # DeclKey(base[i], prover),
                    NEW i \in DOMAIN base
             PROVE  CompareKey(base, head, DeclKey(base[i], prover), prover) = "unchanged"
  BY PassesIf DEF UntouchedFilePasses
<1> DEFINE key == DeclKey(base[i], prover)
           inBase == Entries(base, key, prover)
           inHead == Entries(head, key, prover)
<1>1. base \in Seq(Declarations) /\ head \in Seq(Declarations)
  BY DEF AuditsTypeOK
<1>2. /\ m \in [DOMAIN base -> DOMAIN head]
      /\ \A x, y \in DOMAIN base : m[x] = m[y] => x = y
  BY DEF Injection, IsInjective
<1>3. /\ inBase \subseteq DOMAIN base /\ i \in inBase
      /\ \A k \in inBase : m[k] \in inHead
  BY <1>1, <1>2, EntriesAre
<1>4. ASSUME NEW j \in inHead PROVE \E k \in inBase : j = m[k]
  <2>1. j \in DOMAIN head /\ DeclKey(head[j], prover) = key
    BY <1>1, EntriesAre
  <2>2. j \in Range(m)
    BY <2>1
  <2>3. PICK k \in DOMAIN base : j = m[k]
    BY <1>2, <2>2 DEF Range
  <2>4. DeclKey(base[k], prover) = key
    BY <2>1, <2>3
  <2> QED
    BY <1>1, <2>3, <2>4, EntriesAre
<1>5. {TextIs(base[k]) : k \in inBase} = {TextIs(head[j]) : j \in inHead}
  <2> HIDE DEF inBase, inHead
  <2>1. \A k \in inBase : m[k] \in inHead /\ head[m[k]] = base[k]
    BY <1>3
  <2>2. \A j \in inHead : \E k \in inBase : head[j] = base[k]
    BY <1>3, <1>4
  <2> QED
    BY <2>1, <2>2
<1>6. ASSUME NEW t
      PROVE  Cardinality({k \in inBase : TextIs(base[k]) = t})
               = Cardinality({j \in inHead : TextIs(head[j]) = t})
  <2> DEFINE S == {k \in inBase : TextIs(base[k]) = t}
             T == {j \in inHead : TextIs(head[j]) = t}
             f == [k \in S |-> m[k]]
  <2> HIDE DEF inBase, inHead
  <2>1. f \in [S -> T]
    BY <1>3
  <2>2. \A x, y \in S : f[x] = f[y] => x = y
    BY <1>2, <1>3
  <2>3. \A j \in T : \E k \in S : f[k] = j
    BY <1>3, <1>4
  <2>4. IsFiniteSet(S) /\ IsFiniteSet(T)
    <3>1. IsFiniteSet(inBase) /\ IsFiniteSet(inHead)
      BY <1>1, EntriesAre DEF inBase, inHead
    <3> QED
      BY <3>1, FS_Subset
  <2> HIDE DEF S, T, f
  <2>5. ExistsBijection(S, T)
    BY <2>1, <2>2, <2>3 DEF ExistsBijection, Bijection, Injection, Surjection, IsInjective
  <2> QED
    BY <2>4, <2>5, FS_Bijection DEF S, T
<1>7. TextCounts(base, inBase) = TextCounts(head, inHead)
  <2> DEFINE A == {TextIs(base[k]) : k \in inBase}
             B == {TextIs(head[j]) : j \in inHead}
             F(t) == Cardinality({k \in inBase : TextIs(base[k]) = t})
             G(t) == Cardinality({j \in inHead : TextIs(head[j]) = t})
  <2>1. TextCounts(base, inBase) = [t \in A |-> F(t)] /\ TextCounts(head, inHead) = [t \in B |-> G(t)]
    BY DEF TextCounts, TextIs
  <2>2. A = B /\ \A t : F(t) = G(t)
    BY <1>5, <1>6
  <2> HIDE DEF A, B, F, G
  <2>3. [t \in A |-> F(t)] = [t \in B |-> G(t)]
    BY <2>2
  <2> QED
    BY <2>1, <2>3
<1>8. inHead # {}
  BY <1>3
<1> QED
  BY <1>7, <1>8 DEF CompareKey

\* What passes the audits of a file has lost or restated nothing, has in a
\* reduction moved no placeholder and proved the target, made no long proof longer
\* and restated nothing that is neither probed nor said to be cut, however the
\* worker edited, for any drafts, scopes, cap and length of the file
\* (statement_immutability.py, sorry_delta.py, style.py and changed_decls.py).
THEOREM AuditsRefuseHolds == AuditsSpec => []AuditsRefuse
<1>1. AuditsTypeOK => AuditsRefuse
  BY NothingIsLost, PlaceholdersStay, TargetIsProved, LongStays, RestatedIsSeen DEF AuditsRefuse
<1> QED
  BY <1>1, AuditsInvariant, PTL

\* compare_declarations refuses neither work that keeps the contract, where the
\* declarations can be told apart and read, nor a file whose declarations are all
\* still there, for any drafts, scopes and length of the file.
THEOREM AuditsPermitHolds == AuditsSpec => []AuditsPermit
<1>1. AuditsTypeOK => AuditsPermit
  BY WorkPasses, UntouchedPasses DEF AuditsPermit
<1> QED
  BY <1>1, AuditsInvariant, PTL

-----------------------------------------------------------------------------
(* AuditJobs: what the files and the commits are.                          *)

Files == [from : Paths, decls : Seq(Declarations)]
CommitsOf == [op : {"edit", "rename", "copy", "delete"}, old : Paths, new : Paths \cup {"none"}]

JobsTypeOK ==
    /\ tree \in [DOMAIN tree -> Files] /\ DOMAIN tree \subseteq Paths
    /\ commits \in Seq(CommitsOf)

LEMMA BaseIs ==
    /\ DOMAIN Base = {"Target", "Other", "notes"}
    /\ Base["Target"] = <<Declared("c", "hole")>>
    /\ Base["Other"] = <<Declared("d", "hole")>>
    /\ Base["notes"] = << >>
BY DEF Base

LEMMA DeclaredIs ==
    ASSUME NEW leaf \in {"c", "d", "e", "f"}, NEW body \in Bodies
    PROVE  Declared(leaf, body) \in Declarations
<1>1. leaf \in STRING /\ "A" \in STRING /\ "A" # "anon"
  BY NamesAssumption
<1> QED
  BY <1>1 DEF Declared, Declarations, Kinds, Statements, Readable

LEMMA BaseIsTyped == \A p \in DOMAIN Base : p \in Paths /\ Base[p] \in Seq(Declarations)
<1>1. Declared("c", "hole") \in Declarations /\ Declared("d", "hole") \in Declarations
  BY DeclaredIs DEF Bodies
<1>2. /\ <<Declared("c", "hole")>> \in Seq(Declarations)
      /\ <<Declared("d", "hole")>> \in Seq(Declarations)
      /\ << >> \in Seq(Declarations)
  BY <1>1
<1> QED
  BY <1>2, BaseIs DEF Paths

LEMMA TasksAre ==
    /\ DOMAIN Tasks = {1, 2}
    /\ Tasks[1] = [file |-> "Target", decl |-> "c"]
    /\ Tasks[2] = [file |-> "Other", decl |-> "d"]
BY DEF Tasks

LEMMA TextsAreTyped ==
    ASSUME JobsTypeOK, NEW p
    PROVE  BaseAt(p) \in Seq(Declarations) /\ HeadAt(p) \in Seq(Declarations)
<1>1. << >> \in Seq(Declarations)
  OBVIOUS
<1> QED
  BY <1>1, BaseIsTyped DEF BaseAt, HeadAt, JobsTypeOK, Files

\* Whatever the transcript of a failed run holds, the job does not pass.
LEMMA FailuresFail == \A failures : ExitCode(ClassifyOutput(failures)) \in {1, 2}
<1> SUFFICES ASSUME NEW failures PROVE ExitCode(ClassifyOutput(failures)) \in {1, 2}
  OBVIOUS
<1> DEFINE found == {i \in DOMAIN FailurePatterns : FailurePatterns[i] \in failures}
<1>1. DOMAIN FailurePatterns = 1..5
  BY DEF FailurePatterns
<1>2. CASE found = {}
  BY <1>2 DEF ClassifyOutput, ExitCode
<1>3. CASE found # {}
  <2>1. \E x \in found : \A y \in found : x <= y
    <3>1. found \subseteq 1..5
      BY <1>1
    <3> HIDE DEF found
    <3>2. PICK z \in found : TRUE
      BY <1>3
    <3>3. CASE 1 \in found
      BY <3>1, <3>3
    <3>4. CASE 1 \notin found /\ 2 \in found
      BY <3>1, <3>4
    <3>5. CASE 1 \notin found /\ 2 \notin found /\ 3 \in found
      BY <3>1, <3>5
    <3>6. CASE 1 \notin found /\ 2 \notin found /\ 3 \notin found /\ 4 \in found
      BY <3>1, <3>6
    <3>7. CASE 1 \notin found /\ 2 \notin found /\ 3 \notin found /\ 4 \notin found
      BY <3>1, <3>2, <3>7
    <3> QED
      BY <3>3, <3>4, <3>5, <3>6, <3>7
  <2>2. Min(found) \in found
    <3> HIDE DEF found
    <3> QED BY <2>1 DEF Min
  <2>3. ClassifyOutput(failures) = FailurePatterns[Min(found)]
    BY <1>3 DEF ClassifyOutput
  <2> HIDE DEF found
  <2>4. PICK i \in 1..5 : i = Min(found)
    BY <1>1, <2>2 DEF found
  <2>5. FailurePatterns[i] \in {"mismatch", "axiom", "missing", "sandbox", "build"}
    BY DEF FailurePatterns
  <2>6. ClassifyOutput(failures) \in {"mismatch", "axiom", "missing", "sandbox", "build"}
    BY <2>3, <2>4, <2>5
  <2> QED
    BY <2>6 DEF ExitCode
<1> QED
  BY <1>2, <1>3

-----------------------------------------------------------------------------
(* AuditJobs: the contributor's commits.                                   *)

\* No file has gone under another name, or one has, at commit k.
StillThere ==
    /\ \A i \in DOMAIN commits : commits[i].op # "rename"
    /\ \A p \in DOMAIN tree : p \in DOMAIN Base /\ tree[p].from = p

MovedBy(k) ==
    /\ commits[k].op = "rename" /\ commits[k].old # commits[k].new
    /\ commits[k].old \in DOMAIN Base \cap SourcePaths
    /\ commits[k].old \notin DOMAIN tree
    /\ commits[k].new \in SourcePaths
    /\ \A p \in DOMAIN tree :
        IF p = commits[k].new THEN tree[p].from = commits[k].old
        ELSE p \in DOMAIN Base /\ tree[p].from = p

MovesInv ==
    /\ \A i \in DOMAIN commits :
        commits[i].op \notin {"rename", "copy"} => commits[i].new = "none"
    /\ MovedOnce => StillThere \/ \E k \in DOMAIN commits : MovedBy(k)

FilesInv == JobsTypeOK /\ MovesInv

LEMMA InitFiles == JobsInit => FilesInv
<1> SUFFICES ASSUME JobsInit PROVE FilesInv
  OBVIOUS
<1>1. /\ tree = [p \in DOMAIN Base |-> [from |-> p, decls |-> Base[p]]]
      /\ commits = << >>
  BY DEF JobsInit
<1>2. JobsTypeOK
  BY <1>1, BaseIsTyped DEF JobsTypeOK, Files
<1>3. StillThere
  BY <1>1 DEF StillThere
<1> QED
  BY <1>1, <1>2, <1>3 DEF FilesInv, MovesInv

LEMMA OneMore ==
    ASSUME NEW D, NEW s \in Seq(D), NEW x \in D
    PROVE  /\ Append(s, x) \in Seq(D)
           /\ DOMAIN Append(s, x) = DOMAIN s \cup {Len(s) + 1}
           /\ Len(s) + 1 \notin DOMAIN s
           /\ \A i \in DOMAIN s : Append(s, x)[i] = s[i]
           /\ Append(s, x)[Len(s) + 1] = x
OBVIOUS

LEMMA OneOther ==
    ASSUME NEW D, NEW s \in Seq(D), NEW i \in DOMAIN s, NEW x \in D
    PROVE  [s EXCEPT ![i] = x] \in Seq(D)
OBVIOUS

\* One more commit.
LEMMA CommitIs ==
    ASSUME FilesInv, NEW op \in {"edit", "rename", "copy", "delete"}, NEW old \in Paths,
           NEW new \in Paths \cup {"none"}, NEW t, Commit(op, old, new, t)
    PROVE  /\ commits' \in Seq(CommitsOf)
           /\ DOMAIN commits' = DOMAIN commits \cup {Len(commits) + 1}
           /\ Len(commits) + 1 \notin DOMAIN commits
           /\ \A i \in DOMAIN commits : commits'[i] = commits[i]
           /\ commits'[Len(commits) + 1] = [op |-> op, old |-> old, new |-> new]
<1>1. commits \in Seq(CommitsOf)
  BY DEF FilesInv, JobsTypeOK
<1>2. commits' = Append(commits, [op |-> op, old |-> old, new |-> new])
  BY DEF Commit
<1>3. [op |-> op, old |-> old, new |-> new] \in CommitsOf
  BY DEF CommitsOf
<1> QED
  BY <1>1, <1>2, <1>3, OneMore

\* What has been moved once now was before.
LEMMA MovedOnceBefore ==
    ASSUME FilesInv, NEW op \in {"edit", "rename", "copy", "delete"}, NEW old \in Paths,
           NEW new \in Paths \cup {"none"}, NEW t, Commit(op, old, new, t), MovedOnce'
    PROVE  /\ MovedOnce /\ op # "copy"
           /\ op = "rename" => \A i \in DOMAIN commits : commits[i].op # "rename"
<1>1. /\ DOMAIN commits' = DOMAIN commits \cup {Len(commits) + 1}
      /\ Len(commits) + 1 \notin DOMAIN commits
      /\ \A i \in DOMAIN commits : commits'[i] = commits[i]
      /\ commits'[Len(commits) + 1] = [op |-> op, old |-> old, new |-> new]
  BY CommitIs
<1>2. \A i \in DOMAIN commits' : commits'[i].op # "copy" /\ \A j \in DOMAIN commits' :
        i # j => {commits'[i].op, commits'[j].op} # {"rename"}
  BY DEF MovedOnce
<1>3. MovedOnce
  <2> SUFFICES ASSUME NEW i \in DOMAIN commits
               PROVE  commits[i].op # "copy" /\ \A j \in DOMAIN commits :
                        i # j => {commits[i].op, commits[j].op} # {"rename"}
    BY DEF MovedOnce
  <2>1. i \in DOMAIN commits' /\ commits'[i] = commits[i]
    BY <1>1
  <2>2. \A j \in DOMAIN commits : j \in DOMAIN commits' /\ commits'[j] = commits[j]
    BY <1>1
  <2>3. commits[i].op # "copy"
    BY <1>2, <2>1
  <2>4. ASSUME NEW j \in DOMAIN commits, i # j
        PROVE  {commits[i].op, commits[j].op} # {"rename"}
    BY <1>2, <2>1, <2>2, <2>4
  <2> QED
    BY <2>3, <2>4
<1>4. op # "copy"
  BY <1>1, <1>2
<1>5. ASSUME op = "rename", NEW i \in DOMAIN commits PROVE commits[i].op # "rename"
  BY <1>1, <1>2, <1>5
<1> QED
  BY <1>3, <1>4, <1>5

\* A commit that names no file anew keeps the files' names, or drops some.
LEMMA NamesStay ==
    ASSUME FilesInv, NEW op \in {"edit", "delete"}, NEW old \in Paths, NEW t,
           Commit(op, old, "none", t),
           t \in [DOMAIN t -> Files], DOMAIN t \subseteq DOMAIN tree,
           \A p \in DOMAIN t : t[p].from = tree[p].from
    PROVE  FilesInv'
<1>1. /\ commits' \in Seq(CommitsOf)
      /\ DOMAIN commits' = DOMAIN commits \cup {Len(commits) + 1}
      /\ \A i \in DOMAIN commits : commits'[i] = commits[i]
      /\ commits'[Len(commits) + 1] = [op |-> op, old |-> old, new |-> "none"]
  <2>1. op \in {"edit", "rename", "copy", "delete"} /\ "none" \in Paths \cup {"none"}
    OBVIOUS
  <2> QED
    BY <2>1, CommitIs
<1>2. tree' = t
  BY DEF Commit
<1>3. JobsTypeOK'
  BY <1>1, <1>2 DEF FilesInv, JobsTypeOK
<1>4. \A i \in DOMAIN commits' :
        commits'[i].op \notin {"rename", "copy"} => commits'[i].new = "none"
  BY <1>1 DEF FilesInv, MovesInv
<1>5. ASSUME MovedOnce' PROVE (StillThere \/ \E k \in DOMAIN commits : MovedBy(k))'
  <2>1. MovedOnce
    BY <1>5, MovedOnceBefore
  <2>2. CASE StillThere
    <3>1. StillThere'
      BY <1>1, <1>2, <2>2 DEF StillThere
    <3> QED
      BY <3>1
  <2>3. ASSUME NEW k \in DOMAIN commits, MovedBy(k) PROVE MovedBy(k)' /\ k \in DOMAIN commits'
    BY <1>1, <1>2, <2>3 DEF MovedBy
  <2> QED
    BY <2>1, <2>2, <2>3 DEF FilesInv, MovesInv
<1> QED
  BY <1>3, <1>4, <1>5 DEF FilesInv, MovesInv

LEMMA FilesAre ==
    ASSUME FilesInv, NEW p \in DOMAIN tree
    PROVE  p \in Paths /\ tree[p] \in Files /\ tree[p].decls \in Seq(Declarations)
BY DEF FilesInv, JobsTypeOK, Files

LEMMA RewriteKeeps ==
    ASSUME FilesInv, NEW p \in Paths, NEW decls \in Seq(Declarations), Rewrite(p, decls)
    PROVE  FilesInv'
<1> DEFINE t == [tree EXCEPT ![p].decls = decls]
<1>1. Commit("edit", p, "none", t)
  BY DEF Rewrite
<1>2. /\ DOMAIN t = DOMAIN tree
      /\ t \in [DOMAIN t -> Files]
      /\ \A q \in DOMAIN t : t[q].from = tree[q].from
  BY FilesAre DEF FilesInv, JobsTypeOK, Files
<1> HIDE DEF t
<1> QED
  BY <1>1, <1>2, NamesStay

LEMMA ProveKeeps == FilesInv /\ Prove => FilesInv'
<1> SUFFICES ASSUME FilesInv, NEW p \in Present, NEW i \in DOMAIN tree[p].decls,
                    NEW body \in {"short", "long"},
                    Rewrite(p, [tree[p].decls EXCEPT ![i].body = body])
             PROVE  FilesInv'
  BY DEF Prove
<1>1. p \in Paths /\ tree[p].decls \in Seq(Declarations)
  BY FilesAre DEF Present
<1>2. [tree[p].decls[i] EXCEPT !.body = body] \in Declarations
  <2>1. tree[p].decls[i] \in Declarations
    BY <1>1
  <2> QED
    BY <2>1 DEF Declarations, Bodies
<1>3. [tree[p].decls EXCEPT ![i].body = body] \in Seq(Declarations)
  BY <1>1, <1>2, OneOther
<1> QED
  BY <1>1, <1>3, RewriteKeeps

LEMMA RestateKeeps == FilesInv /\ Restate => FilesInv'
<1> SUFFICES ASSUME FilesInv, NEW p \in Present, NEW i \in DOMAIN tree[p].decls,
                    Rewrite(p, [tree[p].decls EXCEPT ![i].statement = "s2"])
             PROVE  FilesInv'
  BY DEF Restate
<1>1. p \in Paths /\ tree[p].decls \in Seq(Declarations)
  BY FilesAre DEF Present
<1>2. [tree[p].decls[i] EXCEPT !.statement = "s2"] \in Declarations
  <2>1. tree[p].decls[i] \in Declarations
    BY <1>1
  <2> QED
    BY <2>1 DEF Declarations, Statements, Readable
<1>3. [tree[p].decls EXCEPT ![i].statement = "s2"] \in Seq(Declarations)
  BY <1>1, <1>2, OneOther
<1> QED
  BY <1>1, <1>3, RewriteKeeps

LEMMA LeanKeeps == FilesInv /\ LeanOnObligation => FilesInv'
<1> SUFFICES ASSUME FilesInv, NEW p \in Present,
                    Rewrite(p, Append(tree[p].decls, Declared("e", "hole")))
             PROVE  FilesInv'
  BY DEF LeanOnObligation
<1>1. p \in Paths /\ tree[p].decls \in Seq(Declarations)
  BY FilesAre DEF Present
<1>2. Declared("e", "hole") \in Declarations
  BY DeclaredIs DEF Bodies
<1>3. Append(tree[p].decls, Declared("e", "hole")) \in Seq(Declarations)
  BY <1>1, <1>2
<1> QED
  BY <1>1, <1>3, RewriteKeeps

LEMMA NotesKeep == FilesInv /\ EditNotes => FilesInv'
<1>1. Declared("f", "short") \in Declarations
  BY DeclaredIs DEF Bodies
<1>2. <<Declared("f", "short")>> \in Seq(Declarations) /\ "notes" \in Paths
  BY <1>1 DEF Paths
<1> QED
  BY <1>2, RewriteKeeps DEF EditNotes

LEMMA DeleteKeeps == FilesInv /\ DeleteFile => FilesInv'
<1> SUFFICES ASSUME FilesInv, NEW p \in Present, Commit("delete", p, "none", Without(p))
             PROVE  FilesInv'
  BY DEF DeleteFile
<1>1. p \in Paths
  BY FilesAre DEF Present
<1>2. /\ Without(p) \in [DOMAIN Without(p) -> Files]
      /\ DOMAIN Without(p) \subseteq DOMAIN tree
      /\ \A q \in DOMAIN Without(p) : Without(p)[q].from = tree[q].from
  BY DEF Without, FilesInv, JobsTypeOK
<1> QED
  BY <1>1, <1>2, NamesStay

LEMMA MoveKeeps == FilesInv /\ Move => FilesInv'
<1> SUFFICES ASSUME FilesInv, NEW p \in Present, NEW q \in SourcePaths \ Present,
                    Commit("rename", p, q, With(Without(p), q, tree[p]))
             PROVE  FilesInv'
  BY DEF Move
<1>0. PICK k : k = Len(commits) + 1
  OBVIOUS
<1>1. /\ p \in Paths /\ p \in SourcePaths /\ p \in DOMAIN tree
      /\ q \in SourcePaths /\ q \notin DOMAIN tree /\ q \in Paths /\ p # q
  BY FilesAre DEF Present, SourcePaths
<1>2. /\ commits' \in Seq(CommitsOf)
      /\ DOMAIN commits' = DOMAIN commits \cup {k}
      /\ \A i \in DOMAIN commits : commits'[i] = commits[i]
      /\ commits'[k] = [op |-> "rename", old |-> p, new |-> q]
  BY <1>0, <1>1, CommitIs
<1>3. tree' = With(Without(p), q, tree[p])
  BY DEF Commit
<1>4. DOMAIN Without(p) = DOMAIN tree \ {p} /\ \A r \in DOMAIN Without(p) : Without(p)[r] = tree[r]
  BY DEF Without
<1>5. /\ DOMAIN tree' = (DOMAIN tree \ {p}) \cup {q}
      /\ tree'[q] = tree[p]
      /\ \A r \in DOMAIN tree \ {p} : tree'[r] = tree[r]
      /\ tree' \in [DOMAIN tree' -> Files]
  <2>1. q \notin DOMAIN Without(p)
    BY <1>1, <1>4
  <2> DEFINE t == With(Without(p), q, tree[p])
  <2>2. /\ DOMAIN t = DOMAIN Without(p) \cup {q} /\ t[q] = tree[p]
        /\ \A r \in DOMAIN Without(p) : t[r] = Without(p)[r]
        /\ t \in [DOMAIN Without(p) \cup {q} -> Files]
    <3>1. tree[p] \in Files /\ \A r \in DOMAIN Without(p) : Without(p)[r] \in Files
      BY <1>1, <1>4, FilesAre
    <3> HIDE DEF t
    <3>2. t = With(Without(p), q, tree[p])
      BY DEF t
    <3> QED
      BY <2>1, <3>1, <3>2 DEF With
  <2>3. tree' = t
    BY <1>3
  <2> HIDE DEF t
  <2> QED
    BY <1>4, <2>2, <2>3
<1>6. JobsTypeOK'
  BY <1>1, <1>2, <1>5 DEF FilesInv, JobsTypeOK
<1>7. \A i \in DOMAIN commits' :
        commits'[i].op \notin {"rename", "copy"} => commits'[i].new = "none"
  BY <1>2 DEF FilesInv, MovesInv
<1>8. ASSUME MovedOnce' PROVE MovedBy(k)' /\ k \in DOMAIN commits'
  <2>1. MovedOnce /\ \A i \in DOMAIN commits : commits[i].op # "rename"
    BY <1>1, <1>8, MovedOnceBefore
  <2>2. StillThere
    BY <2>1 DEF FilesInv, MovesInv, MovedBy
  <2>3. p \in DOMAIN Base /\ tree[p].from = p
    BY <1>1, <2>2 DEF StillThere
  <2>4. k \in DOMAIN commits' /\ commits'[k].op = "rename" /\ commits'[k].old = p
        /\ commits'[k].new = q
    BY <1>2
  <2>5. \A r \in DOMAIN tree' : IF r = q THEN tree'[r].from = p
                                ELSE r \in DOMAIN Base /\ tree'[r].from = r
    BY <1>1, <1>5, <2>2, <2>3 DEF StillThere
  <2>6. p \notin DOMAIN tree'
    BY <1>1, <1>5
  <2> QED
    BY <1>1, <2>3, <2>4, <2>5, <2>6 DEF MovedBy
<1> QED
  BY <1>6, <1>7, <1>8 DEF FilesInv, MovesInv

LEMMA CopyKeeps == FilesInv /\ Copy => FilesInv'
<1> SUFFICES ASSUME FilesInv, NEW p \in Present, NEW q \in SourcePaths \ Present,
                    Commit("copy", p, q, With(tree, q, tree[p]))
             PROVE  FilesInv'
  BY DEF Copy
<1>1. /\ p \in Paths /\ p \in DOMAIN tree /\ q \notin DOMAIN tree /\ q \in Paths
  BY FilesAre DEF Present, SourcePaths
<1>2. /\ commits' \in Seq(CommitsOf)
      /\ DOMAIN commits' = DOMAIN commits \cup {Len(commits) + 1}
      /\ \A i \in DOMAIN commits : commits'[i] = commits[i]
      /\ commits'[Len(commits) + 1] = [op |-> "copy", old |-> p, new |-> q]
  BY <1>1, CommitIs
<1>3. tree' = With(tree, q, tree[p])
  BY DEF Commit
<1>4. /\ DOMAIN tree' = DOMAIN tree \cup {q}
      /\ tree'[q] = tree[p]
      /\ \A r \in DOMAIN tree : tree'[r] = tree[r]
      /\ tree' \in [DOMAIN tree' -> Files]
  <2> DEFINE t == With(tree, q, tree[p])
  <2>1. /\ DOMAIN t = DOMAIN tree \cup {q} /\ t[q] = tree[p]
        /\ \A r \in DOMAIN tree : t[r] = tree[r]
        /\ t \in [DOMAIN tree \cup {q} -> Files]
    <3>1. \A r \in DOMAIN tree : tree[r] \in Files
      BY FilesAre
    <3> HIDE DEF t
    <3>2. t = With(tree, q, tree[p])
      BY DEF t
    <3> QED
      BY <1>1, <3>1, <3>2 DEF With
  <2>2. tree' = t
    BY <1>3
  <2> HIDE DEF t
  <2> QED
    BY <2>1, <2>2
<1>5. JobsTypeOK'
  BY <1>1, <1>2, <1>4 DEF FilesInv, JobsTypeOK
<1>6. \A i \in DOMAIN commits' :
        commits'[i].op \notin {"rename", "copy"} => commits'[i].new = "none"
  BY <1>2 DEF FilesInv, MovesInv
<1>7. ~MovedOnce'
  BY <1>1, MovedOnceBefore
<1> QED
  BY <1>5, <1>6, <1>7 DEF FilesInv, MovesInv

LEMMA NextFiles == FilesInv /\ [JobsNext]_jobsVars => FilesInv'
<1>1. ASSUME FilesInv, UNCHANGED <<tree, commits>> PROVE FilesInv'
  BY <1>1 DEF FilesInv, JobsTypeOK, MovesInv, MovedOnce, StillThere, MovedBy
<1>2. ASSUME FilesInv, OpenPullRequest \/ EditDescription PROVE FilesInv'
  BY <1>1, <1>2 DEF OpenPullRequest, EditDescription
<1>3. ASSUME FilesInv, JobStep PROVE FilesInv'
  BY <1>1, <1>3 DEF JobStep
<1>4. SorryReads \/ SorryAudits \/ ImmutabilityAudits \/ ComparatorReads \/ ComparatorRuns
        => JobStep
  BY DEF SorryReads, SorryAudits, ImmutabilityAudits, ComparatorReads, ComparatorRuns
<1>5. ASSUME FilesInv, UNCHANGED jobsVars PROVE FilesInv'
  BY <1>1, <1>5 DEF jobsVars
<1> QED
  BY <1>2, <1>3, <1>4, <1>5, ProveKeeps, RestateKeeps, LeanKeeps, NotesKeep, MoveKeeps,
     CopyKeeps, DeleteKeeps DEF JobsNext

-----------------------------------------------------------------------------
(* AuditJobs: what the jobs have read and answered.                        *)

Jobs == [at : {"queued", "audit", "run", "done"}, read : Descriptions \cup {Queued.read},
         code : {0, 1, 2}, reduction : BOOLEAN]

JobsTyped ==
    /\ sorryJob \in Jobs /\ immutabilityJob \in Jobs /\ comparatorJob \in Jobs
    /\ description \in Descriptions

\* No job starts before the pull request is open.
NoneBeforeOpen ==
    /\ sorryJob.at # "queued" => opened
    /\ immutabilityJob.at # "queued" => opened
    /\ comparatorJob.at # "queued" => opened

\* What the sorry-delta job has read, and what its pass means.
SorryIsRight ==
    /\ sorryJob.at # "done" => sorryJob.code = 0
    /\ (sorryJob.at # "queued" /\ sorryJob.code # 2) =>
        /\ sorryJob.reduction = SorryReadsReduction(sorryJob.read)
        /\ ~edited => sorryJob.read = description
    /\ (Answered(sorryJob, 0) /\ "sorry-delta" \notin broke /\ project.policy = "block") =>
        \A p \in ChangedFiles : SorryVerdict(p, BaseAt(p), HeadAt(p)) # "introduced"

ImmutabilityIsRight ==
    (Answered(immutabilityJob, 0) /\ "statement-immutability" \notin broke) =>
        \A p \in ChangedFiles :
            CompareDeclarations(BaseShow(p, {}), HeadAt(p), project.prover) = "unchanged"

\* What the comparator has read, and what its pass means.
ComparatorIsRight ==
    ComparatorRan =>
        /\ comparatorJob.at # "queued"
        /\ LinkedTask(comparatorJob.read) # NoTask
        /\ comparatorJob.reduction = IsReduction(comparatorJob.read)
        /\ ~edited => comparatorJob.read = description
        /\ Answered(comparatorJob, 0) => Finding = "match"

JobsInv ==
    JobsTyped /\ NoneBeforeOpen /\ SorryIsRight /\ ImmutabilityIsRight /\ ComparatorIsRight

LEMMA InitJobs == JobsInit => JobsInv
<1> SUFFICES ASSUME JobsInit PROVE JobsInv
  OBVIOUS
<1>1. /\ sorryJob = Queued /\ immutabilityJob = Queued /\ comparatorJob = Queued
      /\ description \in Descriptions
  BY DEF JobsInit
<1>2. Queued \in Jobs /\ Queued.at = "queued" /\ Queued.code = 0
  BY DEF Queued, Jobs
<1> QED
  BY <1>1, <1>2 DEF JobsInv, JobsTyped, NoneBeforeOpen, SorryIsRight, ImmutabilityIsRight,
     ComparatorIsRight, ComparatorRan, Answered

\* Before the pull request is open, no job has anything to be right about.
LEMMA CommitsLeaveJobs ==
    ASSUME JobsInv, ~opened,
           UNCHANGED <<sorryJob, immutabilityJob, comparatorJob, description>>
    PROVE  (JobsTyped /\ NoneBeforeOpen /\ SorryIsRight /\ ImmutabilityIsRight
                /\ ComparatorIsRight)'
<1>1. sorryJob.at = "queued" /\ immutabilityJob.at = "queued" /\ comparatorJob.at = "queued"
  BY DEF JobsInv, NoneBeforeOpen
<1>2. sorryJob.code = 0 /\ comparatorJob.read = Queued.read
  BY <1>1 DEF JobsInv, SorryIsRight, ComparatorIsRight, ComparatorRan
<1>3. Queued.read' = Queued.read
  BY DEF Queued
<1> QED
  BY <1>1, <1>2, <1>3 DEF JobsInv, JobsTyped, Jobs, NoneBeforeOpen, SorryIsRight,
     ImmutabilityIsRight, ComparatorIsRight, ComparatorRan, Answered

LEMMA CommitLeavesJobs ==
    ASSUME JobsInv, NEW op, NEW old, NEW new, NEW t, Commit(op, old, new, t)
    PROVE  JobsInv'
BY CommitsLeaveJobs DEF Commit, JobsInv

\* What the jobs compare, when nothing is pushed.
LEMMA NothingIsPushed ==
    ASSUME UNCHANGED <<project, tree, commits>>
    PROVE  /\ ChangedFiles' = ChangedFiles
           /\ \A p : BaseShow(p, {})' = BaseShow(p, {}) /\ HeadAt(p)' = HeadAt(p)
           /\ \A read : /\ SorryReadsReduction(read)' = SorryReadsReduction(read)
                        /\ IsReduction(read)' = IsReduction(read)
BY DEF ChangedFiles, PRFiles, Paired, Renamed, BaseShow, DetectRename, HeadAt,
       SorryReadsReduction, IsReduction

LEMMA SorryStays ==
    ASSUME JobsInv, UNCHANGED <<project, tree, commits, sorryJob>>,
           "sorry-delta" \in broke => "sorry-delta" \in broke',
           sorryJob.at = "queued" \/ UNCHANGED <<edited, description>> \/ edited'
    PROVE  SorryIsRight'
<1>1. /\ ChangedFiles' = ChangedFiles
      /\ \A p : HeadAt(p)' = HeadAt(p)
      /\ SorryReadsReduction(sorryJob.read)' = SorryReadsReduction(sorryJob.read)
  BY NothingIsPushed
<1>2. ASSUME NEW p
      PROVE  SorryVerdict(p, BaseAt(p), HeadAt(p))' = SorryVerdict(p, BaseAt(p), HeadAt(p))
  <2>1. HeadAt(p)' = HeadAt(p) /\ BaseAt(p)' = BaseAt(p)
    BY <1>1 DEF BaseAt, Base
  <2> QED
    BY <2>1 DEF SorryVerdict
<1> QED
  BY <1>1, <1>2 DEF JobsInv, SorryIsRight, Answered

LEMMA ImmutabilityStays ==
    ASSUME JobsInv, UNCHANGED <<project, tree, commits, immutabilityJob>>,
           "statement-immutability" \in broke => "statement-immutability" \in broke'
    PROVE  ImmutabilityIsRight'
<1>1. /\ ChangedFiles' = ChangedFiles
      /\ \A p : BaseShow(p, {})' = BaseShow(p, {}) /\ HeadAt(p)' = HeadAt(p)
  BY NothingIsPushed
<1> QED
  BY <1>1 DEF JobsInv, ImmutabilityIsRight, Answered

LEMMA ComparatorStays ==
    ASSUME JobsInv, UNCHANGED <<project, tree, commits, comparatorJob>>,
           comparatorJob.at = "queued" \/ UNCHANGED <<edited, description>> \/ edited'
    PROVE  ComparatorIsRight'
<1>1. IsReduction(comparatorJob.read)' = IsReduction(comparatorJob.read)
  BY NothingIsPushed
<1>2. Finding' = Finding
  BY DEF Finding, HeadAt, BaseAt, SorryPermitted
<1>3. LinkedTask(comparatorJob.read)' = LinkedTask(comparatorJob.read)
  BY DEF LinkedTask
<1>4. ComparatorRan' <=> ComparatorRan
  BY DEF ComparatorRan, Queued
<1> QED
  BY <1>1, <1>2, <1>3, <1>4 DEF JobsInv, ComparatorIsRight, Answered

LEMMA OpenIsRight == JobsInv /\ OpenPullRequest => JobsInv'
BY CommitsLeaveJobs DEF OpenPullRequest, JobsInv

LEMMA EditIsRight == JobsInv /\ EditDescription => JobsInv'
<1> SUFFICES ASSUME JobsInv, EditDescription PROVE JobsInv'
  OBVIOUS
<1>1. JobsTyped'
  BY DEF JobsInv, JobsTyped, Jobs, Queued, EditDescription
<1>2. NoneBeforeOpen'
  BY DEF JobsInv, NoneBeforeOpen, EditDescription
<1>3. SorryIsRight'
  BY SorryStays DEF EditDescription
<1>4. ImmutabilityIsRight'
  BY ImmutabilityStays DEF EditDescription
<1>5. ComparatorIsRight'
  BY ComparatorStays DEF EditDescription
<1> QED
  BY <1>1, <1>2, <1>3, <1>4, <1>5 DEF JobsInv

LEMMA DoneIs ==
    ASSUME NEW job \in Jobs, NEW code \in {0, 1, 2}
    PROVE  /\ Done(job, code) \in Jobs
           /\ Done(job, code).at = "done" /\ Done(job, code).code = code
           /\ Done(job, code).read = job.read /\ Done(job, code).reduction = job.reduction
BY DEF Done, Jobs

LEMMA SorryReadsRight == JobsInv /\ SorryReads => JobsInv'
<1> SUFFICES ASSUME JobsInv, SorryReads PROVE JobsInv'
  OBVIOUS
<1>1. /\ opened /\ sorryJob.at = "queued" /\ sorryJob.code = 0 /\ sorryJob \in Jobs
      /\ UNCHANGED <<project, tree, commits, description, opened, edited, immutabilityJob,
                     comparatorJob, broke>>
  BY DEF SorryReads, JobStep, JobsInv, JobsTyped, SorryIsRight
<1>2. ImmutabilityIsRight' /\ ComparatorIsRight'
  BY <1>1, ImmutabilityStays, ComparatorStays
<1>3. CASE sorryJob' = [sorryJob EXCEPT !.at = "audit", !.read = description,
                                        !.reduction = SorryReadsReduction(description)]
  <2>1. SorryReadsReduction(description) \in BOOLEAN
    BY DEF SorryReadsReduction
  <2>2. /\ sorryJob' \in Jobs /\ sorryJob'.at = "audit" /\ sorryJob'.read = description
        /\ sorryJob'.reduction = SorryReadsReduction(description) /\ sorryJob'.code = 0
    BY <1>1, <1>3, <2>1 DEF Jobs, JobsInv, JobsTyped
  <2>3. SorryReadsReduction(description)' = SorryReadsReduction(description)
    BY <1>1, NothingIsPushed
  <2>4. SorryIsRight'
    BY <1>1, <2>2, <2>3 DEF SorryIsRight, Answered
  <2> QED
    BY <1>1, <1>2, <2>2, <2>4 DEF JobsInv, JobsTyped, Jobs, Queued, NoneBeforeOpen
<1>4. CASE sorryJob' = Done(sorryJob, 2)
  <2>1. sorryJob' \in Jobs /\ sorryJob'.at = "done" /\ sorryJob'.code = 2
    BY <1>1, <1>4, DoneIs
  <2>2. SorryIsRight'
    BY <2>1 DEF SorryIsRight, Answered
  <2> QED
    BY <1>1, <1>2, <2>1, <2>2 DEF JobsInv, JobsTyped, Jobs, Queued, NoneBeforeOpen
<1> QED
  BY <1>3, <1>4 DEF SorryReads

LEMMA SorryAuditsRight == JobsInv /\ SorryAudits => JobsInv'
<1> SUFFICES ASSUME JobsInv, SorryAudits PROVE JobsInv'
  OBVIOUS
<1>1. /\ opened /\ sorryJob.at = "audit" /\ sorryJob.code = 0 /\ sorryJob \in Jobs
      /\ UNCHANGED <<project, tree, commits, description, opened, edited, immutabilityJob,
                     comparatorJob>>
  BY DEF SorryAudits, JobStep, JobsInv, JobsTyped, SorryIsRight
<1>3. PICK lost \in Failures({"base", "head"}) :
        /\ broke' = IF lost = {} THEN broke ELSE broke \cup {"sorry-delta"}
        /\ LET text(p, side, t) == IF <<p, side>> \in lost THEN << >> ELSE t
               introduced == {p \in ChangedFiles :
                    SorryVerdict(p, text(p, "base", BaseAt(p)), text(p, "head", HeadAt(p)))
                        = "introduced"}
           IN  sorryJob' = Done(sorryJob,
                    IF introduced # {} /\ project.policy = "block" THEN 1 ELSE 0)
  BY DEF SorryAudits
<1>2. ImmutabilityIsRight' /\ ComparatorIsRight'
  <2>1. broke \subseteq broke'
    BY <1>3
  <2> QED
    BY <1>1, <2>1, ImmutabilityStays, ComparatorStays
<1> DEFINE text(p, side, t) == IF <<p, side>> \in lost THEN << >> ELSE t
           introduced == {p \in ChangedFiles :
                SorryVerdict(p, text(p, "base", BaseAt(p)), text(p, "head", HeadAt(p)))
                    = "introduced"}
           code == IF introduced # {} /\ project.policy = "block" THEN 1 ELSE 0
<1>4. sorryJob' = Done(sorryJob, code)
  BY <1>3
<1>5. code \in {0, 1} /\ (project.policy = "block" /\ code = 0 => introduced = {})
  OBVIOUS
<1>6. /\ sorryJob' \in Jobs /\ sorryJob'.at = "done" /\ sorryJob'.code = code
      /\ sorryJob'.read = sorryJob.read /\ sorryJob'.reduction = sorryJob.reduction
  <2> HIDE DEF code
  <2> QED BY <1>1, <1>4, <1>5, DoneIs
<1>7. ASSUME Answered(sorryJob, 0)', "sorry-delta" \notin broke', project.policy = "block",
             NEW p \in ChangedFiles
      PROVE  SorryVerdict(p, BaseAt(p), HeadAt(p))' # "introduced"
  <2>1. lost = {} /\ code = 0
    BY <1>3, <1>6, <1>7 DEF Answered
  <2>2. p \notin introduced
    BY <1>5, <1>7, <2>1
  <2>3. SorryVerdict(p, BaseAt(p), HeadAt(p)) # "introduced"
    BY <2>1, <2>2
  <2>4. HeadAt(p)' = HeadAt(p) /\ BaseAt(p)' = BaseAt(p)
    BY <1>1 DEF HeadAt, BaseAt
  <2>5. SorryVerdict(p, BaseAt(p), HeadAt(p))' = SorryVerdict(p, BaseAt(p), HeadAt(p))
    BY <1>6, <2>4 DEF SorryVerdict
  <2> QED
    BY <2>3, <2>5
<1>8. /\ SorryReadsReduction(sorryJob.read)' = SorryReadsReduction(sorryJob.read)
      /\ ChangedFiles' = ChangedFiles
  <2>1. \A read : SorryReadsReduction(read)' = SorryReadsReduction(read)
    BY <1>1, NothingIsPushed
  <2> QED
    BY <1>1, <1>6, <2>1, NothingIsPushed
<1>9. SorryIsRight'
  BY <1>1, <1>6, <1>7, <1>8 DEF JobsInv, SorryIsRight
<1> QED
  BY <1>1, <1>2, <1>6, <1>9 DEF JobsInv, JobsTyped, Jobs, Queued, NoneBeforeOpen

LEMMA ImmutabilityAuditsRight == JobsInv /\ ImmutabilityAudits => JobsInv'
<1> SUFFICES ASSUME JobsInv, ImmutabilityAudits PROVE JobsInv'
  OBVIOUS
<1>1. /\ opened /\ immutabilityJob.at = "queued" /\ immutabilityJob \in Jobs
      /\ UNCHANGED <<project, tree, commits, description, opened, edited, sorryJob,
                     comparatorJob>>
  BY DEF ImmutabilityAudits, JobStep, JobsInv, JobsTyped
<1>2. SorryIsRight' /\ ComparatorIsRight'
  <2>1. "sorry-delta" \in broke => "sorry-delta" \in broke'
    BY DEF ImmutabilityAudits
  <2> QED
    BY <1>1, <2>1, SorryStays, ComparatorStays
<1> DEFINE verdicts(lost) == {CompareDeclarations(BaseShow(p, lost), HeadShow(p, lost),
                                                  project.prover) : p \in ChangedFiles}
           code(lost) == IF verdicts(lost) \subseteq {"unchanged"} THEN 0 ELSE 1
<1>3. PICK lost, n :
        /\ immutabilityJob' = Done(immutabilityJob, n)
        /\ \/ n = 2
           \/ /\ n \in {0, 1} /\ n = code(lost)
              /\ lost # {} => "statement-immutability" \in broke'
  <2>1. ASSUME NEW lost,
               broke' = IF lost = {} THEN broke
                        ELSE broke \cup {"statement-immutability"},
               immutabilityJob' = Done(immutabilityJob, code(lost))
        PROVE  /\ code(lost) \in {0, 1}
               /\ lost # {} => "statement-immutability" \in broke'
    BY <2>1
  <2>2. CASE immutabilityJob' = Done(immutabilityJob, 2)
    BY <2>2
  <2>3. CASE \E lost \in Failures({"log", "base", "head"}) :
                /\ broke' = IF lost = {} THEN broke
                            ELSE broke \cup {"statement-immutability"}
                /\ immutabilityJob' = Done(immutabilityJob, code(lost))
    <3>1. PICK lost : /\ broke' = IF lost = {} THEN broke
                                  ELSE broke \cup {"statement-immutability"}
                      /\ immutabilityJob' = Done(immutabilityJob, code(lost))
      BY <2>3
    <3>2. PICK n \in {0, 1} : n = code(lost)
      BY <2>1, <3>1
    <3>3. lost # {} => "statement-immutability" \in broke'
      BY <2>1, <3>1
    <3> HIDE DEF code
    <3> QED BY <3>1, <3>2, <3>3, Zenon
  <2> QED
    BY <2>2, <2>3 DEF ImmutabilityAudits
<1>5. /\ immutabilityJob' \in Jobs /\ immutabilityJob'.at = "done"
      /\ immutabilityJob'.code = n
  BY <1>1, <1>3, DoneIs
<1>6. ASSUME Answered(immutabilityJob, 0)', "statement-immutability" \notin broke',
             NEW p \in ChangedFiles'
      PROVE  CompareDeclarations(BaseShow(p, {}), HeadAt(p), project.prover)' = "unchanged"
  <2>1. n = 0
    BY <1>5, <1>6 DEF Answered
  <2>2. lost = {} /\ code({}) = 0
    BY <1>3, <1>6, <2>1
  <2>3. verdicts({}) \subseteq {"unchanged"}
    BY <2>2
  <2>4. /\ p \in ChangedFiles
        /\ BaseShow(p, {})' = BaseShow(p, {}) /\ HeadAt(p)' = HeadAt(p)
    BY <1>1, <1>6, NothingIsPushed
  <2>5. HeadShow(p, {}) = HeadAt(p)
    BY DEF HeadShow
  <2>6. CompareDeclarations(BaseShow(p, {}), HeadShow(p, {}), project.prover) = "unchanged"
    BY <2>3, <2>4
  <2> QED
    BY <1>1, <2>4, <2>5, <2>6
<1>7. ImmutabilityIsRight'
  BY <1>6 DEF ImmutabilityIsRight
<1> QED
  BY <1>1, <1>2, <1>5, <1>7 DEF JobsInv, JobsTyped, Jobs, Queued, NoneBeforeOpen

LEMMA ComparatorReadsRight == JobsInv /\ ComparatorReads => JobsInv'
<1> SUFFICES ASSUME JobsInv, ComparatorReads PROVE JobsInv'
  OBVIOUS
<1>1. /\ opened /\ comparatorJob.at = "queued" /\ comparatorJob \in Jobs
      /\ comparatorJob.read = Queued.read
      /\ UNCHANGED <<project, tree, commits, description, opened, edited, sorryJob,
                     immutabilityJob, broke>>
  BY DEF ComparatorReads, JobStep, JobsInv, JobsTyped, ComparatorIsRight, ComparatorRan
<1>2. SorryIsRight' /\ ImmutabilityIsRight'
  BY <1>1, SorryStays, ImmutabilityStays
<1>3. \/ /\ LinkedTask(description) # NoTask
         /\ comparatorJob' = [comparatorJob EXCEPT !.at = "run", !.read = description,
                                 !.reduction = IsReduction(description)]
      \/ \E code \in {0, 2} : comparatorJob' = Done(comparatorJob, code)
  BY DEF ComparatorReads
<1>4. CASE /\ LinkedTask(description) # NoTask
           /\ comparatorJob' = [comparatorJob EXCEPT !.at = "run", !.read = description,
                                   !.reduction = IsReduction(description)]
  <2>1. IsReduction(description) \in BOOLEAN
    BY DEF IsReduction
  <2>2. /\ comparatorJob' \in Jobs /\ comparatorJob'.at = "run"
        /\ comparatorJob'.read = description
        /\ comparatorJob'.reduction = IsReduction(description)
    BY <1>1, <1>4, <2>1 DEF Jobs, JobsInv, JobsTyped
  <2>3. IsReduction(description)' = IsReduction(description)
    BY <1>1, NothingIsPushed
  <2>4. LinkedTask(comparatorJob.read)' = LinkedTask(description)
    BY <2>2 DEF LinkedTask
  <2>5. ComparatorIsRight'
    BY <1>1, <1>4, <2>2, <2>3, <2>4 DEF ComparatorIsRight, Answered
  <2> QED
    BY <1>1, <1>2, <2>2, <2>5 DEF JobsInv, JobsTyped, Jobs, Queued, NoneBeforeOpen
<1>5. ASSUME NEW code \in {0, 2}, comparatorJob' = Done(comparatorJob, code) PROVE JobsInv'
  <2>1. comparatorJob' \in Jobs /\ comparatorJob'.at = "done"
        /\ comparatorJob'.read = Queued.read
    BY <1>1, <1>5, DoneIs
  <2>2. ComparatorIsRight'
    BY <2>1 DEF ComparatorIsRight, ComparatorRan, Queued
  <2> QED
    BY <1>1, <1>2, <2>1, <2>2 DEF JobsInv, JobsTyped, Jobs, Queued, NoneBeforeOpen
<1> QED
  BY <1>3, <1>4, <1>5

LEMMA ComparatorRunsRight == JobsInv /\ ComparatorRuns => JobsInv'
<1> SUFFICES ASSUME JobsInv, ComparatorRuns PROVE JobsInv'
  OBVIOUS
<1>1. /\ opened /\ comparatorJob.at = "run" /\ comparatorJob \in Jobs
      /\ UNCHANGED <<project, tree, commits, description, opened, edited, sorryJob,
                     immutabilityJob, broke>>
  BY DEF ComparatorRuns, JobStep, JobsInv, JobsTyped
<1>2. SorryIsRight' /\ ImmutabilityIsRight'
  BY <1>1, SorryStays, ImmutabilityStays
<1>3. PICK code \in {0, 1, 2} :
        comparatorJob' = Done(comparatorJob, code) /\ (code = 0 => Finding = "match")
  <2>1. CASE Finding = "match" /\ comparatorJob' = Done(comparatorJob, 0)
    BY <2>1
  <2>2. ASSUME NEW failures,
               comparatorJob' = Done(comparatorJob, ExitCode(ClassifyOutput(failures)))
        PROVE  \E code \in {0, 1, 2} :
                comparatorJob' = Done(comparatorJob, code) /\ (code = 0 => Finding = "match")
    <3>1. PICK code \in {1, 2} : code = ExitCode(ClassifyOutput(failures))
      BY FailuresFail
    <3> QED
      BY <2>2, <3>1
  <2> QED
    BY <2>1, <2>2 DEF ComparatorRuns
<1>4. /\ comparatorJob' \in Jobs /\ comparatorJob'.at = "done" /\ comparatorJob'.code = code
      /\ comparatorJob'.read = comparatorJob.read
      /\ comparatorJob'.reduction = comparatorJob.reduction
  BY <1>1, <1>3, DoneIs
<1>5. Finding' = Finding
  BY <1>1, <1>4 DEF Finding, HeadAt, BaseAt, SorryPermitted
<1>6. /\ LinkedTask(comparatorJob.read)' = LinkedTask(comparatorJob.read)
      /\ ComparatorRan' <=> ComparatorRan
  BY <1>4 DEF LinkedTask, ComparatorRan, Queued
<1>7. IsReduction(comparatorJob.read)' = IsReduction(comparatorJob.read)
  <2>1. \A read : IsReduction(read)' = IsReduction(read)
    BY <1>1, NothingIsPushed
  <2> QED
    BY <1>4, <2>1
<1>8. ComparatorIsRight'
  BY <1>1, <1>3, <1>4, <1>5, <1>6, <1>7 DEF JobsInv, ComparatorIsRight, Answered
<1> QED
  BY <1>1, <1>2, <1>4, <1>8 DEF JobsInv, JobsTyped, Jobs, Queued, NoneBeforeOpen

LEMMA NextJobs == JobsInv /\ [JobsNext]_jobsVars => JobsInv'
<1> SUFFICES ASSUME JobsInv, [JobsNext]_jobsVars PROVE JobsInv'
  OBVIOUS
<1>1. CASE Prove \/ Restate \/ LeanOnObligation \/ EditNotes
  BY <1>1, CommitLeavesJobs DEF Prove, Restate, LeanOnObligation, EditNotes, Rewrite
<1>2. CASE Move \/ Copy \/ DeleteFile
  BY <1>2, CommitLeavesJobs DEF Move, Copy, DeleteFile
<1>3. CASE UNCHANGED jobsVars
  <2>1. /\ UNCHANGED <<project, tree, commits, sorryJob, broke, edited, description,
                       immutabilityJob, comparatorJob, opened>>
    BY <1>3 DEF jobsVars
  <2>2. SorryIsRight' /\ ImmutabilityIsRight' /\ ComparatorIsRight'
    BY <2>1, SorryStays, ImmutabilityStays, ComparatorStays
  <2> QED
    BY <2>1, <2>2 DEF JobsInv, JobsTyped, Jobs, Queued, NoneBeforeOpen
<1> QED
  BY <1>1, <1>2, <1>3, OpenIsRight, EditIsRight, SorryReadsRight, SorryAuditsRight,
     ImmutabilityAuditsRight, ComparatorReadsRight, ComparatorRunsRight DEF JobsNext

LEMMA JobsInvariant == JobsSpec => [](FilesInv /\ JobsInv)
BY InitFiles, NextFiles, InitJobs, NextJobs, PTL DEF JobsSpec

-----------------------------------------------------------------------------
(* AuditJobs: what the answers mean.                                       *)

LEMMA JobsAgree == JobsInv => JobsAgreeUnlessEdited
<1> SUFFICES ASSUME JobsInv, sorryJob.at # "queued", sorryJob.code # 2, ComparatorRan, ~edited
             PROVE  sorryJob.reduction = comparatorJob.reduction
  BY DEF JobsAgreeUnlessEdited
<1>1. /\ sorryJob.reduction = SorryReadsReduction(description)
      /\ comparatorJob.reduction = IsReduction(description)
      /\ LinkedTask(description) # NoTask
  BY DEF JobsInv, SorryIsRight, ComparatorIsRight
<1> QED
  BY <1>1 DEF SorryReadsReduction, IsReduction

LEMMA SorryCountIs ==
    ASSUME NEW side \in Seq(Declarations)
    PROVE  /\ SorryCount(side) \in Nat
           /\ SorryCount(side) > 0 <=> \E i \in DOMAIN side : Holes(side[i]) > 0
<1> DEFINE S == DOMAIN side
<1>1. IsFiniteSet(S)
  BY IndicesFinite
<1>2. SorryCount(side) = MapThenSumSet(LAMBDA i : Holes(side[i]), S)
  BY DEF SorryCount
<1>3. /\ SorryCount(side) \in Nat
      /\ SorryCount(side) > 0 <=> \E i \in S : Holes(side[i]) > 0
  <2> HIDE DEF S
  <2> QED BY <1>1, <1>2, SumOfHoles
<1> QED
  BY <1>3

LEMMA NoMorePlaceholders == FilesInv /\ JobsInv => NoNewPlaceholdersElsewhere
<1> SUFFICES ASSUME FilesInv, JobsInv, Answered(sorryJob, 0), project.policy = "block",
                    "sorry-delta" \notin broke, NEW p \in ChangedFiles,
                    ~(sorryJob.reduction /\ p = LinkedTask(sorryJob.read).file)
             PROVE  SorryCount(HeadAt(p)) <= SorryCount(BaseAt(p))
  BY DEF NoNewPlaceholdersElsewhere
<1>1. SorryVerdict(p, BaseAt(p), HeadAt(p)) # "introduced"
  BY DEF JobsInv, SorryIsRight
<1>2. ~(SorryCount(HeadAt(p)) > SorryCount(BaseAt(p)))
  BY <1>1 DEF SorryVerdict, CompareSorries
<1>3. SorryCount(HeadAt(p)) \in Nat /\ SorryCount(BaseAt(p)) \in Nat
  BY TextsAreTyped, SorryCountIs DEF FilesInv
<1> QED
  BY <1>2, <1>3

LEMMA TaskIs ==
    ASSUME NEW read, LinkedTask(read) # NoTask
    PROVE  LET task == LinkedTask(read)
           IN  \/ task.file = "Target" /\ task.decl = "c"
               \/ task.file = "Other" /\ task.decl = "d"
BY TasksAre DEF LinkedTask

\* The statements of a name in a file.
Stated(side, leaf) == {side[i].statement : i \in {j \in DOMAIN side : side[j].leaf = leaf}}

LEMMA TaskIsStated ==
    ASSUME NEW read, LinkedTask(read) # NoTask
    PROVE  LET task == LinkedTask(read)
           IN  task.file \in DOMAIN Base /\ Stated(BaseAt(task.file), task.decl) = {"s1"}
<1>1. ASSUME NEW leaf PROVE Stated(<<Declared(leaf, "hole")>>, leaf) = {"s1"}
  <2>1. /\ Declared(leaf, "hole").leaf = leaf /\ Declared(leaf, "hole").statement = "s1"
    BY DEF Declared
  <2> DEFINE side == <<Declared(leaf, "hole")>>
  <2>2. DOMAIN side = {1} /\ side[1].leaf = leaf /\ side[1].statement = "s1"
    BY <2>1
  <2> HIDE DEF side
  <2>3. Stated(side, leaf) = {"s1"}
    BY <2>2 DEF Stated
  <2> QED
    BY <2>3 DEF side
<1> QED
  BY <1>1, TaskIs, BaseIs DEF BaseAt

LEMMA MatchIs ==
    ASSUME Finding = "match"
    PROVE  LET task == LinkedTask(comparatorJob.read)
               h == HeadAt(task.file)
           IN  /\ Stated(h, task.decl) = Stated(BaseAt(task.file), task.decl)
               /\ SorryPermitted \/ ~RestsOnSorry(h, task.decl)
<1> DEFINE task == LinkedTask(comparatorJob.read)
           h == HeadAt(task.file)
           is == Stated(h, task.decl)
           was == Stated(BaseAt(task.file), task.decl)
           built == task.file \in DOMAIN tree /\ Builds(h)
           rests == RestsOnSorry(h, task.decl)
<1>1. Finding = CASE ~built -> "build"
                  [] built /\ is = {} -> "missing"
                  [] built /\ is # {} /\ is # was -> "mismatch"
                  [] built /\ is = was /\ ~SorryPermitted /\ rests -> "axiom"
                  [] OTHER -> "match"
  BY DEF Finding, Stated
<1> HIDE DEF task, h, is, was, built, rests
<1>2. is # {} /\ is = was /\ (SorryPermitted \/ ~rests)
  BY <1>1
<1> QED
  BY <1>2, SMTT(30) DEF task, h, is, was, rests

LEMMA GreenIsProved == FilesInv /\ JobsInv => GreenMeansProved
<1> DEFINE task == LinkedTask(comparatorJob.read)
           h == HeadAt(task.file)
           b == BaseAt(task.file)
<1> SUFFICES ASSUME FilesInv, JobsInv,
                    \A job \in {sorryJob, immutabilityJob, comparatorJob} : Answered(job, 0),
                    ComparatorRan, project.policy = "block", ~edited, broke = {}
             PROVE  /\ \E i \in DOMAIN h :
                        h[i].leaf = task.decl /\ h[i].statement = "s1" /\ h[i].body # "hole"
                    /\ \/ ~RestsOnSorry(h, task.decl)
                       \/ /\ comparatorJob.read.block = task.decl
                          /\ \A i \in DOMAIN h : h[i].body = "hole" => h[i].leaf \in Children
  BY DEF GreenMeansProved
<1>1. Answered(sorryJob, 0) /\ Answered(comparatorJob, 0)
  OBVIOUS
<1>2. h \in Seq(Declarations) /\ b \in Seq(Declarations)
  BY TextsAreTyped DEF FilesInv
<1>3. /\ comparatorJob.reduction = IsReduction(comparatorJob.read)
      /\ task # NoTask /\ Finding = "match"
      /\ comparatorJob.read = description
  BY <1>1 DEF JobsInv, ComparatorIsRight
<1>4. /\ sorryJob.reduction = comparatorJob.reduction /\ sorryJob.read = description
      /\ \A p \in ChangedFiles : SorryVerdict(p, BaseAt(p), HeadAt(p)) # "introduced"
  <2>1. sorryJob.at # "queued" /\ sorryJob.code # 2
    BY <1>1 DEF Answered
  <2> QED
    BY <1>1, <2>1, JobsAgree DEF JobsInv, SorryIsRight, JobsAgreeUnlessEdited
<1>5. Stated(h, task.decl) = {"s1"} /\ (SorryPermitted \/ ~RestsOnSorry(h, task.decl))
  BY <1>3, MatchIs, TaskIsStated
<1>6. PICK i \in DOMAIN h : h[i].leaf = task.decl /\ h[i].statement = "s1"
  <2> HIDE DEF task, h
  <2>1. "s1" \in Stated(h, task.decl)
    BY <1>5
  <2> QED
    BY <2>1 DEF Stated
<1>7. \A d \in Declarations : Holes(d) > 0 <=> d.body = "hole"
  BY DEF Holes
<1>8. \A k \in DOMAIN h : Holes(h[k]) > 0 <=> h[k].body = "hole"
  BY <1>2, <1>7
<1>9. CASE comparatorJob.reduction
  <2>1. comparatorJob.read.block = task.decl /\ task.file \in ChangedFiles
    BY <1>3, <1>9 DEF IsReduction
  <2>2. CompareReduction(b, h, task.decl, Children) # "introduced"
    BY <1>3, <1>4, <1>9, <2>1 DEF SorryVerdict
  <2>3. CompareReduction(b, h, task.decl, Children) = "clean"
    BY <2>2 DEF CompareReduction
  <2>4. \A k \in DOMAIN h : Holes(h[k]) > 0 =>
            /\ h[k].leaf # task.decl
            /\ \/ h[k].leaf \in Children
               \/ \E j \in DOMAIN b : CountKey(b[j]) = CountKey(h[k])
    BY <1>2, <2>3, CleanReduction
  <2>5. \A j \in DOMAIN b : b[j].leaf = task.decl
    <3>1. /\ Declared("c", "hole").leaf = "c" /\ Declared("d", "hole").leaf = "d"
      BY DEF Declared
    <3>2. \/ task.decl = "c" /\ b = <<Declared("c", "hole")>>
          \/ task.decl = "d" /\ b = <<Declared("d", "hole")>>
      BY <1>3, TaskIs, BaseIs DEF BaseAt
    <3> HIDE DEF task, b
    <3> QED BY <3>1, <3>2
  <2>6. ASSUME NEW k \in DOMAIN h, h[k].body = "hole" PROVE h[k].leaf \in Children
    <3> HIDE DEF task, b, h
    <3>1. h[k].leaf # task.decl
      BY <1>8, <2>4, <2>6
    <3>2. \A j \in DOMAIN b : CountKey(b[j]) # CountKey(h[k])
      BY <2>5, <3>1 DEF CountKey
    <3> QED
      BY <1>8, <2>4, <2>6, <3>2
  <2>7. h[i].body # "hole"
    BY <1>6, <1>8, <2>4
  <2> QED
    BY <1>6, <2>1, <2>6, <2>7
<1>10. CASE ~comparatorJob.reduction
  <2>1. ~RestsOnSorry(h, task.decl)
    BY <1>5, <1>10 DEF SorryPermitted
  <2>2. h[i].body # "hole"
    <3> HIDE DEF task, h
    <3> QED BY <1>6, <1>8, <2>1 DEF RestsOnSorry
  <2> QED
    BY <1>6, <2>1, <2>2
<1> QED
  BY <1>9, <1>10

\* Of a commit that renamed nothing else to this name, the name it had.
LEMMA RenameIsDetected ==
    ASSUME FilesInv, MovedOnce, NEW p \in SourcePaths
    PROVE  \/ StillThere /\ DetectRename(p, {}) = p
           \/ \E k \in DOMAIN commits :
                /\ MovedBy(k)
                /\ DetectRename(p, {}) = IF p = commits[k].new THEN commits[k].old ELSE p
<1> DEFINE naming == {i \in DOMAIN commits : commits[i].new = p}
<1>1. /\ p # "none" /\ commits \in Seq(CommitsOf)
      /\ \A i \in DOMAIN commits :
            /\ commits[i].op # "copy"
            /\ commits[i].op # "rename" => commits[i].new = "none"
  BY DEF SourcePaths, Paths, FilesInv, JobsTypeOK, MovesInv, MovedOnce
<1>2. naming = {} => DetectRename(p, {}) = p
  BY DEF DetectRename
<1>3. CASE StillThere
  <2>1. naming = {}
    BY <1>1, <1>3 DEF StillThere
  <2> QED
    BY <1>2, <1>3, <2>1
<1>4. ASSUME NEW k \in DOMAIN commits, MovedBy(k)
      PROVE  DetectRename(p, {}) = IF p = commits[k].new THEN commits[k].old ELSE p
  <2>1. commits[k].op = "rename"
    BY <1>4 DEF MovedBy
  <2>2. \A i \in DOMAIN commits : commits[i].op = "rename" => i = k
    BY <2>1 DEF MovedOnce
  <2>3. naming \subseteq {k} /\ (k \in naming <=> p = commits[k].new)
    BY <1>1, <2>2
  <2>4. CASE p = commits[k].new
    <3>1. naming = {k} /\ k \in Int
      BY <1>1, <2>3, <2>4
    <3>2. Max(naming) = k
      BY <3>1, OnlyOneIsMax
    <3> QED
      BY <2>1, <2>4, <3>1, <3>2 DEF DetectRename
  <2>5. CASE p # commits[k].new
    <3>1. naming = {}
      BY <2>3, <2>5
    <3> QED
      BY <1>2, <2>5, <3>1
  <2> QED
    BY <2>4, <2>5
<1> QED
  BY <1>3, <1>4 DEF FilesInv, MovesInv

\* What the immutability job compared is all in head.
LEMMA ShownIsKept ==
    ASSUME FilesInv, ImmutabilityIsRight, Answered(immutabilityJob, 0),
           "statement-immutability" \notin broke, NEW p \in ChangedFiles,
           NEW i \in DOMAIN BaseShow(p, {})
    PROVE  \E j \in DOMAIN HeadAt(p) :
                /\ HeadAt(p)[j].leaf = BaseShow(p, {})[i].leaf
                /\ HeadAt(p)[j].statement = BaseShow(p, {})[i].statement
<1>1. BaseShow(p, {}) \in Seq(Declarations) /\ HeadAt(p) \in Seq(Declarations)
  BY TextsAreTyped DEF FilesInv, BaseShow
<1>2. CompareDeclarations(BaseShow(p, {}), HeadAt(p), project.prover) = "unchanged"
  BY DEF ImmutabilityIsRight
<1>3. PICK m \in Injection(DOMAIN BaseShow(p, {}), DOMAIN HeadAt(p)) :
        \A k \in DOMAIN BaseShow(p, {}) : Kept(BaseShow(p, {})[k], HeadAt(p)[m[k]])
  BY <1>1, <1>2, UnchangedKeeps
<1>4. m[i] \in DOMAIN HeadAt(p) /\ Kept(BaseShow(p, {})[i], HeadAt(p)[m[i]])
  BY <1>3 DEF Injection
<1> QED
  BY <1>4 DEF Kept

LEMMA RestatedNothing == FilesInv /\ JobsInv => NothingIsRestated
<1> SUFFICES ASSUME FilesInv, ImmutabilityIsRight, Answered(immutabilityJob, 0), MovedOnce,
                    "statement-immutability" \notin broke,
                    NEW p \in ChangedFiles, NEW i \in DOMAIN BaseAt(Paired(p))
             PROVE  \E j \in DOMAIN HeadAt(p) :
                        /\ HeadAt(p)[j].leaf = BaseAt(Paired(p))[i].leaf
                        /\ HeadAt(p)[j].statement = BaseAt(Paired(p))[i].statement
  BY DEF NothingIsRestated, JobsInv
<1>1. p \in SourcePaths /\ (p \in DOMAIN tree \/ p \in DOMAIN Base)
  BY DEF ChangedFiles, PRFiles
<1>2. CASE DetectRename(p, {}) = Paired(p)
  <2>1. BaseShow(p, {}) = BaseAt(Paired(p))
    BY <1>2 DEF BaseShow
  <2> QED
    BY <2>1, ShownIsKept
<1>3. CASE StillThere
  <2>1. Paired(p) = p
    BY <1>3 DEF Paired, Renamed, StillThere
  <2>2. \A k \in DOMAIN commits : ~MovedBy(k)
    BY <1>3 DEF StillThere, MovedBy
  <2> QED
    BY <1>1, <1>2, <2>1, <2>2, RenameIsDetected
<1>4. ASSUME NEW k \in DOMAIN commits, MovedBy(k),
             DetectRename(p, {}) = IF p = commits[k].new THEN commits[k].old ELSE p
      PROVE  DetectRename(p, {}) = Paired(p)
  <2>1. PICK o, n : o = commits[k].old /\ n = commits[k].new
    OBVIOUS
  <2>2. /\ o # n /\ o \in DOMAIN Base /\ o \in SourcePaths /\ o \notin DOMAIN tree
        /\ n \in SourcePaths
        /\ \A q \in DOMAIN tree : IF q = n THEN tree[q].from = o
                                   ELSE q \in DOMAIN Base /\ tree[q].from = q
    BY <1>4, <2>1 DEF MovedBy
  <2>3. CASE p # n
    <3>1. Paired(p) = p
      BY <2>2, <2>3 DEF Paired, Renamed
    <3> QED
      BY <1>4, <2>1, <2>3, <3>1
  <2>4. CASE p = n /\ n \notin DOMAIN Base
    <3>1. p \in DOMAIN tree /\ tree[p].from = o
      BY <1>1, <2>2, <2>4
    <3>2. Paired(p) = o
      BY <2>2, <2>4, <3>1 DEF Paired, Renamed
    <3> QED
      BY <1>4, <2>1, <2>4, <3>2
  <2>5. n \notin DOMAIN Base
    <3> SUFFICES ASSUME n \in DOMAIN Base PROVE FALSE
      OBVIOUS
    <3>1. \A q \in DOMAIN tree : Paired(q) # o
      BY <2>2 DEF Paired, Renamed
    <3>2. o \in ChangedFiles
      BY <2>2, <3>1 DEF ChangedFiles, PRFiles
    <3>3. DetectRename(o, {}) = o
      <4>1. ~StillThere
        BY <1>4 DEF StillThere, MovedBy
      <4>2. PICK l \in DOMAIN commits :
                /\ MovedBy(l)
                /\ DetectRename(o, {}) = IF o = commits[l].new THEN commits[l].old ELSE o
        BY <2>2, <4>1, RenameIsDetected
      <4>3. l = k
        BY <1>4, <4>2 DEF MovedBy, MovedOnce
      <4> QED
        BY <2>1, <2>2, <4>2, <4>3
    <3>4. BaseShow(o, {}) = Base[o] /\ HeadAt(o) = << >>
      BY <2>2, <3>3 DEF BaseShow, BaseAt, HeadAt
    <3>5. 1 \in DOMAIN BaseShow(o, {})
      <4>1. o = "Target" \/ o = "Other"
        BY <2>2, BaseIs DEF SourcePaths
      <4>2. DOMAIN Base["Target"] = {1} /\ DOMAIN Base["Other"] = {1}
        BY BaseIs
      <4> QED
        BY <3>4, <4>1, <4>2
    <3>6. \E j \in DOMAIN HeadAt(o) : TRUE
      BY <3>2, <3>5, ShownIsKept
    <3> QED
      BY <3>4, <3>6
  <2> QED
    BY <2>3, <2>4, <2>5
<1>5. \/ StillThere
      \/ \E k \in DOMAIN commits :
            /\ MovedBy(k)
            /\ DetectRename(p, {}) = IF p = commits[k].new THEN commits[k].old ELSE p
  BY <1>1, RenameIsDetected
<1> QED
  BY <1>2, <1>3, <1>4, <1>5

\* On any projects and descriptions and with any number of commits and edits: of a
\* reduction the jobs of a pull request say the same unless its description is
\* edited between them, three of them green mean that the target is proved, and
\* what is green alone has added no placeholder elsewhere and restated nothing
\* (sorry_delta_cli.py, statement_immutability_cli.py, comparator_cli.py).  A call
\* that fails ends a job or, where the job takes it for an answer, is named in
\* `broke`.
THEOREM JobsVouchHolds == JobsSpec => []JobsVouch
<1>1. FilesInv /\ JobsInv => JobsVouch
  BY JobsAgree, GreenIsProved, NoMorePlaceholders, RestatedNothing DEF JobsVouch
<1> QED
  BY <1>1, JobsInvariant, PTL

=============================================================================
