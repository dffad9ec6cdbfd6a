---------------------------- MODULE ClientProofs ----------------------------
(***************************************************************************)
(* What holds of the client's workspaces and stores, for any issues, claims*)
(* and faults; of its submissions, for any contributors, commits, pull     *)
(* requests and failed calls; and of claims and updates from one checkout, *)
(* for any processes, versions and failed calls.                           *)
(***************************************************************************)
EXTENDS Workspace, Submission, ChoirUpdate, TLAPS

-----------------------------------------------------------------------------
(* Workspaces and stores: types.                                           *)

\* A build that is being saved is there.
SavesSomething == \A i \in Issues : pc[i] \in {"creating", "copying"} => build[i] # "none"

TypeInv == TypeOK /\ SavesSomething

LEMMA InitType == Init => TypeInv
<1> SUFFICES ASSUME Init PROVE TypeInv
  OBVIOUS
<1> USE WorkspaceAssumption DEF Init
<1>1. /\ pc \in [Issues -> Preparing \cup Releasing \cup Settled]
      /\ SavesSomething
  BY DEF Settled, SavesSomething
<1>2. /\ claims \in [Issues -> 0..MaxClaims] /\ lease \in [Issues -> 0..MaxClaims]
      /\ meta \in [Issues -> 0..MaxClaims] /\ faults \in 0..MaxFaults
  OBVIOUS
<1>3. withdrawn \in BOOLEAN
  BY Zenon
<1> QED
  BY <1>1, <1>2, <1>3 DEF TypeInv, TypeOK

LEMMA TypeKept == TypeInv /\ [Next]_vars => TypeInv'
<1> SUFFICES ASSUME TypeInv, [Next]_vars PROVE TypeInv'
  OBVIOUS
<1> USE WorkspaceAssumption
    DEF TypeInv, SavesSomething, TypeOK, Preparing, Releasing, Settled, Goes, Fault, FallsBack, NoTree, NoDeps,
        NoBuild, Unlock, Dies, leaseVars, localVars, gitVars, depVars, buildVars
<1>1. CASE UNCHANGED vars
  BY <1>1 DEF vars
<1>2. ASSUME NEW i \in Issues, ClaimWon(i) \/ ClaimLost(i) \/ Lapse(i)
      PROVE  TypeInv'
  BY <1>2 DEF ClaimWon, ClaimLost, Lapse
<1>3. ASSUME NEW i \in Issues, SetUp(i) PROVE TypeInv'
  <2>1. CASE SetUpStarts(i) \/ SetUpRefused(i) \/ IssueUnreadable(i) \/ TakeLock(i)
    BY <2>1 DEF SetUpStarts, SetUpRefused, IssueUnreadable, TakeLock
  <2>2. CASE RefreshStore(i)
    BY <2>2 DEF RefreshStore, Pruned
  <2>3. CASE CloneStarts(i) \/ CloneEnds(i)
    BY <2>3 DEF CloneStarts, CloneEnds
  <2>4. CASE AddWorktree(i) \/ BranchExists(i) \/ WorktreeFails(i)
    BY <2>4 DEF AddWorktree, BranchExists, WorktreeFails
  <2>5. CASE FullClone(i) \/ WriteFiles(i)
    BY <2>5 DEF FullClone, WriteFiles
  <2> QED
    BY <1>3, <2>1, <2>2, <2>3, <2>4, <2>5 DEF SetUp
<1>4. ASSUME NEW i \in Issues, Warm(i) PROVE TypeInv'
  <2>1. CASE RestoreMisses(i) \/ RestoreStarts(i)
    BY <2>1 DEF RestoreMisses, RestoreStarts
  <2>7. CASE RestoreEnds(i)
    <3>1. build' \in [Issues -> {"none", "part", "whole"}]
      BY <2>7 DEF RestoreEnds
    <3> QED
      BY <2>7, <3>1 DEF RestoreEnds
  <2>2. CASE LinkHits(i) \/ Fetch(i) \/ FetchFails(i)
    BY <2>2 DEF LinkHits, Fetch, FetchFails
  <2>3. CASE SetAside(i) \/ EntryMissing(i)
    BY <2>3 DEF SetAside, EntryMissing
  <2>8. CASE Relink(i)
    BY <2>8 DEF Relink
  <2>4. CASE Publish(i)
    BY <2>4 DEF Publish
  <2>9. CASE LinkPublished(i)
    <3>1. withdrawn' \in BOOLEAN
      BY <2>9, Zenon DEF LinkPublished
    <3> QED
      BY <2>9, <3>1 DEF LinkPublished
  <2>5. CASE SaveSkips(i) \/ SaveStarts(i) \/ SaveCreates(i)
    BY <2>5 DEF SaveSkips, SaveStarts, SaveCreates
  <2>6. CASE SaveEnds(i)
    BY <2>6 DEF SaveEnds
  <2> QED
    BY <1>4, <2>1, <2>2, <2>3, <2>4, <2>5, <2>6, <2>7, <2>8, <2>9 DEF Warm
<1>5. ASSUME NEW i \in Issues, TakeAdvice(i) \/ ReleasePosts(i) PROVE TypeInv'
  BY <1>5 DEF TakeAdvice, ReleasePosts
<1>6. ASSUME NEW i \in Issues, Remove(i) PROVE TypeInv'
  BY <1>6 DEF Remove, DropWorktree, RemoveTree, Pruned
<1>7. ASSUME NEW i \in Issues, Dying(i) PROVE TypeInv'
  BY <1>7 DEF Dying, Killed, KilledAdding, KilledInTree, KilledFetching
<1> QED
  BY <1>1, <1>2, <1>3, <1>4, <1>5, <1>6, <1>7 DEF Next

-----------------------------------------------------------------------------
(* The dependency store.                                                   *)

\* What is promoted was fetched whole, and what is being linked to is the entry
\* that this process published, which no other one publishes meanwhile.
StoreInv ==
    /\ entry \in {"absent", "whole"}
    /\ \A i \in Issues :
        /\ pc[i] \in {"promoting", "publishing"} => deps[i] = "own"
        /\ pc[i] = "linking" => entry = "whole"
        /\ pc[i] = "relinking" => entry = "whole" \/ withdrawn
    /\ \A i, j \in Issues : pc[i] = "linking" /\ pc[j] = "linking" => i = j
    /\ LinksResolve

Publishers == {"promoting", "publishing", "linking", "relinking"}

LEMMA InitStore == Init => StoreInv
BY DEF Init, StoreInv, LinksResolve

\* A step of a process that then publishes nothing, and links to nothing new.
LEMMA OthersKeepStore ==
    ASSUME TypeOK, StoreInv, NEW i \in Issues, NEW x, x \notin Publishers,
           pc' = [pc EXCEPT ![i] = x] \/ UNCHANGED pc,
           UNCHANGED <<entry, withdrawn>>,
           \/ UNCHANGED deps
           \/ \E q \in {"none", "torn", "own"} :
                deps' = [deps EXCEPT ![i] = q] /\ pc' = [pc EXCEPT ![i] = x]
    PROVE  StoreInv'
BY DEF TypeOK, StoreInv, LinksResolve, Publishers

LEMMA WarmKeepsStore ==
    ASSUME TypeOK, StoreInv, NEW i \in Issues, Warm(i)
    PROVE  StoreInv'
<1> USE DEF TypeOK, StoreInv, LinksResolve, Goes, depVars
<1>1. CASE RestoreMisses(i) \/ RestoreStarts(i) \/ RestoreEnds(i)
  BY <1>1 DEF RestoreMisses, RestoreStarts, RestoreEnds
<1>2. CASE LinkHits(i)
  BY <1>2 DEF LinkHits
<1>3. CASE Fetch(i)
  BY <1>3 DEF Fetch
<1>4. CASE FetchFails(i)
  <2>1. PICK q \in {deps[i], "torn"} : deps' = [deps EXCEPT ![i] = q]
    BY <1>4 DEF FetchFails
  <2> QED
    BY <1>4, <2>1 DEF FetchFails
<1>5. CASE SetAside(i)
  BY <1>5 DEF SetAside
<1>6. CASE Relink(i)
  BY <1>6 DEF Relink
<1>7. CASE EntryMissing(i)
  BY <1>7 DEF EntryMissing
<1>8. CASE Publish(i)
  BY <1>8 DEF Publish
<1>9. CASE LinkPublished(i)
  <2>1. CASE deps' = [deps EXCEPT ![i] = "link"] /\ UNCHANGED <<entry, withdrawn>>
    BY <1>9, <2>1 DEF LinkPublished
  <2>2. CASE deps' = [deps EXCEPT ![i] = "own"] /\ entry' = "absent" /\ withdrawn' = TRUE
    BY <1>9, <2>2 DEF LinkPublished
  <2> QED
    BY <1>9, <2>1, <2>2 DEF LinkPublished
<1>10. CASE SaveSkips(i) \/ SaveStarts(i) \/ SaveCreates(i) \/ SaveEnds(i)
  BY <1>10 DEF SaveSkips, SaveStarts, SaveCreates, SaveEnds
<1> QED
  BY <1>1, <1>2, <1>3, <1>4, <1>5, <1>6, <1>7, <1>8, <1>9, <1>10 DEF Warm

\* The other commands publish nothing.
LEMMA StoreKept == TypeOK /\ StoreInv /\ [Next]_vars => StoreInv'
<1> SUFFICES ASSUME TypeOK, StoreInv, [Next]_vars PROVE StoreInv'
  OBVIOUS
<1>1. CASE UNCHANGED vars
  BY <1>1 DEF vars, depVars, StoreInv, LinksResolve
<1>2. ASSUME NEW i \in Issues, ClaimWon(i) \/ ClaimLost(i) \/ Lapse(i) \/ ReleasePosts(i)
      PROVE  StoreInv'
  BY <1>2, OthersKeepStore DEF ClaimWon, ClaimLost, Lapse, ReleasePosts, Goes, depVars,
     Publishers
<1>3. ASSUME NEW i \in Issues, SetUp(i) PROVE StoreInv'
  BY <1>3, OthersKeepStore DEF SetUp, SetUpStarts, SetUpRefused, IssueUnreadable, TakeLock,
     RefreshStore, CloneStarts, CloneEnds, AddWorktree, BranchExists,
     WorktreeFails, FullClone, WriteFiles, FallsBack, Goes, depVars, Publishers
<1>4. ASSUME NEW i \in Issues, Warm(i) PROVE StoreInv'
  BY <1>4, WarmKeepsStore
<1>5. ASSUME NEW i \in Issues, TakeAdvice(i) \/ Remove(i) PROVE StoreInv'
  BY <1>5, OthersKeepStore DEF TakeAdvice, Remove, DropWorktree, RemoveTree, NoDeps,
     Goes, Publishers
<1>6. ASSUME NEW i \in Issues, Dying(i) PROVE StoreInv'
  BY <1>6, OthersKeepStore DEF Dying, Killed, KilledAdding, KilledInTree, KilledFetching,
     Dies, depVars, Publishers
<1> QED
  BY <1>1, <1>2, <1>3, <1>4, <1>5, <1>6 DEF Next

\* A step publishes a whole entry where there was none, takes a whole one back,
\* or leaves the store alone.
LEMMA StepsOfContract ==
    ASSUME TypeOK, StoreInv, Next
    PROVE  [Contract!Next]_entry
<1>1. PICK i \in Issues :
        \/ Publish(i) \/ LinkPublished(i)
        \/ UNCHANGED entry
  BY DEF Next, ClaimWon, ClaimLost, Lapse, ReleasePosts, SetUp, SetUpStarts, SetUpRefused,
     IssueUnreadable, TakeLock, RefreshStore, CloneStarts, CloneEnds, AddWorktree,
     BranchExists, WorktreeFails, FullClone, WriteFiles, Warm, RestoreMisses,
     RestoreStarts, RestoreEnds,
     LinkHits, Fetch, FetchFails, SetAside, Relink, EntryMissing, SaveSkips, SaveStarts,
     SaveCreates, SaveEnds, TakeAdvice, Remove, DropWorktree, RemoveTree, Dying, Killed,
     KilledAdding, KilledInTree, KilledFetching, depVars
<1>2. CASE Publish(i)
  BY <1>2 DEF Publish, StoreInv, Contract!Next, Contract!Publish
<1>3. CASE LinkPublished(i)
  BY <1>3 DEF LinkPublished, Goes, StoreInv, Contract!Next, Contract!Withdraw
<1> QED
  BY <1>1, <1>2, <1>3

\* The dependency store behaves as its contract says, whatever the issues, the
\* claims, the failures and the deaths: mathlib_cache.py shows readers no entry
\* that is not whole.
THEOREM StoreImplemented == Spec => ImplementsStore
<1>1. Init => Contract!Init
  BY DEF Init, Contract!Init
<1>2. TypeInv /\ StoreInv /\ [Next]_vars => [Contract!Next]_entry
  BY StepsOfContract DEF TypeInv, vars, depVars
<1>3. TypeInv => TypeOK
  BY DEF TypeInv
<1> QED
  BY <1>1, <1>2, <1>3, InitType, TypeKept, InitStore, StoreKept, PTL
     DEF Spec, ImplementsStore, Contract!Spec

-----------------------------------------------------------------------------
(* The build store.                                                        *)

\* Before the first fault a copy of a baseline is partial only if the baseline
\* is there, and then nobody saves one.
BaselineInv ==
    /\ faults = 0 => \A i \in Issues :
        /\ baseline = "absent" => build[i] # "part"
        /\ pc[i] = "restoring" => baseline # "absent"
        /\ pc[i] \in {"creating", "copying"} => build[i] = "whole"
    /\ PartialBaselineIsExplained

LEMMA InitBaseline == Init => BaselineInv
BY DEF Init, BaselineInv, PartialBaselineIsExplained

LEMMA FaultsStay == TypeOK /\ [Next]_vars /\ faults' = 0 => faults = 0
<1> SUFFICES ASSUME TypeOK, [Next]_vars, faults' = 0 PROVE faults = 0
  OBVIOUS
<1>1. faults \in Nat
  BY WorkspaceAssumption DEF TypeOK
<1>2. UNCHANGED faults \/ Fault
  BY DEF vars, Next, ClaimWon, ClaimLost, Lapse, ReleasePosts, SetUp, SetUpStarts,
     SetUpRefused, IssueUnreadable, TakeLock, RefreshStore, CloneStarts, CloneEnds,
     AddWorktree, BranchExists, WorktreeFails, FullClone, WriteFiles, Warm, RestoreMisses,
     RestoreStarts, RestoreEnds, LinkHits, Fetch, FetchFails, SetAside, Relink,
     EntryMissing, Publish, LinkPublished, SaveSkips, SaveStarts, SaveCreates, SaveEnds,
     TakeAdvice, Remove, DropWorktree, RemoveTree, Dying, Killed, KilledAdding,
     KilledInTree, KilledFetching, Dies
<1> QED
  BY <1>1, <1>2 DEF Fault

\* Anything may be left by a fault.
LEMMA FaultExplains ==
    ASSUME TypeOK', faults' # 0
    PROVE  BaselineInv'
<1>1. faults' \in Nat
  BY WorkspaceAssumption DEF TypeOK
<1> QED
  BY <1>1 DEF BaselineInv, PartialBaselineIsExplained

LEMMA BaselineKept == TypeInv /\ TypeOK' /\ BaselineInv /\ [Next]_vars => BaselineInv'
<1> SUFFICES ASSUME TypeInv, TypeOK', BaselineInv, [Next]_vars, faults' = 0
             PROVE  BaselineInv'
  BY FaultExplains
<1>0. faults = 0 /\ UNCHANGED faults
  BY FaultsStay DEF TypeInv
<1>1. CASE UNCHANGED vars
  BY <1>1 DEF vars, buildVars, BaselineInv, PartialBaselineIsExplained
<1>n. ~Fault
  BY <1>0 DEF Fault
<1> USE <1>0, <1>n DEF TypeInv, TypeOK, BaselineInv, PartialBaselineIsExplained, Goes, buildVars
<1>2. ASSUME NEW i \in Issues, ClaimWon(i) \/ ClaimLost(i) \/ Lapse(i) \/ ReleasePosts(i)
      PROVE  BaselineInv'
  BY <1>2 DEF ClaimWon, ClaimLost, Lapse, ReleasePosts, Settled
<1>3. ASSUME NEW i \in Issues, SetUp(i) PROVE BaselineInv'
  BY <1>3 DEF SetUp, SetUpStarts, SetUpRefused, IssueUnreadable, TakeLock,
     RefreshStore, CloneStarts, CloneEnds, AddWorktree, BranchExists,
     WorktreeFails, FullClone, WriteFiles, FallsBack
<1>4. ASSUME NEW i \in Issues, Warm(i) PROVE BaselineInv'
  <2>1. CASE RestoreMisses(i) \/ RestoreStarts(i)
    BY <2>1 DEF RestoreMisses, RestoreStarts
  <2>2. CASE RestoreEnds(i)
    <3>1. PICK q \in {"part"} \cup ({baseline} \cap {"whole"}) :
            build' = [build EXCEPT ![i] = q]
      BY <2>2 DEF RestoreEnds
    <3>2. baseline # "absent"
      BY <2>2 DEF RestoreEnds
    <3> QED
      BY <2>2, <3>1, <3>2 DEF RestoreEnds
  <2>3. CASE Fetch(i)
    BY <2>3 DEF Fetch
  <2>4. CASE LinkHits(i) \/ FetchFails(i) \/ SetAside(i) \/ Relink(i) \/ EntryMissing(i)
             \/ Publish(i) \/ LinkPublished(i)
    BY <2>4 DEF LinkHits, FetchFails, SetAside, Relink, EntryMissing, Publish, LinkPublished
  <2>5. CASE SaveSkips(i) \/ SaveStarts(i) \/ SaveCreates(i)
    BY <2>5 DEF SaveSkips, SaveStarts, SaveCreates
  <2>6. CASE SaveEnds(i)
    BY <2>6 DEF SaveEnds
  <2> QED
    BY <1>4, <2>1, <2>2, <2>3, <2>4, <2>5, <2>6 DEF Warm
<1>5. ASSUME NEW i \in Issues, TakeAdvice(i) \/ Remove(i) PROVE BaselineInv'
  BY <1>5 DEF TakeAdvice, Remove, DropWorktree, RemoveTree, NoBuild
<1>6. ~ \E i \in Issues : Dying(i)
  BY DEF Dying, Killed, KilledAdding, KilledInTree, KilledFetching, Dies
<1> QED
  BY <1>1, <1>2, <1>3, <1>4, <1>5, <1>6 DEF Next

-----------------------------------------------------------------------------
(* The lease file.                                                         *)

\* A set-up that has not written its lease file yet.
Early == {"claimed", "waiting", "refreshing", "seeding", "branching", "cloning", "writing"}

\* The tree that a set-up writes into is a whole one.
WholeTree(i) ==
    /\ tree[i] \in {"worktree", "clone"}
    /\ tree[i] = "worktree" => i \in worktrees /\ i \in branches

\* The file never names a later session than the last one, and until a set-up
\* writes it an earlier one; a release ends the lease first.
LeaseInv ==
    /\ \A i \in Issues :
        /\ lease[i] = 0 \/ lease[i] = claims[i]
        /\ meta[i] <= claims[i]
        /\ pc[i] \in Early => meta[i] < claims[i]
        /\ pc[i] \in Releasing => lease[i] = 0
        /\ pc[i] = "writing" => WholeTree(i)
    /\ LeaseFileMeansWhole

LEMMA InitLease == Init => LeaseInv
BY DEF Init, LeaseInv, LeaseFileMeansWhole, Early, Releasing

\* What a step of one issue leaves of the others.
LEMMA OthersKeepLease ==
    ASSUME TypeOK, LeaseInv, NEW i \in Issues, NEW j \in Issues, j # i,
           pc'[j] = pc[j], claims'[j] = claims[j], lease'[j] = lease[j],
           meta'[j] = meta[j], tree'[j] = tree[j],
           j \in branches => j \in branches',
           tree[j] # "absent" /\ j \in worktrees => j \in worktrees'
    PROVE  /\ lease'[j] = 0 \/ lease'[j] = claims'[j]
           /\ meta'[j] <= claims'[j]
           /\ pc'[j] \in Early => meta'[j] < claims'[j]
           /\ pc'[j] \in Releasing => lease'[j] = 0
           /\ pc'[j] = "writing" => WholeTree(j)'
           /\ meta'[j] # 0 /\ meta'[j] = lease'[j] => WholeTree(j)'
BY DEF LeaseInv, LeaseFileMeansWhole, WholeTree

\* Every step is of one issue.
Of(i) ==
    \/ ClaimWon(i) \/ ClaimLost(i) \/ Lapse(i) \/ SetUp(i) \/ Warm(i)
    \/ TakeAdvice(i) \/ ReleasePosts(i) \/ Remove(i) \/ Dying(i)

LEMMA StepsAreLocal ==
    ASSUME TypeOK, NEW i \in Issues, NEW j \in Issues, j # i, Of(i)
    PROVE  /\ pc'[j] = pc[j] /\ claims'[j] = claims[j] /\ lease'[j] = lease[j]
           /\ meta'[j] = meta[j] /\ tree'[j] = tree[j]
           /\ j \in branches <=> j \in branches'
           /\ j \in byHand <=> j \in byHand'
           /\ tree[j] # "absent" /\ j \in worktrees => j \in worktrees'
<1> USE DEF TypeOK, Goes, leaseVars, localVars, gitVars, depVars, buildVars
<1>1. CASE ClaimWon(i) \/ ClaimLost(i) \/ Lapse(i)
  BY <1>1 DEF ClaimWon, ClaimLost, Lapse
<1>2. CASE SetUp(i)
  <2>1. CASE SetUpStarts(i) \/ SetUpRefused(i) \/ IssueUnreadable(i) \/ TakeLock(i)
    BY <2>1 DEF SetUpStarts, SetUpRefused, IssueUnreadable, TakeLock
  <2>2. CASE RefreshStore(i) \/ CloneStarts(i) \/ CloneEnds(i)
    BY <2>2 DEF RefreshStore, CloneStarts, CloneEnds, FallsBack, Pruned
  <2>3. CASE AddWorktree(i) \/ BranchExists(i) \/ WorktreeFails(i)
    BY <2>3 DEF AddWorktree, BranchExists, WorktreeFails, FallsBack
  <2>4. CASE FullClone(i) \/ WriteFiles(i)
    BY <2>4 DEF FullClone, WriteFiles
  <2> QED
    BY <1>2, <2>1, <2>2, <2>3, <2>4 DEF SetUp
<1>3. CASE Warm(i)
  BY <1>3 DEF Warm, RestoreMisses, RestoreStarts, RestoreEnds, LinkHits, Fetch, FetchFails,
     SetAside, Relink, EntryMissing, Publish, LinkPublished, SaveSkips, SaveStarts,
     SaveCreates, SaveEnds
<1>4. CASE TakeAdvice(i) \/ ReleasePosts(i)
  BY <1>4 DEF TakeAdvice, ReleasePosts, NoTree
<1>5. CASE Remove(i)
  BY <1>5 DEF Remove, DropWorktree, RemoveTree, NoTree, Pruned
<1>6. CASE Dying(i)
  BY <1>6 DEF Dying, Killed, KilledAdding, KilledInTree, KilledFetching, Dies
<1> QED
  BY <1>1, <1>2, <1>3, <1>4, <1>5, <1>6 DEF Of

LEMMA LeaseKept == TypeInv /\ TypeOK' /\ LeaseInv /\ [Next]_vars => LeaseInv'
<1> SUFFICES ASSUME TypeInv, TypeOK', LeaseInv, [Next]_vars PROVE LeaseInv'
  OBVIOUS
<1>1. CASE UNCHANGED vars
  BY <1>1 DEF vars, leaseVars, localVars, gitVars, LeaseInv, LeaseFileMeansWhole, WholeTree
<1>2. ASSUME NEW i \in Issues, Of(i) PROVE LeaseInv'
  \* The other issues.
  <2>1. ASSUME NEW j \in Issues, j # i
        PROVE  /\ lease'[j] = 0 \/ lease'[j] = claims'[j]
               /\ meta'[j] <= claims'[j]
               /\ pc'[j] \in Early => meta'[j] < claims'[j]
               /\ pc'[j] \in Releasing => lease'[j] = 0
               /\ pc'[j] = "writing" => WholeTree(j)'
               /\ meta'[j] # 0 /\ meta'[j] = lease'[j] => WholeTree(j)'
    BY <1>2, <2>1, StepsAreLocal, OthersKeepLease DEF TypeInv
  \* The issue itself.
  <2>2. /\ lease'[i] = 0 \/ lease'[i] = claims'[i]
        /\ meta'[i] <= claims'[i]
        /\ pc'[i] \in Early => meta'[i] < claims'[i]
        /\ pc'[i] \in Releasing => lease'[i] = 0
        /\ pc'[i] = "writing" => WholeTree(i)'
        /\ meta'[i] # 0 /\ meta'[i] = lease'[i] => WholeTree(i)'
    <3>0. /\ claims[i] \in Nat /\ meta[i] \in Nat /\ lease[i] \in Nat
          /\ claims \in [Issues -> 0..MaxClaims]
          /\ pc \in [Issues -> Preparing \cup Releasing \cup Settled]
          /\ lease \in [Issues -> 0..MaxClaims]
          /\ meta \in [Issues -> 0..MaxClaims]
          /\ tree \in [Issues -> {"absent", "debris", "worktree", "clone"}]
      BY WorkspaceAssumption DEF TypeInv, TypeOK
    <3>p. /\ lease[i] = 0 \/ lease[i] = claims[i]
          /\ meta[i] <= claims[i]
          /\ pc[i] \in Early => meta[i] < claims[i]
          /\ pc[i] \in Releasing => lease[i] = 0
          /\ pc[i] = "writing" => WholeTree(i)
          /\ meta[i] # 0 /\ meta[i] = lease[i] => WholeTree(i)
      BY DEF LeaseInv, LeaseFileMeansWhole, WholeTree
    <3> USE <3>0, <3>p DEF Goes, WholeTree, Early, Releasing, leaseVars, localVars, gitVars
    <3>1. CASE ClaimWon(i)
      BY <3>1 DEF ClaimWon
    <3>2. CASE ClaimLost(i) \/ Lapse(i)
      BY <3>2 DEF ClaimLost, Lapse, Settled
    <3>3. CASE SetUpStarts(i) \/ SetUpRefused(i) \/ IssueUnreadable(i) \/ TakeLock(i)
      BY <3>3 DEF SetUpStarts, SetUpRefused, IssueUnreadable, TakeLock
    <3>4. CASE RefreshStore(i) \/ CloneStarts(i) \/ CloneEnds(i)
      BY <3>4 DEF RefreshStore, CloneStarts, CloneEnds, FallsBack, Pruned
    <3>5. CASE AddWorktree(i)
      BY <3>5 DEF AddWorktree
    <3>6. CASE BranchExists(i) \/ WorktreeFails(i)
      BY <3>6 DEF BranchExists, WorktreeFails, FallsBack
    <3>7. CASE FullClone(i)
      BY <3>7 DEF FullClone
    <3>8. CASE WriteFiles(i)
      BY <3>8 DEF WriteFiles
    <3>9. CASE Warm(i)
      BY <3>9 DEF Warm, RestoreMisses, RestoreStarts, RestoreEnds, LinkHits, Fetch,
         FetchFails, SetAside, Relink, EntryMissing, Publish, LinkPublished, SaveSkips,
         SaveStarts, SaveCreates, SaveEnds
    <3>10. CASE TakeAdvice(i)
      BY <3>10 DEF TakeAdvice, NoTree
    <3>11. CASE ReleasePosts(i)
      BY <3>11 DEF ReleasePosts, Settled
    <3>12. CASE DropWorktree(i)
      BY <3>12 DEF DropWorktree, NoTree
    <3>13. CASE RemoveTree(i)
      BY <3>13 DEF RemoveTree, NoTree
    <3>14. CASE Dying(i)
      BY <3>14 DEF Dying, Killed, KilledAdding, KilledInTree, KilledFetching, Dies
    <3> QED
      BY <1>2, <3>1, <3>2, <3>3, <3>4, <3>5, <3>6, <3>7, <3>8, <3>9, <3>10, <3>11, <3>12,
         <3>13, <3>14 DEF Of, SetUp, Remove
  <2> QED
    BY <2>1, <2>2 DEF LeaseInv, LeaseFileMeansWhole, WholeTree
<1> QED
  BY <1>1, <1>2 DEF Next, Of

-----------------------------------------------------------------------------
(* Runs in which nothing has failed yet.                                   *)

CleanOf(i) ==
    /\ i \in branches /\ i \notin byHand => tree[i] = "worktree"
    /\ tree[i] = "worktree" /\ pc[i] # "writing" => meta[i] # 0
    /\ pc[i] \in {"seeding", "branching"} => clone # "absent"
    /\ pc[i] = "tearing" => i \notin branches \/ i \in byHand
    /\ pc[i] \in {"waiting", "refreshing", "seeding", "branching"} => tree[i] = "absent"
    /\ i \notin byHand => tree[i] # "clone" /\ pc[i] # "cloning"
    /\ pc[i] = "failed" => tree[i] # "absent"

\* A branch is the branch of a worktree that is there, and a worktree has its
\* lease file: so a release finds the branch to delete.
CleanInv ==
    faults = 0 =>
        /\ clone = "absent" => branches = {}
        /\ \A i \in Issues : CleanOf(i)

LEMMA InitClean == Init => CleanInv
BY DEF Init, CleanInv, CleanOf

LEMMA CleanIsShared == CleanInv => CleanRunsShare
BY DEF CleanInv, CleanOf, CleanRunsShare

LEMMA CleanKept == TypeInv /\ TypeOK' /\ LeaseInv /\ CleanInv /\ [Next]_vars => CleanInv'
<1> SUFFICES ASSUME TypeInv, TypeOK', LeaseInv, CleanInv, [Next]_vars, faults' = 0
             PROVE  /\ clone' = "absent" => branches' = {}
                    /\ \A i \in Issues : CleanOf(i)'
  BY DEF CleanInv
<1>0. /\ faults = 0 /\ ~Fault
      /\ clone = "absent" => branches = {}
      /\ \A i \in Issues : CleanOf(i)
  BY FaultsStay DEF TypeInv, CleanInv, Fault
<1>1. CASE UNCHANGED vars
  BY <1>0, <1>1 DEF vars, localVars, gitVars, CleanOf
<1>2. ASSUME NEW i \in Issues, Of(i)
      PROVE  /\ clone' = "absent" => branches' = {}
             /\ \A j \in Issues : CleanOf(j)'
  <2>0. /\ pc \in [Issues -> Preparing \cup Releasing \cup Settled]
        /\ tree \in [Issues -> {"absent", "debris", "worktree", "clone"}]
        /\ meta \in [Issues -> 0..MaxClaims]
        /\ claims[i] \in Nat /\ meta[i] \in Nat
        /\ pc[i] = "writing" => meta[i] < claims[i]
    BY WorkspaceAssumption DEF TypeInv, TypeOK, LeaseInv, Early
  <2>s. CleanOf(i)
    BY <1>0
  <2>1. /\ clone' = "absent" => clone = "absent" /\ UNCHANGED branches
        /\ CleanOf(i)'
    <3> USE <1>0, <2>0, <2>s DEF Goes, CleanOf, leaseVars, localVars, gitVars
    <3>1. CASE ClaimWon(i) \/ ClaimLost(i) \/ Lapse(i)
      BY <3>1 DEF ClaimWon, ClaimLost, Lapse, Settled
    <3>2. CASE SetUpStarts(i) \/ SetUpRefused(i) \/ IssueUnreadable(i) \/ TakeLock(i)
      BY <3>2 DEF SetUpStarts, SetUpRefused, IssueUnreadable, TakeLock
    <3>3. CASE RefreshStore(i)
      BY <3>3 DEF RefreshStore
    <3>4. CASE CloneStarts(i) \/ CloneEnds(i)
      BY <3>4 DEF CloneStarts, CloneEnds
    <3>5. CASE AddWorktree(i)
      BY <3>5 DEF AddWorktree
    <3>6. CASE BranchExists(i) \/ WorktreeFails(i)
      BY <3>6 DEF BranchExists, WorktreeFails, FallsBack
    <3>7. CASE FullClone(i)
      BY <3>7 DEF FullClone
    <3>8. CASE WriteFiles(i)
      BY <3>8 DEF WriteFiles
    <3>9. CASE Warm(i)
      BY <3>9 DEF Warm, RestoreMisses, RestoreStarts, RestoreEnds, LinkHits, Fetch,
         FetchFails, SetAside, Relink, EntryMissing, Publish, LinkPublished, SaveSkips,
         SaveStarts, SaveCreates, SaveEnds
    <3>10. CASE TakeAdvice(i)
      BY <3>10 DEF TakeAdvice, NoTree
    <3>11. CASE ReleasePosts(i)
      BY <3>11 DEF ReleasePosts, Settled
    <3>12. CASE DropWorktree(i)
      BY <3>12 DEF DropWorktree, NoTree
    <3>13. CASE RemoveTree(i)
      BY <3>13 DEF RemoveTree, NoTree
    <3>14. ~Dying(i)
      BY DEF Dying, Killed, KilledAdding, KilledInTree, KilledFetching, Dies
    <3> QED
      BY <1>2, <3>1, <3>2, <3>3, <3>4, <3>5, <3>6, <3>7, <3>8, <3>9, <3>10, <3>11, <3>12,
         <3>13, <3>14 DEF Of, SetUp, Remove
  <2>2. ASSUME NEW j \in Issues, j # i PROVE CleanOf(j)'
    <3>1. CleanOf(j)
      BY <1>0
    <3> QED
      BY <1>2, <2>1, <2>2, <3>1, StepsAreLocal DEF TypeInv, CleanOf
  <2> QED
    BY <1>0, <2>1, <2>2
<1> QED
  BY <1>1, <1>2 DEF Next, Of

-----------------------------------------------------------------------------
\* Every variable has its type, for any issues and bounds.
THEOREM TypeCorrect == Spec => []TypeOK
<1>1. TypeInv => TypeOK
  BY DEF TypeInv
<1> QED
  BY <1>1, InitType, TypeKept, PTL DEF Spec

\* Workspaces and stores are what they are said to be, whatever the issues, the
\* claims, the failures and the deaths: the lease file is on whole workspaces
\* only, sharing fails only where something failed, links to dependencies
\* resolve, and a partial baseline has its fault.
THEOREM WorkspacesAreWholeHolds == Spec => []WorkspacesAreWhole
<1> DEFINE IInv == TypeInv /\ StoreInv /\ BaselineInv /\ LeaseInv /\ CleanInv
<1>1. Init => IInv
  BY InitType, InitStore, InitBaseline, InitLease, InitClean
<1>2. IInv /\ [Next]_vars => IInv'
  <2>1. TypeInv => TypeOK
    BY DEF TypeInv
  <2>2. TypeInv' => TypeOK'
    BY DEF TypeInv
  <2> QED
    BY <2>1, <2>2, TypeKept, StoreKept, BaselineKept, LeaseKept, CleanKept
<1>3. IInv => WorkspacesAreWhole
  BY CleanIsShared DEF StoreInv, BaselineInv, LeaseInv, WorkspacesAreWhole
<1> QED
  BY <1>1, <1>2, <1>3, PTL DEF Spec

-----------------------------------------------------------------------------
(* Submissions.                                                            *)

PRs == [owner : Contributors, state : {"open", "merged", "closed"}]

\* The types without the bounds.
Types ==
    /\ stage \in [Contributors -> Submitting \cup {"idle", "submitted"}]
    /\ head \in [Contributors -> Nat]
    /\ remote \in [Contributors -> {"none", "fork", "namesake"}]
    /\ pushed \in [Contributors -> Nat]
    /\ offered \in [Contributors -> Nat]
    /\ url \in [Contributors -> Nat]
    /\ said \in [Contributors -> SUBSET Nat]

\* A number that stands for a pull request of c's.
Owns(c, k) == k \in 1..Len(prs) /\ prs[k].owner = c

\* The upstream's owner needs no fork, everybody else's remote was corrected
\* before the push; what was pushed has at least the commits there were at the
\* start; and a number that is going to be posted is of an own pull request.
Runs(c) ==
    /\ c = Upstream =>
           stage[c] \notin {"finding", "polling", "syncing"} /\ remote[c] = "none"
    /\ stage[c] = "pushing" => remote[c] # "namesake"
    /\ offered[c] <= head[c]
    /\ stage[c] # "idle" => offered[c] > 0
    /\ stage[c] \in {"looking", "creating", "commenting", "submitted"} =>
           pushed[c] >= offered[c]
    /\ stage[c] \in {"commenting", "submitted"} => Owns(c, url[c])
    /\ \A k \in said[c] : Owns(c, k)

SubmitInv ==
    /\ Types
    /\ prs \in Seq(PRs)
    /\ \A c \in Contributors : Runs(c)
    /\ elsewhere = {}

LEMMA InitSubmit == SubmitInit => SubmitInv
BY DEF SubmitInit, SubmitInv, Types, Runs, Submitting

\* Pull requests are appended and decided: they keep their numbers and owners.
LEMMA OwnersStay ==
    ASSUME prs \in Seq(PRs), SubmitNext
    PROVE  /\ prs' \in Seq(PRs)
           /\ Len(prs') >= Len(prs)
           /\ \A k \in 1..Len(prs) : prs'[k].owner = prs[k].owner
<1>1. CASE UNCHANGED prs
  BY <1>1
<1>2. CASE \E d \in Contributors : prs' = Append(prs, [owner |-> d, state |-> "open"])
  BY <1>2 DEF PRs
<1>3. CASE \E j \in 1..Len(prs) : Decided(j)
  <2>1. PICK j \in 1..Len(prs), s \in {"merged", "closed"} :
            prs' = [prs EXCEPT ![j] = [prs[j] EXCEPT !.state = s]]
    BY <1>3 DEF Decided
  <2>2. [prs[j] EXCEPT !.state = s] \in PRs /\ [prs[j] EXCEPT !.state = s].owner = prs[j].owner
    <3>1. prs[j] \in PRs
      OBVIOUS
    <3> QED
      BY <3>1 DEF PRs
  <2>3. Len(prs') = Len(prs) /\ prs' \in Seq(PRs)
    BY <2>1, <2>2
  <2> QED
    BY <2>1, <2>2, <2>3
<1> QED
  BY <1>1, <1>2, <1>3 DEF SubmitNext, Start, Submit, Commit, ForkAppears, Renamed, AgentOpens,
     FindFork, PollFork, EnsureRemote, Push, FindOpenPR, CreatePR, Comment, Opens

\* A function into a set stays one.
LEMMA Updated ==
    ASSUME NEW S, NEW T, NEW f \in [S -> T], NEW x \in S, NEW y \in T
    PROVE  [f EXCEPT ![x] = y] \in [S -> T]
OBVIOUS

LEMMA TypesKept ==
    ASSUME Types, prs \in Seq(PRs), SubmitNext
    PROVE  Types'
<1>0. Len(prs) \in Nat
  OBVIOUS
<1> USE <1>0 DEF Types, Submitting, Steps, repoVars
<1>1. ASSUME NEW c \in Contributors, Start(c) \/ Commit(c) \/ ForkAppears(c) \/ Renamed(c)
                                    \/ AgentOpens(c)
      PROVE  Types'
  <2>1. CASE Start(c)
    BY <2>1 DEF Start
  <2>2. CASE Commit(c)
    BY <2>2 DEF Commit
  <2>3. CASE ForkAppears(c)
    BY <2>3 DEF ForkAppears
  <2>4. CASE Renamed(c)
    BY <2>4 DEF Renamed
  <2>5. CASE AgentOpens(c)
    BY <2>5 DEF AgentOpens
  <2> QED
    BY <1>1, <2>1, <2>2, <2>3, <2>4, <2>5
<1>2. ASSUME NEW c \in Contributors, FindFork(c) \/ PollFork(c) \/ EnsureRemote(c)
      PROVE  Types'
  BY <1>2 DEF FindFork, PollFork, EnsureRemote
<1>3. ASSUME NEW c \in Contributors, Push(c) PROVE Types'
  BY <1>3 DEF Push
<1>4. ASSUME NEW c \in Contributors, FindOpenPR(c) PROVE Types'
  <2>1. UNCHANGED url \/ \E k \in Nat : url' = [url EXCEPT ![c] = k]
    BY <1>4 DEF FindOpenPR, OpenPRs
  <2>2. url' \in [Contributors -> Nat]
    <3>1. CASE UNCHANGED url
      BY <3>1
    <3>2. ASSUME NEW k \in Nat, url' = [url EXCEPT ![c] = k]
          PROVE  url' \in [Contributors -> Nat]
      BY <3>2
    <3> QED
      BY <2>1, <3>1, <3>2
  <2>3. stage' \in [Contributors -> Submitting \cup {"idle", "submitted"}]
    BY <1>4 DEF FindOpenPR
  <2> QED
    BY <1>4, <2>2, <2>3 DEF FindOpenPR
<1>5. ASSUME NEW c \in Contributors, CreatePR(c) PROVE Types'
  <2>1. url' = url \/ url' = [url EXCEPT ![c] = Len(prs) + 1]
    BY <1>5 DEF CreatePR
  <2>2. url' \in [Contributors -> Nat]
    <3>1. Len(prs) + 1 \in Nat /\ url \in [Contributors -> Nat]
      OBVIOUS
    <3> QED
      BY ONLY <2>1, <3>1, Updated
  <2>3. stage' \in [Contributors -> Submitting \cup {"idle", "submitted"}]
    BY <1>5 DEF CreatePR
  <2> QED
    BY <1>5, <2>2, <2>3 DEF CreatePR
<1>6. ASSUME NEW c \in Contributors, Comment(c) PROVE Types'
  <2>1. said' = said \/ said' = [said EXCEPT ![c] = @ \cup {url[c]}]
    BY <1>6 DEF Comment
  <2>2. said[c] \cup {url[c]} \in SUBSET Nat
    <3>1. said[c] \in SUBSET Nat /\ url[c] \in Nat
      OBVIOUS
    <3> QED
      BY ONLY <3>1
  <2>3. said' \in [Contributors -> SUBSET Nat]
    <3>1. ASSUME NEW ks \in SUBSET Nat, said' = [said EXCEPT ![c] = ks]
          PROVE  said' \in [Contributors -> SUBSET Nat]
      BY <3>1
    <3> QED
      BY <2>1, <2>2, <3>1
  <2>4. stage' \in [Contributors -> Submitting \cup {"idle", "submitted"}]
    BY <1>6 DEF Comment
  <2> QED
    BY <1>6, <2>3, <2>4 DEF Comment
<1>7. ASSUME NEW k \in 1..Len(prs), Decided(k) PROVE Types'
  BY <1>7 DEF Decided
<1> QED
  BY <1>1, <1>2, <1>3, <1>4, <1>5, <1>6, <1>7 DEF SubmitNext, Submit

\* The other contributors' runs.
LEMMA OthersKeepRuns ==
    ASSUME Types, prs \in Seq(PRs), SubmitNext,
           NEW d \in Contributors, Runs(d),
           stage'[d] = stage[d], remote'[d] = remote[d], head'[d] = head[d],
           offered'[d] = offered[d], pushed'[d] = pushed[d], url'[d] = url[d],
           said'[d] = said[d]
    PROVE  Runs(d)'
<1>1. \A k : Owns(d, k) => Owns(d, k)'
  BY OwnersStay DEF Owns
<1> QED
  BY <1>1 DEF Runs

LEMMA StuttersKeepRuns == SubmitInv /\ UNCHANGED submitVars => SubmitInv'
<1> SUFFICES ASSUME SubmitInv, UNCHANGED submitVars PROVE SubmitInv'
  OBVIOUS
<1>1. \A c \in Contributors : Runs(c) => Runs(c)'
  BY DEF submitVars, Runs, Owns
<1>2. Types' /\ prs' \in Seq(PRs) /\ elsewhere' = {}
  BY DEF submitVars, SubmitInv, Types
<1> QED
  BY <1>1, <1>2 DEF SubmitInv

LEMMA RunsKept == SubmitInv /\ [SubmitNext]_submitVars => SubmitInv'
<1> SUFFICES ASSUME SubmitInv, SubmitNext PROVE SubmitInv'
  BY StuttersKeepRuns
<1>0. Types /\ Types' /\ prs \in Seq(PRs) /\ prs' \in Seq(PRs)
  BY TypesKept, OwnersStay DEF SubmitInv
<1>1. ASSUME NEW c \in Contributors, Start(c) \/ Submit(c) \/ Commit(c) \/ Renamed(c)
      PROVE  SubmitInv'
  <2>1. ASSUME NEW d \in Contributors, d # c PROVE Runs(d)'
    <3>1. /\ stage'[d] = stage[d] /\ remote'[d] = remote[d] /\ head'[d] = head[d]
          /\ offered'[d] = offered[d] /\ pushed'[d] = pushed[d] /\ url'[d] = url[d]
          /\ said'[d] = said[d]
      <4> USE <1>0, <2>1 DEF Types, Steps, repoVars
      <4>1. CASE Start(c) \/ Commit(c) \/ Renamed(c)
        BY <4>1 DEF Start, Commit, Renamed
      <4>2. CASE FindFork(c) \/ PollFork(c) \/ EnsureRemote(c)
        BY <4>2 DEF FindFork, PollFork, EnsureRemote
      <4>6. CASE Push(c)
        BY <4>6 DEF Push
      <4>3. CASE FindOpenPR(c)
        BY <4>3 DEF FindOpenPR
      <4>4. CASE CreatePR(c)
        BY <4>4 DEF CreatePR
      <4>5. CASE Comment(c)
        BY <4>5 DEF Comment
      <4> QED
        BY <1>1, <4>1, <4>2, <4>3, <4>4, <4>5, <4>6 DEF Submit
    <3> QED
      BY <1>0, <3>1, OthersKeepRuns DEF SubmitInv
  <2>2. Runs(c)' /\ elsewhere' = {}
    <3>0. /\ Runs(c) /\ elsewhere = {}
          /\ head[c] \in Nat /\ pushed[c] \in Nat /\ offered[c] \in Nat
          /\ Len(prs) \in Nat
          /\ \A k : Owns(c, k) => Owns(c, k)'
      BY <1>0, OwnersStay DEF SubmitInv, Types, Owns
    <3> USE <1>0, <3>0 DEF Types, Runs, Steps, repoVars
    <3>1. CASE Start(c)
      BY <3>1 DEF Start
    <3>2. CASE Commit(c) \/ Renamed(c)
      BY <3>2 DEF Commit, Renamed
    <3>3. CASE FindFork(c) \/ PollFork(c) \/ EnsureRemote(c)
      BY <3>3 DEF FindFork, PollFork, EnsureRemote
    <3>4. CASE Push(c)
      BY <3>4 DEF Push
    <3>5. CASE FindOpenPR(c)
      BY <3>5 DEF FindOpenPR, OpenPRs, Owns
    <3>6. CASE CreatePR(c)
      <4>0. stage[c] = "creating"
        BY <3>6 DEF CreatePR
      <4>1. UNCHANGED <<remote, head, offered, pushed, said, elsewhere>>
        BY <3>6 DEF CreatePR
      <4>2. CASE stage'[c] = "idle"
        BY <4>1, <4>2
      <4>3. CASE stage'[c] = "commenting"
        <5>1. PICK k \in Nat : k = Len(prs) + 1
          OBVIOUS
        <5>2. Owns(c, url[c])'
          <6>1. prs' = Append(prs, [owner |-> c, state |-> "open"]) /\ url'[c] = Len(prs) + 1
            BY <3>6, <4>3 DEF CreatePR, Opens
          <6>2. Len(prs') = k /\ prs'[k].owner = c
            BY <5>1, <6>1
          <6> QED
            BY <5>1, <6>1, <6>2 DEF Owns
        <5>3. \A j \in said'[c] : Owns(c, j)'
          BY <4>1
        <5>4. /\ offered'[c] > 0 /\ offered'[c] <= head'[c] /\ pushed'[c] >= offered'[c]
              /\ c # Upstream \/ remote'[c] = "none"
          BY <4>0, <4>1
        <5> QED
          BY <4>1, <4>3, <5>2, <5>3, <5>4
      <4> QED
        BY <3>6, <4>2, <4>3 DEF CreatePR
    <3>7. CASE Comment(c)
      BY <3>7 DEF Comment
    <3> QED
      BY <1>1, <3>1, <3>2, <3>3, <3>4, <3>5, <3>6, <3>7 DEF Submit
  <2> QED
    BY <1>0, <2>1, <2>2 DEF SubmitInv
\* The fork appears, or a pull request is opened or decided by somebody.
<1>2. ASSUME UNCHANGED <<stage, head, remote, pushed, offered, url, said, elsewhere>>
      PROVE  SubmitInv'
  BY <1>0, <1>2, OthersKeepRuns DEF SubmitInv
<1> QED
  BY <1>1, <1>2 DEF SubmitNext, ForkAppears, AgentOpens, Decided, repoVars

\* A submit that reports success offers the work it was run for, by a pull
\* request of the contributor's own, from the contributor's own fork, whichever
\* calls fail and whoever else submits on the same issue (submit_at of
\* client/submit.py with _find_open_pr and _ensure_fork_remote).
THEOREM SubmissionsLandHolds == SubmissionSpec => []SubmissionsLand
<1>1. SubmitInv => SubmissionsLand
  BY DEF SubmitInv, Runs, Owns, SubmissionsLand, SuccessMeansOffered, CommentsNameOwnPR,
     NothingGoesElsewhere
<1> QED
  BY <1>1, InitSubmit, RunsKept, PTL DEF SubmissionSpec

-----------------------------------------------------------------------------
(* Updates.                                                                *)

LEMMA NextUpdateType == UpdateTypeOK /\ [UpdateNext]_updVars => UpdateTypeOK'
<1> SUFFICES ASSUME UpdateTypeOK, [UpdateNext]_updVars PROVE UpdateTypeOK'
  OBVIOUS
<1> USE UpdateAssumption DEF UpdateTypeOK, Running
<1>1. ASSUME NEW p \in Processes, Starts(p) \/ Gate(p) \/ Posts(p) \/ StaleSkip(p)
      PROVE  UpdateTypeOK'
  <2>1. /\ updPc' \in [Processes -> Running \cup {"idle", "posted", "updated", "stopped"}]
        /\ loaded' \in [Processes -> 1..MaxVersion]
        /\ asked' \in [Processes -> 0..MaxVersion]
    BY <1>1 DEF Starts, Gate, Posts, StaleSkip, UpdateGoes, UpdateFault
  <2>2. updFaults' \in 0..MaxUpdateFaults /\ UNCHANGED <<upstream, pin, checkout, env, dirty>>
    BY <1>1 DEF Starts, Gate, Posts, StaleSkip, UpdateGoes, UpdateFault
  <2> QED
    BY <2>1, <2>2
<1>2. ASSUME NEW p \in Processes, Check(p) \/ Pull(p) \/ Sync(p) PROVE UpdateTypeOK'
  <2>1. updPc' \in [Processes -> Running \cup {"idle", "posted", "updated", "stopped"}]
    BY <1>2 DEF Check, Pull, Sync
  <2>2. updFaults' \in 0..MaxUpdateFaults /\ UNCHANGED <<upstream, pin, dirty, loaded, asked>>
    BY <1>2 DEF Check, Pull, Sync, UpdateFault
  <2>3. checkout' \in 1..MaxVersion /\ env' \in 1..MaxVersion
    BY <1>2 DEF Check, Pull, Sync
  <2> QED
    BY <2>1, <2>2, <2>3
<1>3. CASE Release \/ Repin
  BY <1>3 DEF Release, Repin
<1>4. CASE Edit
  <2>1. dirty' \in BOOLEAN
    BY <1>4 DEF Edit
  <2> QED
    BY <1>4, <2>1 DEF Edit
<1>5. CASE UNCHANGED updVars
  BY <1>5 DEF updVars
<1> QED
  BY <1>1, <1>2, <1>3, <1>4, <1>5 DEF UpdateNext

\* The gate compares with the code that the process loaded, which no update
\* changes under it; until then it has asked for nothing.
GateInv ==
    /\ ClaimsSpeakThePin
    /\ \A p \in Processes : updPc[p] = "gating" => asked[p] = 0

LEMMA NextGate == UpdateTypeOK /\ GateInv /\ [UpdateNext]_updVars => GateInv'
<1> SUFFICES ASSUME UpdateTypeOK, GateInv, [UpdateNext]_updVars PROVE GateInv'
  OBVIOUS
<1>0. /\ updPc \in [Processes -> Running \cup {"idle", "posted", "updated", "stopped"}]
      /\ loaded \in [Processes -> Nat] /\ asked \in [Processes -> Nat] /\ pin \in Nat
  BY UpdateAssumption DEF UpdateTypeOK
<1>1. ASSUME NEW p \in Processes, Starts(p) PROVE GateInv'
  BY <1>0, <1>1 DEF Starts, GateInv, ClaimsSpeakThePin
<1>2. ASSUME NEW p \in Processes, Gate(p) PROVE GateInv'
  <2>1. CASE asked' = [asked EXCEPT ![p] = pin]
             /\ updPc' = [updPc EXCEPT ![p] = IF pin > loaded[p] THEN "stale" ELSE "posting"]
    BY <1>0, <1>2, <2>1 DEF Gate, GateInv, ClaimsSpeakThePin
  <2>2. CASE updPc' = [updPc EXCEPT ![p] = "posting"] /\ UNCHANGED asked
    BY <1>0, <1>2, <2>2 DEF Gate, GateInv, ClaimsSpeakThePin
  <2> QED
    BY <1>2, <2>1, <2>2 DEF Gate
<1>3. ASSUME NEW p \in Processes, Posts(p) PROVE GateInv'
  BY <1>0, <1>3 DEF Posts, UpdateGoes, GateInv, ClaimsSpeakThePin
<1>4. ASSUME NEW p \in Processes, StaleSkip(p) \/ Check(p) \/ Pull(p) \/ Sync(p)
      PROVE  GateInv'
  BY <1>0, <1>4 DEF StaleSkip, Check, Pull, Sync, GateInv, ClaimsSpeakThePin
<1>5. CASE Release \/ Repin \/ Edit \/ UNCHANGED updVars
  BY <1>5 DEF Release, Repin, Edit, updVars, GateInv, ClaimsSpeakThePin
<1> QED
  BY <1>1, <1>2, <1>3, <1>4, <1>5 DEF UpdateNext

\* Nobody reports an update as done but the step that installs what the checkout
\* has at that moment.
Repairs ==
    \A p \in Processes :
        (updPc[p] # "updated" /\ updPc'[p] = "updated") => env' = checkout'

LEMMA NextRepairs == UpdateTypeOK /\ [UpdateNext]_updVars => [Repairs]_updVars
<1> SUFFICES ASSUME UpdateTypeOK, UpdateNext PROVE Repairs
  OBVIOUS
<1>0. updPc \in [Processes -> Running \cup {"idle", "posted", "updated", "stopped"}]
  BY DEF UpdateTypeOK
<1>1. ASSUME NEW p \in Processes, Sync(p) PROVE Repairs
  <2>1. CASE env' = checkout /\ UNCHANGED checkout
    BY <2>1 DEF Repairs
  <2>2. CASE updPc' = [updPc EXCEPT ![p] = "stopped"]
    BY <1>0, <2>2 DEF Repairs
  <2> QED
    BY <1>1, <2>1, <2>2 DEF Sync
<1>2. ASSUME NEW p \in Processes, Starts(p) \/ Gate(p) \/ Posts(p) \/ StaleSkip(p)
                                  \/ Check(p) \/ Pull(p)
      PROVE  Repairs
  BY <1>0, <1>2 DEF Starts, Gate, Posts, StaleSkip, Check, Pull, UpdateGoes, Repairs
<1>3. CASE Release \/ Repin \/ Edit
  BY <1>3 DEF Release, Repin, Edit, Repairs
<1> QED
  BY <1>1, <1>2, <1>3 DEF UpdateNext

\* Whatever the processes that share a checkout, the versions that appear and the
\* calls that fail: no claim is posted in a protocol older than the pin its
\* process read (_protocol_conflict), and an update that reports success leaves
\* the environment of the checkout it leaves (run_update).
THEOREM ClaimsAndUpdatesAgreeHolds == UpdateSpec => ClaimsAndUpdatesAgree
<1>1. UpdateInit => UpdateTypeOK /\ GateInv
  <2> SUFFICES ASSUME UpdateInit PROVE UpdateTypeOK /\ GateInv
    OBVIOUS
  <2>1. FALSE \in BOOLEAN /\ 1 \in 1..MaxVersion /\ 0 \in 0..MaxVersion
        /\ 0 \in 0..MaxUpdateFaults
    BY UpdateAssumption
  <2> QED
    BY <2>1 DEF UpdateInit, UpdateTypeOK, GateInv, ClaimsSpeakThePin
<1>2. UpdateTypeOK /\ GateInv /\ [UpdateNext]_updVars => (UpdateTypeOK /\ GateInv)'
  BY NextUpdateType, NextGate
<1>3. GateInv => ClaimsSpeakThePin
  BY DEF GateInv
<1>4. UpdatesRepair <=> [][Repairs]_updVars
  BY DEF UpdatesRepair, Repairs
<1> QED
  BY <1>1, <1>2, <1>3, <1>4, NextRepairs, PTL DEF UpdateSpec, ClaimsAndUpdatesAgree
=============================================================================
