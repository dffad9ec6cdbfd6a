------------------------- MODULE PullRequestProofs --------------------------
(***************************************************************************)
(* What the gate promises of a merge and of a salvage, for any number of   *)
(* callers, pushes and third-party checks, on every prover.                *)
(***************************************************************************)
EXTENDS PullRequest, TLAPS

\* The checks that must vouch for a commit.
Auditors == {n \in REQUIRED_PRESENT : IsBlocking(n, Prover)}

\* A check that shows green now has reported it.
VouchedInv == Green(status) \subseteq vouched

\* What a caller in the middle of merge_pr knows, as long as the commit it
\* read is still the head.
MergerInv ==
    \A c \in Callers :
        /\ merger[c].head <= head
        /\ merger[c].step # "idle" => merger[c].head \in Heads
        /\ merger[c].step = "commenting" => merger[c].forced
        /\ /\ merger[c].step = "pinned" /\ ~merger[c].forced
           /\ merger[c].head = head
           => Auditors \subseteq vouched
        /\ /\ merger[c].step # "idle" /\ merger[c].forced
           /\ merger[c].head = head
           => Auditors \ vouched \subseteq merger[c].overridden
        /\ merger[c].step = "pinned" /\ merger[c].forced =>
              [head |-> merger[c].head, overridden |-> merger[c].overridden]
                  \in trail

IInv ==
    /\ TypeOK
    /\ VouchedInv
    /\ MergerInv
    /\ LandedWasAudited
    /\ TrailNamesTheCommit

-----------------------------------------------------------------------------
(* The check table.                                                        *)

\* An override only relaxes: what blocks for some prover blocks for a caller
\* that does not name one (gate/checks.py:190-195).
LEMMA OverridesRelax ==
    ASSUME NEW n, NEW prover, IsBlocking(n, prover)
    PROVE  IsBlocking(n, NoProver)
BY DEF IsBlocking, CheckClass, Relaxed, NoProver

LEMMA TrustIsTrust ==
    ASSUME NEW n \in TrustChecks
    PROVE  CheckClass(n, NoProver) = "trust"
BY DEF CheckClass, Relaxed, NoProver, CHECKS, TrustChecks, QualityChecks,
       AdvisoryChecks

LEMMA PreflightIsStrictest ==
    ASSUME NEW prover, PreflightPasses(NoProver)
    PROVE  PreflightPasses(prover)
<1>1. \A n \in Present : IsBlocking(n, prover) => IsBlocking(n, NoProver)
  BY OverridesRelax
<1>2. BlockingFailures(prover) \subseteq BlockingFailures(NoProver)
  BY <1>1 DEF BlockingFailures
<1> QED
  BY <1>2 DEF PreflightPasses

\* A passed preflight means that each auditor vouches for the head.
LEMMA PreflightVouches ==
    ASSUME NEW prover \in {Prover, NoProver}, PreflightPasses(prover),
           VouchedInv
    PROVE  Auditors \subseteq vouched
<1> SUFFICES ASSUME NEW n \in Auditors PROVE n \in vouched
  OBVIOUS
<1>1. IsBlocking(n, prover)
  BY OverridesRelax DEF Auditors
<1>2. n \in Present
  BY DEF Auditors, PreflightPasses, Missing, MissingRequired
<1>3. status[n] = "green"
  BY <1>1, <1>2 DEF PreflightPasses, BlockingFailures
<1> QED
  BY <1>2, <1>3 DEF VouchedInv, Green, Present

\* Every auditor that has not vouched for the head is among what an override
\* names.
LEMMA OverrideNames ==
    ASSUME NEW prover \in {Prover, NoProver}, VouchedInv
    PROVE  Auditors \ vouched \subseteq Missing \cup BlockingFailures(prover)
<1> SUFFICES ASSUME NEW n \in Auditors, n \notin vouched, n \notin Missing
             PROVE  n \in BlockingFailures(prover)
  OBVIOUS
<1>1. IsBlocking(n, prover)
  BY OverridesRelax DEF Auditors
<1>2. n \in Present
  BY DEF Auditors, Missing, MissingRequired
<1>3. status[n] # "green"
  BY <1>2 DEF VouchedInv, Green, Present
<1> QED
  BY <1>1, <1>2, <1>3 DEF BlockingFailures

-----------------------------------------------------------------------------
(* The inductive invariant.                                                *)

LEMMA FirstStatusType ==
    ASSUME NEW gone, NEW held \in BOOLEAN
    PROVE  FirstStatus(gone, held) \in [Names -> Statuses]
BY DEF FirstStatus, Started, Statuses

LEMMA InitIInv == Init => IInv
<1> SUFFICES ASSUME Init PROVE IInv
  OBVIOUS
<1>1. status \in [Names -> Statuses]
  BY FirstStatusType DEF Init
<1>2. TypeOK
  BY <1>1, PushesAssumption DEF Init, TypeOK, Heads, Green, Idle
<1>3. VouchedInv
  BY DEF Init, VouchedInv
<1>4. MergerInv
  BY DEF Init, MergerInv, Idle
<1> QED
  BY <1>2, <1>3, <1>4 DEF Init, IInv, LandedWasAudited, TrailNamesTheCommit

\* While the head stays, nothing is forgotten of it: what a caller knows and
\* what is known of a merge stays true.
LEMMA HeadStays ==
    ASSUME IInv, head' = head, vouched \subseteq vouched',
           UNCHANGED <<merger, trail, landed>>
    PROVE  MergerInv' /\ LandedWasAudited' /\ TrailNamesTheCommit'
<1>1. MergerInv'
  BY DEF IInv, MergerInv, Auditors
<1> QED
  BY <1>1 DEF IInv, LandedWasAudited, TrailNamesTheCommit

LEMMA PushKeeps ==
    ASSUME IInv, Push
    PROVE  IInv'
<1>1. status' \in [Names -> Statuses]
  BY FirstStatusType DEF Push, Restart
<1>2. TypeOK'
  BY <1>1, PushesAssumption DEF IInv, TypeOK, Push, Heads, Green
<1>3. VouchedInv'
  BY DEF Push, VouchedInv
<1>h. \A c \in Callers : merger[c].head \in Heads \cup {0}
  BY DEF IInv, TypeOK
<1>4. \A c \in Callers : merger[c].head <= head /\ merger[c].head \in Nat
  <2>1. \A c \in Callers : merger[c].head <= head
    BY DEF IInv, MergerInv
  <2>2. \A c \in Callers : merger[c].head \in Nat
    BY <1>h DEF Heads
  <2> QED
    BY <2>1, <2>2
<1>5. \A c \in Callers : merger[c].head < head'
  BY <1>4 DEF Push, IInv, TypeOK, Heads
<1>6. head' \in Nat /\ \A c \in Callers : merger[c].head # head'
  BY <1>4, <1>5 DEF Push, IInv, TypeOK, Heads
<1>7. MergerInv'
  BY <1>4, <1>5, <1>6 DEF Push, IInv, MergerInv
<1> QED
  BY <1>2, <1>3, <1>7
  DEF Push, IInv, LandedWasAudited, TrailNamesTheCommit

LEMMA ReopenKeeps ==
    ASSUME IInv, Reopen
    PROVE  IInv'
<1>1. status' \in [Names -> Statuses]
  BY FirstStatusType DEF Reopen, Restart
<1>2. TypeOK'
  BY <1>1 DEF IInv, TypeOK, Reopen, Green
<1>3. VouchedInv'
  BY DEF Reopen, VouchedInv
<1> QED
  BY <1>2, <1>3, HeadStays DEF Reopen, IInv

LEMMA ReportKeeps ==
    ASSUME IInv, NEW n \in Names, Report(n)
    PROVE  IInv'
<1>1. TypeOK'
  BY DEF IInv, TypeOK, Report, Green, Statuses
<1>2. VouchedInv'
  BY DEF Report, VouchedInv
<1> QED
  BY <1>1, <1>2, HeadStays DEF Report, IInv

LEMMA RerunKeeps ==
    ASSUME IInv, NEW n \in Names, Rerun(n)
    PROVE  IInv'
<1>1. TypeOK'
  BY DEF IInv, TypeOK, Rerun, Statuses
<1>2. VouchedInv'
  BY DEF Rerun, VouchedInv, IInv, TypeOK, Green
<1> QED
  BY <1>1, <1>2, HeadStays DEF Rerun, IInv

LEMMA ApproveKeeps ==
    ASSUME IInv, Approve
    PROVE  IInv'
<1>1. status' \in [Names -> Statuses]
  BY DEF IInv, TypeOK, Approve, Started, Statuses
<1>2. TypeOK'
  BY <1>1 DEF IInv, TypeOK, Approve, Green
<1>3. VouchedInv'
  BY DEF Approve, VouchedInv
<1> QED
  BY <1>2, <1>3, HeadStays DEF Approve, IInv

\* The steps that write neither checks nor anything of a merge.
LEMMA OthersKeep ==
    ASSUME IInv,
           ReadPullRequest \/ ClosePullRequest \/ Salvage \/ UNCHANGED vars
    PROVE  IInv'
<1>1. UNCHANGED <<head, status, vouched, merger, trail, landed>>
  BY DEF ReadPullRequest, ClosePullRequest, Salvage, vars
<1>2. TypeOK'
  BY DEF IInv, TypeOK, ReadPullRequest, ClosePullRequest, Salvage, vars
<1>3. VouchedInv'
  BY <1>1 DEF IInv, VouchedInv, Green
<1> QED
  BY <1>1, <1>2, <1>3, HeadStays DEF IInv

\* A caller's step changes what that caller knows; the others keep theirs.
LEMMA MergerStep ==
    ASSUME IInv, NEW c \in Callers, NEW m,
           merger' = [merger EXCEPT ![c] = m],
           UNCHANGED <<head, status, vouched>>, trail \subseteq trail',
           m.head <= head,
           m.step # "idle" => m.head \in Heads,
           m.step = "commenting" => m.forced,
           m.step = "pinned" /\ ~m.forced => Auditors \subseteq vouched,
           m.step # "idle" /\ m.forced /\ m.head = head =>
               Auditors \ vouched \subseteq m.overridden,
           m.step = "pinned" /\ m.forced =>
               [head |-> m.head, overridden |-> m.overridden] \in trail'
    PROVE  MergerInv' /\ VouchedInv'
<1>1. \A d \in Callers : merger'[d] = IF d = c THEN m ELSE merger[d]
  BY DEF IInv, TypeOK
<1>2. Auditors' = Auditors
  BY DEF Auditors
<1>3. MergerInv'
  BY <1>1, <1>2 DEF IInv, MergerInv
<1> QED
  BY <1>3 DEF IInv, VouchedInv, Green

LEMMA CallerStepKeeps ==
    ASSUME IInv, NEW c \in Callers, CallerStep(c)
    PROVE  IInv'
<1> USE DEF IInv
<1>t. /\ head \in Nat /\ head \in Heads
      /\ merger[c] \in [step: {"idle", "commenting", "pinned"},
                        head: Heads \cup {0}, forced: BOOLEAN,
                        overridden: SUBSET Names]
  BY DEF TypeOK, Heads
<1>1. CASE MergeReads(c)
  <2> DEFINE m == [step |-> "pinned", head |-> head, forced |-> FALSE,
                   overridden |-> {}]
  <2>1. TypeOK'
    BY <1>1, <1>t DEF MergeReads, TypeOK
  <2>2. Auditors \subseteq vouched
    BY <1>1, PreflightVouches DEF MergeReads
  <2>3. merger' = [merger EXCEPT ![c] = m]
    BY <1>1 DEF MergeReads
  <2>4. MergerInv' /\ VouchedInv'
    <3>1. /\ m.head <= head /\ m.head \in Heads
          /\ m.step = "pinned" /\ ~m.forced
      BY <1>t
    <3> HIDE DEF m
    <3> QED
      BY <1>1, <2>2, <2>3, <3>1, MergerStep DEF MergeReads
  <2> QED
    BY <1>1, <2>1, <2>4
    DEF MergeReads, LandedWasAudited, TrailNamesTheCommit
<1>2. CASE OverrideReads(c)
  <2>1. PICK prover \in {Prover, NoProver} :
            merger' = [merger EXCEPT ![c] =
               [step |-> "commenting", head |-> head, forced |-> TRUE,
                overridden |-> Missing \cup BlockingFailures(prover)]]
    BY <1>2 DEF OverrideReads
  <2> DEFINE m == [step |-> "commenting", head |-> head, forced |-> TRUE,
                   overridden |-> Missing \cup BlockingFailures(prover)]
  <2>2. Missing \cup BlockingFailures(prover) \in SUBSET Names
    BY NamesAssumption DEF Missing, MissingRequired, BlockingFailures, Present
  <2>3. TypeOK'
    BY <1>2, <1>t, <2>1, <2>2 DEF OverrideReads, TypeOK
  <2>4. Auditors \ vouched \subseteq m.overridden
    BY OverrideNames
  <2>5. MergerInv' /\ VouchedInv'
    <3>1. /\ m.head <= head /\ m.head \in Heads
          /\ m.step = "commenting" /\ m.forced
      BY <1>t
    <3>2. merger' = [merger EXCEPT ![c] = m]
      BY <2>1
    <3> HIDE DEF m
    <3> QED
      BY <1>2, <2>4, <3>1, <3>2, MergerStep DEF OverrideReads
  <2> QED
    BY <1>2, <2>3, <2>5
    DEF OverrideReads, LandedWasAudited, TrailNamesTheCommit
<1>3. CASE OverrideComments(c)
  <2> DEFINE m == [step |-> "pinned", head |-> merger[c].head,
                   forced |-> TRUE, overridden |-> merger[c].overridden]
             e == [head |-> merger[c].head,
                   overridden |-> merger[c].overridden]
  <2>1. /\ merger[c].step = "commenting"
        /\ merger' = [merger EXCEPT ![c] = m]
        /\ trail' = trail \cup {e}
        /\ UNCHANGED <<head, status, vouched, prState, seen, landed, seeds>>
    BY <1>3 DEF OverrideComments
  <2>2. merger[c].forced /\ merger[c].head <= head
    BY <2>1 DEF MergerInv
  <2>3. merger[c].head = head =>
            Auditors \ vouched \subseteq merger[c].overridden
    BY <2>1, <2>2 DEF MergerInv
  <2>4. merger[c].head \in Heads
    BY <2>1 DEF MergerInv
  <2>5. TypeOK'
    BY <1>t, <2>1, <2>4 DEF TypeOK
  <2>6. MergerInv' /\ VouchedInv'
    <3>1. /\ m.head = merger[c].head /\ m.step = "pinned" /\ m.forced
          /\ m.overridden = merger[c].overridden
          /\ [head |-> m.head, overridden |-> m.overridden] = e
      OBVIOUS
    <3> HIDE DEF m, e
    <3> QED
      BY <2>1, <2>2, <2>3, <2>4, <3>1, MergerStep
  <2> QED
    BY <2>1, <2>5, <2>6 DEF LandedWasAudited, TrailNamesTheCommit
<1>4. CASE MergeLands(c)
  <2> DEFINE l == [head |-> head, forced |-> merger[c].forced,
                   vouched |-> vouched]
  <2>1. /\ merger[c].step = "pinned" /\ merger[c].head = head
        /\ landed' = {l} /\ prState' = "merged"
        /\ merger' = [merger EXCEPT ![c] = Idle]
        /\ UNCHANGED <<head, status, vouched, seen, trail, seeds>>
    BY <1>4 DEF MergeLands
  <2>2. TypeOK'
    BY <1>t, <2>1 DEF TypeOK, Idle
  <2>3. MergerInv' /\ VouchedInv'
    <3>1. Idle.head <= head /\ Idle.step = "idle"
      BY <1>t DEF Idle, Heads
    <3> QED
      BY <2>1, <3>1, MergerStep
  <2>4. LandedWasAudited'
    <3>1. ~merger[c].forced => Auditors \subseteq vouched
      BY <2>1 DEF MergerInv
    <3> QED
      BY <2>1, <3>1 DEF LandedWasAudited, Auditors
  <2>5. TrailNamesTheCommit'
    <3> SUFFICES ASSUME merger[c].forced
                 PROVE  \E e \in trail : /\ e.head = head
                                         /\ Auditors \ vouched
                                                \subseteq e.overridden
      BY <2>1 DEF TrailNamesTheCommit, Auditors
    <3>1. [head |-> head, overridden |-> merger[c].overridden] \in trail
      BY <2>1 DEF MergerInv
    <3>2. Auditors \ vouched \subseteq merger[c].overridden
      BY <2>1 DEF MergerInv
    <3> QED
      BY <3>1, <3>2
  <2> QED
    BY <2>2, <2>3, <2>4, <2>5
<1>5. CASE MergeStops(c)
  <2>1. TypeOK'
    BY <1>5, <1>t DEF MergeStops, TypeOK, Idle
  <2>2. MergerInv' /\ VouchedInv'
    <3>1. Idle.head <= head /\ Idle.step = "idle"
      BY <1>t DEF Idle, Heads
    <3> QED
      BY <1>5, <3>1, MergerStep DEF MergeStops
  <2> QED
    BY <1>5, <2>1, <2>2
    DEF MergeStops, LandedWasAudited, TrailNamesTheCommit
<1> QED
  BY <1>1, <1>2, <1>3, <1>4, <1>5 DEF CallerStep

LEMMA NextIInv == IInv /\ [Next]_vars => IInv'
<1> SUFFICES ASSUME IInv, [Next]_vars PROVE IInv'
  OBVIOUS
<1> QED
  BY PushKeeps, ReopenKeeps, ReportKeeps, RerunKeeps, ApproveKeeps, OthersKeep,
     CallerStepKeeps DEF Next

LEMMA SpecIInv == Spec => []IInv
BY InitIInv, NextIInv, PTL DEF Spec

-----------------------------------------------------------------------------
(* The theorems.                                                           *)

\* Every variable keeps its type.
THEOREM TypeCorrect == Spec => []TypeOK
<1>1. IInv => TypeOK
  BY DEF IInv
<1> QED
  BY <1>1, SpecIInv, PTL

\* merge_pr without force lands a commit only if each required check that
\* blocks for the project reported success on that very commit.
THEOREM LandedWasAuditedHolds == Spec => []LandedWasAudited
<1>1. IInv => LandedWasAudited
  BY DEF IInv
<1> QED
  BY <1>1, SpecIInv, PTL

\* A commit that landed by force is named, with what it lacked, in a comment.
THEOREM TrailNamesTheCommitHolds == Spec => []TrailNamesTheCommit
<1>1. IInv => TrailNamesTheCommit
  BY DEF IInv
<1> QED
  BY <1>1, SpecIInv, PTL

\* Whoever asks, for whichever prover: what the poller calls green, what the
\* listing calls mergeable and what merge_pr accepts are the same commits, and
\* a caller that names no prover accepts no more than one that does.
THEOREM ReadersAgreeOnGreenHolds == Spec => []ReadersAgreeOnGreen
<1>1. ASSUME NEW prover \in Provers
      PROVE  /\ (ChecksState(prover) = "green") <=> PreflightPasses(prover)
             /\ MergeableNow(prover) <=> PreflightPasses(prover)
  <2>1. PendingBlocking(prover) \subseteq BlockingFailures(prover)
    BY DEF PendingBlocking, BlockingFailures
  <2>2. Missing = {} => Present # {}
    BY DEF Missing, MissingRequired, REQUIRED_PRESENT, TrustChecks
  <2>3. MergeableNow(prover) <=> PreflightPasses(prover)
    BY <2>1, <2>2 DEF MergeableNow, PreflightPasses
  <2>4. (ChecksState(prover) = "green") <=> PreflightPasses(prover)
    BY <2>1, <2>2 DEF ChecksState, PreflightPasses
  <2> QED
    BY <2>3, <2>4
<1>2. ReadersAgreeOnGreen
  BY <1>1, PreflightIsStrictest DEF ReadersAgreeOnGreen
<1> QED
  BY <1>2, PTL

\* A salvage task starts only from a tree that every trust check with one
\* meaning vouches for, whatever the project's prover relaxes.
THEOREM SeedsAreVouchedHolds == Spec => SeedsAreVouched
<1>1. IInv /\ [Next]_vars =>
          [seeds' # seeds =>
              TrustChecks \ SALVAGE_OPAQUE \subseteq Green(status)]_vars
  <2> SUFFICES ASSUME IInv, [Next]_vars, seeds' # seeds,
                      NEW n \in TrustChecks, n \notin SALVAGE_OPAQUE
               PROVE  n \in Green(status)
    OBVIOUS
  <2>1. Salvage
    BY DEF Next, vars, Push, Reopen, Report, Rerun, ReadPullRequest, Approve,
           ClosePullRequest, CallerStep, MergeReads, OverrideReads,
           OverrideComments, MergeLands, MergeStops
  <2>2. n \in Present
    BY <2>1 DEF Salvage, Missing, MissingRequired, REQUIRED_PRESENT
  <2>3. CheckClass(n, NoProver) = "trust" /\ IsBlocking(n, NoProver)
    BY TrustIsTrust DEF IsBlocking
  <2> DEFINE failed == {k \in Present : status[k] # "green"}
             blocking == {k \in failed : IsBlocking(k, NoProver)}
  <2>4. blocking # {}
    BY <2>1 DEF Salvage, BlockingFailures
  <2>5. \A k \in blocking \ SALVAGE_OPAQUE :
            CheckClass(k, NoProver) = "quality"
    BY <2>1, <2>4 DEF Salvage, ClassifyFailure
  <2>6. status[n] = "green"
    BY <2>2, <2>3, <2>5
  <2> QED
    BY <2>2, <2>6 DEF Green, Present
<1> QED
  BY <1>1, SpecIInv, PTL DEF Spec, SeedsAreVouched
=============================================================================
