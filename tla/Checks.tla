------------------------------- MODULE Checks -------------------------------
(***************************************************************************)
(* gate/checks.py, and what orchestrator/salvage.py makes of it: which     *)
(* checks block a merge, which must be present, and which failures leave a *)
(* tree that the next worker may start from. A name stands for the last    *)
(* segment of what GitHub reports, the only one `_canonical` reads; a name *)
(* of no class is one the registry does not have.                          *)
(***************************************************************************)

\* CHECKS, class by class.
TrustChecks ==
    {"statement-equiv", "statement-immutability", "axiom-honesty",
     "sorry-delta", "comparator"}
QualityChecks == {"rebuild", "decide-instance"}
AdvisoryChecks == {"style", "trust-report", "review"}
CHECKS == TrustChecks \cup QualityChecks \cup AdvisoryChecks

\* The prover that a caller may leave out.
NoProver == "none"
Provers == {"lean4", "isabelle", "rocq", NoProver}

\* PROVER_OVERRIDES: what each prover relaxes to advisory.
Relaxed(prover) ==
    CASE prover = "lean4" -> {"statement-equiv"}
      [] prover = "rocq"  -> {"statement-immutability"}
      [] OTHER            -> {}

REQUIRED_PRESENT == TrustChecks \cup QualityChecks

SALVAGE_OPAQUE == {"comparator"}

CheckClass(n, prover) ==
    CASE n \notin CHECKS                                 -> "unknown"
      [] n \in AdvisoryChecks \/ n \in Relaxed(prover)   -> "advisory"
      [] n \in QualityChecks                             -> "quality"
      [] OTHER                                           -> "trust"

IsBlocking(n, prover) == CheckClass(n, prover) # "advisory"

\* Mutant: absence is nobody's failure.
MissingRequiredIgnored(present) == {}

MissingRequired(present) == REQUIRED_PRESENT \ present

\* Mutant: the salvage axis reads the merge axis's relaxation.
ClassifyFailureRelaxed(failed) ==
    LET readable == {n \in failed : IsBlocking(n, "lean4")} \ SALVAGE_OPAQUE
    IN  IF \A n \in readable : CheckClass(n, NoProver) = "quality"
        THEN "near_miss" ELSE "trust"

\* classify_failure takes no prover: it always reads the strict class.
ClassifyFailure(failed) ==
    LET blocking == {n \in failed : IsBlocking(n, NoProver)}
        readable == blocking \ SALVAGE_OPAQUE
    IN  IF \/ blocking = {}
           \/ /\ readable # {}
              /\ \A n \in readable : CheckClass(n, NoProver) = "quality"
        THEN "near_miss" ELSE "trust"
=============================================================================
