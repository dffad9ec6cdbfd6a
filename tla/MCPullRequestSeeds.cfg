SPECIFICATION Spec
CONSTANTS
    Callers = {"orchestrator", "overseer"}
    Overseers = {"overseer"}
    MaxTrail = 1
    Names <- MCNames
    Slow <- SeedSlow
    Removals <- MCRemovals
    Approvals <- MCApprovals
    Prover = "lean4"
    MaxPushes = 2
PROPERTY
    TrustFailureNeverSeeds
CHECK_DEADLOCK FALSE
