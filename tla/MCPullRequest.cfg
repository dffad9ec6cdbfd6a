SPECIFICATION Spec
CONSTANTS
    Callers = {"orchestrator", "overseer"}
    Overseers = {"overseer"}
    MaxTrail = 1
    Names <- MCNames
    Slow <- MCSlow
    Removals <- MCRemovals
    Approvals <- MCApprovals
    Prover = "lean4"
    MaxPushes = 2
INVARIANTS
    TypeOK
    LandedWasAudited
    TrailNamesTheCommit
    ReadersAgreeOnGreen
PROPERTY
    SeedsAreVouched
CHECK_DEADLOCK FALSE
