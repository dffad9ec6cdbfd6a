SPECIFICATION MCSpec
CONSTANTS
    Parts = {"intake", "loop", "graph", "overlay", "bodies"}
    r1 = r1
    r2 = r2
    Bad = Bad
    Nothing = Nothing
    Records <- MCRecords
    Undefined <- MCUndefined
    Flaky = TRUE
    MaxEvents = 4
    MaxMissed = 2
    MaxAcks = 2
    LastTask = 2
    MaxLoopEvents = 2
    MaxTicks = 2
    MaxFaults = 1
    MaxChanges = 3
    Decls <- MCDecls
    LeafOf <- MCLeafOf
    QualifiedOf <- MCQualifiedOf
    PlannedIds <- MCPlannedIds
    Generated = "gen"
    Releases <- MCReleases
    LastRelease = 3
    Elsewhere = {"x"}
    OverseersOwn = "own"
    MaxEdits = 2
    MaxDeaths = 1
    MaxLineEdits = 2
    TaskDrafts <- MCTaskDrafts
    Proses <- MCProses
    BodyLines <- MCBodyLines
    BlockLines <- MCBlockLines
INVARIANTS
    AcceptedIsAcknowledged
    NothingIsSleptOver
    PlanIsTheSource
    OnlyOwnIsDeleted
    NothingIsLeftBehind
    BodiesReadBack
PROPERTIES
    LoopGoesOn
    IntentSurvives
CHECK_DEADLOCK FALSE
