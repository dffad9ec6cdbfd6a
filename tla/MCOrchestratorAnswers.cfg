SPECIFICATION MCSpec
CONSTANTS
    Parts = {"intake"}
    r1 = r1
    r2 = r2
    Bad = Bad
    Nothing = Nothing
    Records <- MCRecords
    Undefined = {}
    Flaky = FALSE
    MaxEvents = 2
    MaxMissed = 1
    MaxAcks = 2
    LastTask = 1
    MaxLoopEvents = 0
    MaxTicks = 1
    MaxFaults = 0
    MaxChanges = 0
    Decls <- MCDecls
    LeafOf <- MCLeafOf
    QualifiedOf <- MCQualifiedOf
    PlannedIds <- MCPlannedIds
    Generated = "gen"
    Releases <- MCReleases
    LastRelease = 3
    Elsewhere = {"x"}
    OverseersOwn = "own"
    MaxEdits = 0
    MaxDeaths = 0
    MaxLineEdits = 0
    TaskDrafts <- MCTaskDrafts
    Proses <- MCProses
    BodyLines <- MCBodyLines
    BlockLines <- MCBlockLines
INVARIANT IntakeAnswers
CHECK_DEADLOCK FALSE
