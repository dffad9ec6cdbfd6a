SPECIFICATION FairBoardSpec
CONSTANTS
    r1 = r1
    Bad = Bad
    Nothing = Nothing
    Records <- MCRecords
    Undefined = {}
    Flaky = TRUE
    MaxEvents = 1
    MaxMissed = 1
    MaxAcks = 1
INVARIANTS
    StrandedOnlyByFailure
    VerdictStands
PROPERTY
    LabelFollowsLease
CHECK_DEADLOCK FALSE
