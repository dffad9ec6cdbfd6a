SPECIFICATION GateSpec
CONSTANTS
    Parts = {"text", "lean", "spans", "audits", "jobs", "counts", "workspace", "policies"}
    Beginnings <- MCBeginnings
    Alphabets <- MCAlphabets
    MaxText = 6
    MaxTokens = 5
    Names = {a, b}
    MaxLines = 4
    MaxScopes = 2
    Scopes = {"A", "B"}
    Leaves = {"c", "d"}
    Drafts <- MCDrafts
    MaxBase = 2
    Cap = 1
    MaxEdits = 2
    Projects <- MCProjects
    Descriptions <- MCDescriptions
    MaxCommits = 2
    MaxDescriptionEdits = 1
    MaxBaseItems = 1
    MaxItemEdits = 2
    Modules = {"P", "Q"}
    External = {"Projection"}
    RootLibs = {"P"}
    MaxImports = 1
    MaxWrites = 2
    Policies <- MCPolicies
    MaxPushes = 2
    MaxMerges = 1
INVARIANTS
    LexersAgree
    StatementsAreExact
    SpansAreTrue
    AuditsRefuse
    AuditsPermit
    JobsVouch
    TrustGrowsInSight
    SidesStandApart
    JudgedByTheBranch
CHECK_DEADLOCK FALSE
