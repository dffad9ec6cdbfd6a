SPECIFICATION ClientSpec
CONSTANTS
    Parts = {"workspace"}
    Issues = {i1, i2}
    Free = Free
    MaxClaims = 2
    MaxFaults = 2
    Contributors = {owner, ann}
    Upstream = owner
    Namesakes = {ann}
    MaxHead = 2
    MaxPRs = 2
    Processes = {p1, p2}
    MaxVersion = 3
    MaxCallFaults = 1
    MaxUpdateFaults = 1
INVARIANT AdviceCanBeTaken
CHECK_DEADLOCK FALSE
