CONSTANTS
    Cache = {c1, c2}
    Null = Null
    Key = {k1}
    KeyLen = 1
    Shares = {TRUE}
    Ops = {"clone", "destroy", "read", "write", "inc", "remove", "expire", "setLimits"}
    Lens = {1}
    Modes = {"set"}
    Lifespans = {0, 1}
    Dates = {0}
    Limits <- MCNoLimits
    Factors <- MCFactors
    MaxTime = 2
    MaxLen = 1
    MaxVersion = 2
    MaxUsed = 0
    Reclaims = TRUE
SPECIFICATION FairSpec
CHECK_DEADLOCK FALSE
INVARIANTS
    MemoryIsCounted
    ItemsHaveTimer
    CasSeesUpdates
PROPERTIES
    DueItemsGo
