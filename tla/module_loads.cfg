CONSTANTS
    Worlds <- MCWorlds
    Order <- MCOrder
    Reloads = {TRUE, FALSE}
    MaxLoads = 3
    MaxCompiles = 2
SPECIFICATION Spec
CHECK_DEADLOCK FALSE
INVARIANTS
    ReadyWhenRun
    ListedHaveRun
    OnceUnlessFailed
    LaidOutIfOnce
