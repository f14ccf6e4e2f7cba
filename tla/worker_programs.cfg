CONSTANTS
    Worker = {w1, w2}
    First = w1
    Script = {s1}
    NoScript = NoScript
    Programs <- PairOrWaits
    MaxPost = 1
    MaxFrames = 2
SPECIFICATION FairSpec
CHECK_DEADLOCK FALSE
INVARIANTS
    JoinMeansComplete
PROPERTIES
    KeepsContract
    PairJoinReturns
    TerminateWakes
