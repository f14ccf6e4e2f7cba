CONSTANTS
    Worker = {w1}
    First = w1
    Script = {s1}
    NoScript = NoScript
    Programs <- SleepPrograms
    MaxPost = 0
    MaxFrames = 0
SPECIFICATION FairSpec
CHECK_DEADLOCK FALSE
PROPERTIES
    TerminateCloses
