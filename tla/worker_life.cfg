CONSTANTS
    Worker = {w1}
    First = w1
    Script = {s1}
    NoScript = NoScript
    Programs <- LifePrograms
    MaxPost = 2
    MaxFrames = 4
SPECIFICATION Spec
CHECK_DEADLOCK FALSE
INVARIANTS
    TypeOK
    QueuedEventsAreLinked
    CloseIsLast
    CompleteHasAllMessages
    ListAndLinksAgree
    NoTimeoutNoFailure
