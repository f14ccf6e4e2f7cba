CONSTANTS
    Timer = {"a", "b"}
    Single = {"b"}
    Watched = {"a"}
    Period = {0, 2}
    MaxOps = 4
    MaxDepth = 2
SPECIFICATION FairSpec
INVARIANTS
    QueueIsSound
    KnowsItsEvent
    StartIsGood
PROPERTIES
    TimersRun
