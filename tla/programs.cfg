CONSTANTS
    Widths = {1, 2}
    Counts <- MCCounts
    Blocks = {1, 3}
    GrowInc = 2
    MaxGrowInc = 4
    Copies = FALSE
    Writes <- MCWrites
    MaxWritten = 5
    MaxOps = 3
    MaxDepth = 4
    Fuel = 2
    MaxTrace = 12
    Names = {"x", "y", "o", "f", "m", "p"}
    Literals = {"0", "k"}
    Falsy = {"0", "y", "-", "."}
    Touched = "x"
SPECIFICATION MCSpec
INVARIANTS
    DoesAsMeant
    LeavesInOrder
    StackKept
    EffectsAndValues
    ReaderKeepsUp
PROPERTIES
    CalleeIsolated
    Terminates
    IsQueue
