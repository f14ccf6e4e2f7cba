CONSTANTS
    Programs <- NestedReturns
    Fuel = 1
    MaxTrace = 12
SPECIFICATION Spec
CHECK_DEADLOCK FALSE
INVARIANTS
    FinallyBeforeReturn
