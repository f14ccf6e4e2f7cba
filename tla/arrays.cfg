CONSTANTS
    a = a
    b = b
    Undefined = Undefined
    Beyond = Beyond
    Value = {a, b, Undefined}
    rank <- MCRank
    Round = 2
    Inputs <- MCInputs
    Positions <- MCPositions
    Directions <- MCDirections
    Outside = {"get", "set", "append", "delete", "length", "clear", "push", "pop", "shift", "unshift", "insert", "splice", "removeElements", "unique", "compact", "reverse", "indexOf", "lastIndexOf", "clone", "concat", "slice", "&", "|"}
    Inside = {"push", "shift", "clear"}
    MaxLen = 3
    MaxDepth = 1
SPECIFICATION Spec
INVARIANTS
    StaysInBlock
    LoopsMissNothing
    SortKeeps
PROPERTIES
    IsList
