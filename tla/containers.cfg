CONSTANTS
    n1 = n1
    n2 = n2
    other = other
    v1 = v1
    Null = Null
    Empty = Empty
    c1 = c1
    k1 = k1
    k2 = k2
    QNames <- MCQNames
    OpenSpaces <- MCOpen
    Value = {Null, v1}
    Options <- MCOptions
    whash <- MCHash
    rank <- MCRank
    HashMin = 1
    HashSizes <- MCSizes
    Round = 2
    Lots = 2
    MaxProp = 3
SPECIFICATION MCSpec
INVARIANTS
    HashFinds
PROPERTIES
    IsMap
    PruneEnforcesLimits
