SPECIFICATION Spec
CONSTANTS
    Keys <- ThreeKeys
    Values = {v1, v2, v3}
    NoValue = NoValue
    NoKey = NoKey
    Buckets = 2
    Hash <- TwoChains
INVARIANTS
    TypeOK
    KeysFindable
    ValuesOwned
    FindPrefixShortest
PROPERTIES
    VisitsAll
    ImplementsMap
CHECK_DEADLOCK FALSE
