\* Four nodes on two layers: lists of layer 1 overflow.
SPECIFICATION Spec
CONSTANTS
    Ids = {i1, i2, i3}
    Values = {v1, v2}
    M = 2
    MaxLevel = 1
    MaxNodes = 4
SYMMETRY Symmetry
INVARIANTS
    WellLinked
    EntryIsTop
    LiveReachable
PROPERTIES
    ImplementsVectorIndex
    CompactionKeepsContents
