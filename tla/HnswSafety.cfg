\* Three nodes on two layers, every failure window.
SPECIFICATION Spec
CONSTANTS
    Ids = {i1, i2}
    Values = {v1, v2}
    Zero = Zero
    Garbled = Garbled
    M = 2
    MaxLevel = 1
    MaxNodes = 3
    MaxRecords = 3
    MaxWidth = 1
    MaxCompactions = 1
    MaxLoad = 2
    MaxCrashes = 1
    MaxFaults = 1
SYMMETRY Symmetry
CONSTRAINT Unexposed
INVARIANTS
    TypeOK
    ReloadsExactly
    DurableContents
PROPERTIES
    ImplementsVectorIndex
