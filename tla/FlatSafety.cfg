\* Every failure window of the flat index, three ids, two values.
SPECIFICATION Spec
CONSTANTS
    Ids = {i1, i2, i3}
    Values = {v1, v2}
    Zero = Zero
    Garbled = Garbled
    Missing = Missing
    MaxRecords = 4
    MaxBatch = 2
    MaxCrashes = 2
    MaxFaults = 1
    MaxSnapshots = 0
    FaultKinds = {"segment", "catalog"}
SYMMETRY Symmetry
INVARIANTS
    TypeOK
    DurableContents
    ServedContents
    CountersExact
    MapWithinFile
PROPERTIES
    NeverShrinksUnderMap
    ImplementsVectorIndex
