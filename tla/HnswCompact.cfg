\* Inserts, removes, one compaction, nothing fails.
SPECIFICATION Spec
CONSTANTS
    Ids = {i1, i2}
    Values = {v1, v2}
    Zero = Zero
    Garbled = Garbled
    M = 2
    MaxLevel = 0
    MaxNodes = 2
    MaxRecords = 2
    MaxWidth = 1
    MaxCompactions = 1
    MaxLoad = 0
    MaxCrashes = 0
    MaxFaults = 0
INVARIANT RecordPerNode
