\* One failed append, no crash.
SPECIFICATION Spec
CONSTANTS
    Ids = {i1, i2}
    Values = {v1, v2}
    Zero = Zero
    Garbled = Garbled
    Missing = Missing
    MaxRecords = 2
    MaxBatch = 0
    MaxCrashes = 0
    MaxFaults = 1
    MaxSnapshots = 0
    FaultKinds = {"segment"}
INVARIANT InsertsDurable
