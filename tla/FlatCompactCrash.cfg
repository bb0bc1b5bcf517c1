\* One crash, no I/O error.
SPECIFICATION Spec
CONSTANTS
    Ids = {i1, i2}
    Values = {v1, v2}
    Zero = Zero
    Garbled = Garbled
    Missing = Missing
    MaxRecords = 2
    MaxBatch = 0
    MaxCrashes = 1
    MaxFaults = 0
    MaxSnapshots = 0
    FaultKinds = {}
INVARIANT WatermarkHonest
