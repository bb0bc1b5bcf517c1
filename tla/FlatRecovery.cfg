\* Snapshots and liveness: fairness, so no symmetry.
SPECIFICATION FairSpec
CONSTANTS
    Ids = {i1}
    Values = {v1, v2}
    Zero = Zero
    Garbled = Garbled
    Missing = Missing
    MaxRecords = 2
    MaxBatch = 0
    MaxCrashes = 1
    MaxFaults = 1
    MaxSnapshots = 2
    FaultKinds = {"segment"}
INVARIANTS
    SnapshotConsistent
PROPERTIES
    ComesBack
