\* Batches of two, failures and a crash at every step.
SPECIFICATION Spec
CONSTANTS
    t1 = t1
    t2 = t2
    v1 = v1
    v2 = v2
    x = x
    y = y
    None = None
    Garbled = Garbled
    Terms = {t1, t2}
    Ids = {i1, i2}
    Points <- MCPoints
    Filters <- MCFilters
    MaxBatch = 2
    MaxFaults = 1
    MaxCrashes = 1
SYMMETRY Symmetry
INVARIANTS
    TypeOK
    StoresAgree
    NothingForeign
    PurgeCanBeRetried
    LexicalParity
    CountersExact
PROPERTIES
    PurgeIsComplete
