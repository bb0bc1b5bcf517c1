\* Three requests racing on one name, an error and a restart.
SPECIFICATION Spec
CONSTANTS
    Procs = {p1, p2, p3}
    Names = {a}
    None = None
    Metas <- MCMetas
    ChunkSize = 2
    MaxChunks = 2
    MaxFaults = 1
    MaxCrashes = 1
SYMMETRY Symmetry
CHECK_DEADLOCK FALSE
INVARIANTS
    TypeOK
    DiskMirrorsMap
    ChunksAreAtomic
    OneIncarnation
    OneHandlePerIndex
    NeverStuck
PROPERTIES
    ImplementsDatabase
