\* Two concurrent creates of one name; no failure.
SPECIFICATION Spec
CONSTANTS
    Procs = {p1, p2}
    Names = {a}
    None = None
    Metas <- MCMetas
    ChunkSize = 2
    MaxChunks = 1
    MaxFaults = 0
    MaxCrashes = 0
CHECK_DEADLOCK FALSE
INVARIANT
    RegisteredReloads
