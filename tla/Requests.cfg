\* Every method from three kinds of caller, on one collection of up to three points.
SPECIFICATION Spec
CONSTANTS
    Floats <- MCFloats
    NaN <- MCNaN
    Inf = 1000
    MaxUsize = 1000
    MaxDepth = 1
    MaxU32 = 300
    MinI64 <- MCMinI64
    MaxI64 = 7
    Names = {"c", "d"}
    InvalidNames = {"a/b"}
    Ids = {1, 2, 3}
    CliArgs <- MCCliArgs
    ClientArgs <- MCClientArgs
    OtherArgs <- MCOtherArgs
INVARIANTS
    TypeOK
    StoredAreValid
    ShownIsGiven
    ComparisonsNeverInvert
PROPERTIES
    RejectionIsClean
    RemoteIsEmbedded
    SearchIsExact
    FusionRespectsDominance
