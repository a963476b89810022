SPECIFICATION FairSpec
CONSTANTS
    Chunk = 2
    MaxOutput = 2
    HasInput = TRUE
    MaxWritten = 2
INVARIANTS
    CaptureIsConsistent
    JoinedIsComplete
    NothingRunsOn
PROPERTY Returns
