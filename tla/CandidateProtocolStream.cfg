SPECIFICATION Spec
CONSTANTS
    e1 = e1  e2 = e2  r1 = r1  r2 = r2  p1 = p1  p2 = p2
    None = None
    Episodes = {e1, e2}
    RequestIds = {r1, r2}
    Predictions = {p1, p2}
    MaxExperiments = 1
    QueueCap = 1
    PipeCap = 1
    MaxStdout = 3
    MaxStderr = 1
    MaxTotal = 3
    CandidateFrames <- StreamFrames
    MaxFrames = 3
    MaxNoise = 1
SYMMETRY StreamSymmetry
INVARIANTS
    FinalsFollowStream
    LedgerIsExact
    BudgetHolds
    InOrder
