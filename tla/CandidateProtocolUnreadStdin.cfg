SPECIFICATION FairSpec
CONSTANTS
    e1 = e1  e2 = e2  r1 = r1  r2 = r2  p1 = p1  p2 = p2
    None = None
    Episodes = {e1}
    RequestIds = {r1}
    Predictions = {p1}
    MaxExperiments = 1
    QueueCap = 1
    PipeCap = 1
    MaxStdout = 1
    MaxStderr = 9
    MaxTotal = 9
    CandidateFrames <- PlainFrames
    MaxFrames = 2
    MaxNoise = 0
PROPERTY Terminates
