SPECIFICATION FairSpec
CONSTANTS
    Procs = {a, b}
    Files = {f, g}
    Versions = {v, w}
    Gone = Gone
    None = None
    Absent = Absent
    MaxCalls = 3
    MaxEvents = 1
INVARIANTS
    MutualExclusion
    NothingLeftBehind
    ReturnedStaysIntact
PROPERTIES
    PublishedIsFinal
    CallsEnd
CHECK_DEADLOCK FALSE
