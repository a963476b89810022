CONSTANTS
    a = a
    b = b
    Procs = {a, b}
    MaxRuns = 2
    MaxFaults = 2
SPECIFICATION Spec
SYMMETRY ProcSymmetry
INVARIANTS
    ReadyIsReproduced
    RerunFindsNameFree
    OrderlyEndIsClean
CHECK_DEADLOCK FALSE
