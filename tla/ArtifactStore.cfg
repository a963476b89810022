CONSTANTS
    a = a
    b = b
    f1 = f1
    f2 = f2
    Procs = {a, b}
    Files = {f1, f2}
    Catalogs <- SmallCatalogs
    Blocks = 2
    MaxStarts = 2
SPECIFICATION Spec
SYMMETRY ProcSymmetry
INVARIANTS
    ReadyIsWhole
    LoneFetchHeals
PROPERTY WholeStaysWhole
CHECK_DEADLOCK FALSE
