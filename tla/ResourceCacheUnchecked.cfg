SPECIFICATION Spec
CONSTANTS
    Procs = {a, b}
    Files = {f, g}
    Versions = {v, w}
    Gone = Gone
    None = None
    Absent = Absent
    MaxCalls = 3
    MaxEvents = 1
INVARIANT PublishedIsChecked
CHECK_DEADLOCK FALSE
