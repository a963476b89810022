SPECIFICATION Spec
CONSTANTS
    Cases = {c1, c2}
    Records = {r1, r2}
    Episodes = {e1, e2}
    RequestIds = {i1}
    Predictions = {p1, p2}
    MaxExperiments = 1
    None = None
    Bundles = {b1}
    Labels = {l1, l2}
    MaxEdits = 1
INVARIANTS
    Aligned
    CompletedIsEarned
    CleanupIsAccounted
CHECK_DEADLOCK FALSE
