SPECIFICATION Spec
CONSTANTS
    Prep = 2
    SitePhases = {"prep", "control", "candidate"}
    None = None
    MaxFaults = 3
INVARIANTS
    VerifiedIsClean
    PreparedInputIsSettled
    FailuresAreContained
    RefusedLooksObserved
CHECK_DEADLOCK FALSE
