SPECIFICATION FairSpec
CONSTANTS
    Twins = {"t1", "t2"}
    Order <- MCOrder
    Ambiguous = {"a1"}
    CrossCase = "a2"
    Unstable = {"t1"}
    Stray = "None"
    MaxFaults = 2
INVARIANTS
    SidesAreAccounted
    ResultIsEarned
    FrozenScoreIsFixed
    MatchPinsTheRun
    ProbeErrorIsInvisible
PROPERTIES
    ImplementsSuite
    Finishes
