CONSTANTS
    DSSs = {d1, d2}
    Region = region
    Second = 2
    Short = 4
    Long = 15
    Limit = 2
    MaxOld = 1
    MaxFaulty = 1
    MaxDelay = 4
    MaxGlitches = 1
SPECIFICATION Spec
CHECK_DEADLOCK FALSE
INVARIANTS
    PassMeansInteroperable
    FailuresExplained
    RoundCleansUp
