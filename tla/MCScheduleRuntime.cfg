CONSTANTS
    Caller = {c1}
    MaxId = 2
    MaxTime = 3
    Interval = 1
    MaxTurns = 1
    MaxMishaps = 1
SPECIFICATION FairSpec
CHECK_DEADLOCK FALSE
INVARIANTS Inv RemindedOnce
PROPERTIES Served
