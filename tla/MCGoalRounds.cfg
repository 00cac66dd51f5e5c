CONSTANTS
    Human = {m1}
    Limits = {2}
    MaxRev = 3
    MaxKept = 1
    MaxWaiting = 0
SPECIFICATION FairSpec
CHECK_DEADLOCK FALSE
INVARIANT Inv
PROPERTIES CancelHolds Continues
