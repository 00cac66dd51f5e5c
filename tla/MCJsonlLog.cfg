CONSTANTS
    MaxEvents = 2
    MaxLives = 3
    MaxFaults = 2
SPECIFICATION Spec
CHECK_DEADLOCK FALSE
INVARIANT Inv
PROPERTIES RawReadIsWhole Refinement
