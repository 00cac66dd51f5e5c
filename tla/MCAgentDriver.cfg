CONSTANTS
    Msg = {m1, m2, m3}
    MaxSteps = 1
SPECIFICATION FairSpec
INVARIANTS Inv NoLostWake
PROPERTIES AbortStopsTurn Served
