CONSTANTS
    Handle = {h1, h2}
    Client = {c1, c2}
    Key = {k1}
    MaxValue = 2
    MaxBusy = 3
SYMMETRY Symmetry
SPECIFICATION Spec
CHECK_DEADLOCK FALSE
INVARIANT Inv
PROPERTIES Refinement
