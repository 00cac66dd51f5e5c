CONSTANTS
    Caller = {c1, c2}
    Life = {l1, l2}
    Draft = {d1, d2, d3}
    None = None
    MaxLog = 4
    MaxMishap = 1
SPECIFICATION Spec
SYMMETRY Symmetry
CHECK_DEADLOCK FALSE
INVARIANTS Inv OneHistory WrittenStays ReservationHolds
PROPERTY ColdRepairOnly
