CONSTANTS
    Caller = {c1, c2}
    Life = {l1}
    Draft = {d1, d2, d3}
    None = None
    MaxLog = 3
    MaxMishap = 1
SPECIFICATION FairSpec
CHECK_DEADLOCK FALSE
PROPERTY WaitersServed
