CONSTANTS
    User = {a, b, n}
    Founders = {a, b}
    MaxSlot = 3
    Req = {r1, r2}
    NoReq = NoReq
    Conn = {c1, c2}
    NoConn = NoConn
    ByHand = TRUE
SPECIFICATION Spec
SYMMETRY Requests
CHECK_DEADLOCK FALSE
INVARIANTS Inv PromisesAlone
