CONSTANTS
    Job = {j1, j2}
    Owner = {o1}
    Unowned = Unowned
    Waiter = {w1, w2}
    NoJob = NoJob
    MaxActive = 1
SPECIFICATION FairSpec
CHECK_DEADLOCK FALSE
INVARIANTS Inv GivenOnce
PROPERTY Concludes
