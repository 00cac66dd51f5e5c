CONSTANTS
    Route = {normal, always, bare}
    Always = {always}
    Bare = {bare}
    MaxRetries = 2
    MaxOverflowRetries = 1
    MaxSteps = 2
    MaxRequests = 4
SPECIFICATION FairSpec
CHECK_DEADLOCK FALSE
INVARIANTS Inv RequestsBounded
PROPERTIES QuietAfterStop Settles
