CONSTANTS
    NCalls = 3
    MaxParallel = 2
SPECIFICATION FairSpec
CHECK_DEADLOCK FALSE
INVARIANTS Inv LogInOrder EveryCallAnswered ExclusiveAlone
PROPERTY StepEnds
