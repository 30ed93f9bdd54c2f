SPECIFICATION FairSpec
CONSTANTS
    Obj = {o1, o2, o3}
    Null = Null
    Size = {1, 2}
    ThresholdInit = 3
    ThresholdCap = 4
    Pauses = {0}
    PauseInit = 200
    Finalizer <- Finalizers
    MaxDepth = 2
INVARIANTS TypeOK ListIsHeap BytesAreAccounted HeldIsAllocated SweepIsComplete
PROPERTIES FinalizedOnce CollectionsEnd
CHECK_DEADLOCK FALSE
