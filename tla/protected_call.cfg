SPECIFICATION Spec
CONSTANTS
    Value = {e1, e2}
    NoValue = NoValue
    MaxStack = 7
INVARIANTS StackInv JmpbufIsInnermostPad DepthCountsFrames ChainIsRootFrames
PROPERTY ImplementsProtectedCall
CHECK_DEADLOCK FALSE
