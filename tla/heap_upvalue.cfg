SPECIFICATION Spec
CONSTANTS
    Null = Null
    c1 = c1
    Obj = {o1, o2, o3}
    ChunkSlot = {c1}
    TvSlot = {}
    FrameSlot = {f1}
    Passes = 2
    Program <- UpvalueProgram
SYMMETRY AddressSymmetry
INVARIANT UpvaluesStayAlive
CHECK_DEADLOCK FALSE
