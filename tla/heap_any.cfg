SPECIFICATION Spec
CONSTANTS
    Null = Null
    c1 = c1
    Obj = {o1, o2, o3}
    ChunkSlot = {c1}
    TvSlot = {v1}
    FrameSlot = {f1}
    Passes = 1
    Program <- AnyPrograms
SYMMETRY AddressSymmetry
INVARIANT GcInv
INVARIANT MarkPrecise
CHECK_DEADLOCK FALSE
