SPECIFICATION Spec
CONSTANTS
    Null = Null
    c1 = c1
    Obj = {o1, o2, o3, o4}
    ChunkSlot = {c1, c2}
    TvSlot = {v1}
    FrameSlot = {f1}
    Passes = 2
    Program <- SoundPrograms
SYMMETRY AddressSymmetry
INVARIANT NoDangling
INVARIANT MarkCovers
INVARIANT MarkPrecise
INVARIANT FinalizerProbesLive
PROPERTY WeakKeepsHeld
CHECK_DEADLOCK FALSE
