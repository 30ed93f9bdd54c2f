SPECIFICATION Spec
CONSTANTS
    Key = {k1, k2}
    Value = {v1}
    Elem = {e1}
    Nil = Nil
    Deleted = Deleted
    Junk = Junk
    HASH_INITIAL_CAP = 4
    Hashes <- CollidingHashes
    MaxCount = 4
    MaxLen = 2
    MaxDepth = 1
INVARIANTS TypeOK ProbesEnd Findable NoJunk
PROPERTIES TraversalExact ImplementsLuaTable
SYMMETRY Sym
