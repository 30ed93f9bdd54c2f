SPECIFICATION Spec
CONSTANTS
    Calls <- MCCalls
    ScratchSize = 5
    MaxSeen = 8
INVARIANT TypeOK
INVARIANT GsubFits
INVARIANT ConcatInBounds
PROPERTY ImplementsLuaStrings
PROPERTY GetsNearer
