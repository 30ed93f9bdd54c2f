SPECIFICATION FairSpec
CONSTANTS
    Program <- Sound
INVARIANTS TypeOK
PROPERTIES ImplementsLua EndsWithLua
CHECK_DEADLOCK FALSE
