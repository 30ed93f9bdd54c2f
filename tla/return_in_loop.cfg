SPECIFICATION FairSpec
CONSTANTS
    Program <- All
PROPERTIES NothingAfterReturn
CHECK_DEADLOCK FALSE
