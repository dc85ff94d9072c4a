SPECIFICATION FairSpec
CONSTANTS
    File = {f1, f2}
    Id = {s1, s2}
    NoId = NoId
    MaxWipes = 1
    MaxFaults = 1
INVARIANTS
    TypeOK
    
    ReaderSeesKept
    NoDuplicates
PROPERTIES
    HandlerEnds
CHECK_DEADLOCK FALSE
