CONSTANTS
    Impl = {i1}
    FileImpl = {i1}
    Request = {r1, r2}
    TTL = 2
    MaxTime = 3
    MaxWrites = 1
    MaxFaults = 1
SPECIFICATION Spec
INVARIANTS TypeOK ConfigWithinTTL KeywordsWithinTTL WebSeesItsEdits
CHECK_DEADLOCK FALSE
SYMMETRY RequestsAlike
