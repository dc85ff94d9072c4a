SPECIFICATION Spec
CONSTANTS
    File = {f1, f2}
    Id = {s1, s2}
    NoId = NoId
    MaxWipes = 0
    MaxFaults = 0
INVARIANT RawKeepsFiles
CHECK_DEADLOCK FALSE
