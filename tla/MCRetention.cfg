SPECIFICATION Spec
CONSTANTS
    f1 = f1
    f2 = f2
    f3 = f3
    Sessions = 2
    File = {f1, f2, f3}
    Owner <- Owners
    Pass = {p1, p2}
    BATCH_SIZE = 1
    MaxFaults = 1
INVARIANTS
    TypeOK
    MarkedIsGone
    YoungUntouched
PROPERTIES
    PassSweeps
SYMMETRY Alike
CHECK_DEADLOCK FALSE
