SPECIFICATION Spec
CONSTANTS
    Msg = {m1, m2}
    Impl = {home, other}
    Home = home
    NoImpl = NoImpl
    Terms = {other}
    Company = {home}
    Retail = other
    MaxSent = 3
    MaxRestarts = 1
SYMMETRY Symmetry
INVARIANTS
    TypeOK
    ProcessedOncePerLife
    OneDemoPerSession
    EveryMessageAnswered
CHECK_DEADLOCK FALSE
