SPECIFICATION Spec
CONSTANTS
    Request = {r1, r2}
    Run = {t1, t2}
    File = {f1}
    Analysed = {2}
    MaxVisits = 1
    MaxDay = 2
    MaxOverrides = 1
    MaxFaults = 1
SYMMETRY Symmetry
INVARIANTS
    TypeOK
    BusyHasOwner
    CompletedWasDelivered
PROPERTIES
    OnlyOperatorReopens
