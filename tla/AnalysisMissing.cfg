SPECIFICATION Spec
CONSTANTS
    Request = {r1}
    Run = {t1}
    File = {f1}
    Analysed = {1}
    MaxVisits = 1
    MaxDay = 1
    MaxOverrides = 0
    MaxFaults = 0
INVARIANT UnhinderedRunsComplete
