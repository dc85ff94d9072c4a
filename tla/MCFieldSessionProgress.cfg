SPECIFICATION FairSpec
CONSTANTS
    Request = {r1}
    Run = {t1, t2}
    File = {f1}
    Analysed = {}
    MaxVisits = 2
    MaxDay = 1
    MaxOverrides = 1
    MaxFaults = 1
PROPERTIES
    RunsKeepPromise
    BusySettles
    TriggerIsAnswered
