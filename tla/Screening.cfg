CONSTANTS
    File = {f1, f2}
    Reader = {r1}
    Category = {"UNCLEAR", "PERSONAL"}
    Slots = 1
    MaxTries = 2
    Cap = 1
    MaxFaults = 1
SPECIFICATION FairSpec
INVARIANTS TypeOK ToldIsMarked SlotsBalance
PROPERTIES BatchKeepsPromise QueueDrains
CHECK_DEADLOCK FALSE
