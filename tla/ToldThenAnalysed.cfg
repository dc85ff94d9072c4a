CONSTANTS
    File = {f1}
    Reader = {r1}
    Category = {"UNCLEAR", "NSFW"}
    Slots = 1
    MaxTries = 2
    Cap = 1
    MaxFaults = 0
SPECIFICATION Spec
PROPERTY ToldStaysOut
CHECK_DEADLOCK FALSE
