SPECIFICATION FairSpec
CONSTANTS
    b1 = b1
    b2 = b2
    i1 = i1
    i2 = i2
    i3 = i3
    v1 = v1
    v2 = v2
    a1 = a1
    File = {i1, i2, i3, v1, v2, a1}
    Kind <- Kinds
    Batch = {b1, b2}
    Inbox <- Inboxes
    Configured <- Caps
    Tiered = {b2}
    Slots = 1
    Retries = 1
INVARIANTS
    TypeOK
    DescribedTruly
    NoneLost
    FailsWithNothing
PROPERTIES
    BatchEnds
CHECK_DEADLOCK FALSE
