CONSTANTS
    r1 = r1
    r2 = r2
    Receivers = {r1, r2}
    Load = 4
    To <- MCTo
    Size <- MCSize
    MaxSize = 1
    Capacity = 5
    MaxOnAir = 3
    Impatient = TRUE
    Held = {0, 3}
SPECIFICATION FairSpec
CHECK_DEADLOCK FALSE
INVARIANTS
    WindowOrdered
    RepliesAreExpected
    DeliveredInOrder
    AckedIsReceived
PROPERTY
    EverythingEnds
