CONSTANTS
    Grace = 1
    Slot = 2
    Aifs = 3
    Eifs = 5
    CwMin = 1
    CwMax = 6
    MaxTransmissions = 4
SPECIFICATION FairSpec
INVARIANTS
    GrantIsEarned
    EifsAfterError
    CountdownFollowsChannel
PROPERTY
    NoStall
