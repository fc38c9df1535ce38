CONSTANTS
    a = a
    b = b
    Stations = {a, b}
    MaxFrames = 2
    Load <- OneBack
    Size <- ShortThenLong
    ShortRetryLimit = 2
    LongRetryLimit = 2
    BianchiRetryCounter = FALSE
    Sifs = 2
    Timeout = 5
    Preamble = 2
    Psdu = 3
    Foreign = {}
SPECIFICATION FairSpec
INVARIANT
    RetriesBounded
PROPERTY
    EverythingEnds
