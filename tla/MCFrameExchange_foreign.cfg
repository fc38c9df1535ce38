CONSTANTS
    a = a
    b = b
    Stations = {a, b}
    MaxFrames = 2
    Load <- OneBack
    Size <- ShortThenEqual
    ShortRetryLimit = 2
    LongRetryLimit = 2
    BianchiRetryCounter = FALSE
    Sifs = 2
    Timeout = 5
    Preamble = 2
    Psdu = 3
    Foreign = {2}
SPECIFICATION Spec
CHECK_DEADLOCK FALSE
INVARIANT
    NeverForgotten
PROPERTY
    ImplementsLink
