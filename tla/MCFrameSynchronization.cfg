CONSTANTS
    p1 = p1
    p2 = p2
    p3 = p3
    Peers = {p1, p2, p3}
    FrameDurations = {1, 2, 4}
    Sinrs <- MCSinrs
    DetectionThreshold = 1
    IdleCapture = 1
    SlcCapture = 2
    SlgCapture = 3
    MaxStreams = 3
    Delivery = 1
    Tolerance = 1
    SignalErrorAlthoughNotSynchronized = FALSE
SPECIFICATION Spec
SYMMETRY Symmetry
INVARIANTS
    StateAgreesWithTimer
    StartsTerminated
    DetectedCovered
