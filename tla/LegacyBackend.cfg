\* Two captures of one id, one failing call or restart.
CONSTANTS
    a = a
    b = b
    NoCapture = NoCapture
    Captures = {a, b}
    MaxChunks = 2
    MaxDrain = 3
    MaxFaults = 1
SPECIFICATION FairSpec
INVARIANTS
    CompleteMeansAll
    LossIsAtStop
    StoredInOrder
    CaptionsAreStored
PROPERTIES
    StopEnds
CHECK_DEADLOCK FALSE
