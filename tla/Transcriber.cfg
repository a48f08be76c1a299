\* A window of four units, rewinding two.
CONSTANTS
    Window = 4
    Overlap = 2
    MinNew = 1
    Holdback = 1
    MaxDrain = 2
    MaxAudio = 6
SPECIFICATION FairSpec
INVARIANTS
    RepeatsAreShort
    LossIsAtCuts
PROPERTIES
    NeverBack
    DrainEnds
CHECK_DEADLOCK FALSE
