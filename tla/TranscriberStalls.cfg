\* A window that ends in speech and begins with the echo of what was emitted.
CONSTANTS
    Window = 4
    Overlap = 2
    MinNew = 1
    Holdback = 1
    MaxDrain = 2
    MaxAudio = 6
SPECIFICATION Spec
PROPERTIES
    FullWindowMoves
CHECK_DEADLOCK FALSE
