CONSTANTS
    m1 = m1
    mic = mic
    system = system
    NoRow = NoRow
    Sessions = {m1}
    Channels = {mic}
    Titles = {"Weekly"}
    Untitled = ""
    MaxAudio = 1
    MaxMishaps = 0
SPECIFICATION Spec
INVARIANTS
    DeletedIsForGood
CHECK_DEADLOCK FALSE
