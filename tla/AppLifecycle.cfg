\* Two meetings, two calls to stop, a summary asked for again.
CONSTANTS
    m1 = m1
    m2 = m2
    x1 = x1
    x2 = x2
    r1 = r1
    NoOne = NoOne
    Meetings = {m1, m2}
    Stops = {x1, x2}
    Requests = {r1}
SPECIFICATION FairSpec
INVARIANTS
    RecordingIsCurrent
    OneAtATime
    QuitIsSeen
    FinalModelOnlyInPass
PROPERTIES
    MainGoesOn
    StoppedIsFinalized
CHECK_DEADLOCK FALSE
