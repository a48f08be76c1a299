\* One meeting that is started, one call to stop, a quit.
CONSTANTS
    m1 = m1
    m2 = m2
    x1 = x1
    x2 = x2
    r1 = r1
    NoOne = NoOne
    Meetings = {m1}
    Stops = {x1}
    Requests = {r1}
SPECIFICATION FairSpec
PROPERTIES
    ShutdownEnds
CHECK_DEADLOCK FALSE
