\* One meeting on two channels, one failing call or one crash.
CONSTANTS
    m1 = m1
    mic = mic
    system = system
    NoRow = NoRow
    Sessions = {m1}
    Channels = {mic, system}
    Titles = {"Weekly"}
    Untitled = ""
    MaxAudio = 1
    MaxMishaps = 1
SPECIFICATION FairSpec
INVARIANTS
    TypeOK
    LiveIsRecording
    OneTranscript
    StoppedIsComplete
    CaptionsArePersisted
    MidFlightHasOwner
PROPERTIES
    TranscriptNeverShrinks
    StopReturns
    PassEnds
CHECK_DEADLOCK FALSE
