CONSTANTS
    Embeddings <- TheEmbeddings
    Thresholds = 2
    DevMeetings = 2
    Experiments <- TheExperiments
    Given <- TheGiven
    MaxStarts = 3
    MaxMishaps = 1
SPECIFICATION Spec
INVARIANTS DamageIsBounded StopLosesOneTable
PROPERTY SettingsStay
CHECK_DEADLOCK FALSE
