\* One chunk and the overall summary, each retried at will.
CONSTANTS
    Chunks = 1
    MaxRequests = 4
    MaxProgress = 1
SPECIFICATION FairSpec
INVARIANTS
    AnsweredInOrder
    CancelHitsItsRequest
    CancelIsObeyed
    CancelEndsRequests
PROPERTIES
    SummaryEnds
    SidecarEnds
CHECK_DEADLOCK FALSE
