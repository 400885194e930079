SPECIFICATION Spec
CONSTANTS
    NewStreams <- NoStreams
    LatestStreams <- MCLatestStreams
    Subjects = {gate}
    HandlerCount = 2
    InitialDelay = 2
    MaximumDelay = 5
    MaxPublished = 1
    MaxFaults = 1
INVARIANTS
    StoppedIsDisconnected
CHECK_DEADLOCK FALSE
