SPECIFICATION Spec
CONSTANTS
    NewStreams <- MCNewStreams
    LatestStreams <- MCLatestStreams
    Subjects = {gate, yard}
    HandlerCount = 2
    InitialDelay = 2
    MaximumDelay = 5
    MaxPublished = 2
    MaxFaults = 2
INVARIANTS
    TypeOK
PROPERTIES
    StopEndsTheLoops
    ImplementsFeed
CHECK_DEADLOCK FALSE
