SPECIFICATION ShutdownSpec
CONSTANTS
    MaxMessages = 4
    Clients = {browser}
    Requests = {request}
    MaxSignals = 2
INVARIANTS
    InOrderWithoutLoss
    CloseCodesMayBeSent
PROPERTIES
    BothSocketsEnd
    SignalsEndTheProcess
CHECK_DEADLOCK FALSE
