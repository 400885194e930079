SPECIFICATION NotificationsSpec
CONSTANTS
    Reader = relay
    Readers = {relay}
    Parts <- MCParts
    TimeToLive = 0
    MaxTime = 1
    NoLabels = NoLabels
    Odd <- MCOdd
    MaxVersion = 1
INVARIANTS
    ParsedEventsAreTyped
    NotificationsKeepTheirShape
    BlacklistMatchesAreCritical
    NamesAgree
PROPERTIES
    NothingIsHeldBack
CHECK_DEADLOCK FALSE
