SPECIFICATION Spec
CONSTANTS
    Requests = {r1, r2}
    r1 = r1
    r2 = r2
    Calls <- MCCalls
    Tokens = {old, new}
    Unreadable = Unreadable
    NoToken = NoToken
    MaxChanges = 2
INVARIANTS
    PerformedAtMostOnce
    AnswersTellTheTruth
    RejectionsAreExplained
PROPERTIES
    RequestsEnd
