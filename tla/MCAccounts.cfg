SPECIFICATION Spec
CONSTANTS
    Names = {n1, n2}
    e1 = e1
    Emails = {e1}
    Addresses = {e1, E1}
    LowerCase <- MCLowerCase
    Requests = {r1, r2}
    None = None
    TTL = 0
    MaxUsers = 2
    MaxUpdates = 1
    MaxCodes = 2
    MaxTime = 1
INVARIANTS
    TypeOK
PROPERTIES
    TokensNameTheirUsers
    ChecksWereTrue
    CodesVerifyOnce
    LatestCodeWorks
SYMMETRY AccountSymmetry
CONSTRAINT MCBound
CHECK_DEADLOCK FALSE
