SPECIFICATION Spec
CONSTANTS
    Tickets = {t1, t2}
    Cameras = {c1, c2}
    Upgrades = {q1, q2, q3}
    NoRequest = NoRequest
    Lifetime = 2
    MaxPause = 1
    MaxTime = 5
SYMMETRY Symmetry
CHECK_DEADLOCK FALSE
INVARIANTS
    TypeOK
    OneSocketPerTicket
PROPERTIES
    OpensItsCameraInTime
    ForgetsExpiredIds
