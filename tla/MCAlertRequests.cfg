SPECIFICATION Spec
CONSTANTS
    Alice = Alice
    Oscar = Oscar
    Vera = Vera
    Users = {Alice, Oscar, Vera}
    RoleOf <- MCRoleOf
    Cameras = {gate}
    Requests = {r1, r2}
    Nobody = Nobody
    Tried <- MCTried
    MaxRequests = 2
    MaxChanges = 1
INVARIANTS
    AccessWasHeld
    RefusalsChangeNothing
    OrphansAreExplained
PROPERTIES
    MetadataIsKept
SYMMETRY RequestSymmetry
CHECK_DEADLOCK FALSE
