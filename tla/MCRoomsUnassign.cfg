SPECIFICATION Spec
CONSTANTS
    Alice = Alice
    Oscar = Oscar
    Vera = Vera
    AliceTab = AliceTab
    OscarTab = OscarTab
    VeraTab = VeraTab
    Gate = Gate
    Yard = Yard
    NoCamera = NoCamera
    Users = {Alice, Vera}
    Sockets = {AliceTab, VeraTab}
    Cameras = {Gate}
    RoleOf <- MCRoleOf
    UserOf <- MCUserOf
    CreatorOf <- MCCreatorOf
    MaxEvents = 2
PROPERTY
    AlertsGoToAllowedUsers
CHECK_DEADLOCK FALSE
