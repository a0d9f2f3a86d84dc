CONSTANTS
    None = None
    Tabs = {a, b}
    Migrations = 2
    MaxKeys = 2
    MaxCrashes = 1
    Absolute = 3
    Idle = 2
    MaxIds = 2
    MaxTime = 3
SPECIFICATION Spec
SYMMETRY Symmetry
CHECK_DEADLOCK FALSE
INVARIANTS
    TypeOK
    MigratedOnce
    OneIdentity
    CookieIsNotRevoked
PROPERTIES
    AcceptedIsAlive
