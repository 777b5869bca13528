SPECIFICATION Spec
CONSTANTS
    None = None
    Other = Other
    Unconfirmed = Unconfirmed
    Unused = Unused
    Bounds <- SmallBounds
INVARIANTS
    TypesOK
    ThreeStartsPerDeath
    AppearanceHolds
    ImportsAreOwned
    TaskFollowsVpn
PROPERTIES
    CommandsAreKept
    ProjectionsArrive
    DialogsMatch
CHECK_DEADLOCK FALSE
