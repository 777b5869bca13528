SPECIFICATION FairSpec
CONSTANTS
    None = None
    Other = Other
    Unconfirmed = Unconfirmed
    m1 = m1
    s1 = s1
    s2 = s2
PROPERTIES
    UiOperationsEnd
    UiCatchesUp
    VpnIsRestored
CHECK_DEADLOCK FALSE
