SPECIFICATION Spec
CONSTANTS
    None = None
    Off = Off
    Unfixed = Unfixed
    Failed = Failed
    Other = Other
    Unused = Unused
    Bounds <- SmallBounds
INVARIANTS
    TypesOK
    SettingsHold
    AllAgree
    LogIsFaithful
PROPERTIES
    ConfigIsConsistent
    StoreIsSound
    RulesAreAList
CHECK_DEADLOCK FALSE
