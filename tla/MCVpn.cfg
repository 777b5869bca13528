SPECIFICATION Spec
CONSTANTS
    None = None
    Torn = Torn
    m1 = m1
    s1 = s1
    s2 = s2
    Unused = Unused
    Bounds <- SmallBounds
INVARIANTS
    TypesOK
    LaneIsRegular
    NoLostWakeup
    EngineOnItsTun
    FlowsAreServed
    DnsIsHonest
PROPERTIES
    TunWorkerIsOwned
    PolicyTellsTheTruth
CHECK_DEADLOCK FALSE
