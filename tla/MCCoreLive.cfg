SPECIFICATION FairSpec
CONSTANTS
    None = None
    Torn = Torn
    Unfixed = Unfixed
    Failed = Failed
PROPERTIES
    CoreOperationsEnd
    CoreCatchesUp
CHECK_DEADLOCK FALSE
