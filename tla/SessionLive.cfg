SPECIFICATION FairSpec
CONSTANTS
    Uis = {u1}
    Exts = {e1}
    u1 = u1
    e1 = e1
    None = None
    MaxAttempts = 2
    MaxIntents = 2
    MaxQueue = 2
    Faults = {"start", "extCrash", "watchdog", "osStop"}
PROPERTIES
    StopTakesDown
    OperationsEnd
CHECK_DEADLOCK FALSE
