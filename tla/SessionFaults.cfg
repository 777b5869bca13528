SPECIFICATION Spec
CONSTANTS
    Uis = {u1}
    Exts = {e1}
    u1 = u1
    e1 = e1
    None = None
    MaxAttempts = 2
    MaxIntents = 3
    MaxQueue = 2
    Faults = {"start", "io", "cleanup", "osStop", "watchdog", "timeout"}
INVARIANTS
    TypeOK
    EngineInsideTun
    OwedCleanupHasRecord
CHECK_DEADLOCK FALSE
