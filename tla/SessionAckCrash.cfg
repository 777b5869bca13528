SPECIFICATION Spec
CONSTANTS
    Uis = {u1}
    Exts = {e1}
    u1 = u1
    e1 = e1
    None = None
    MaxAttempts = 1
    MaxIntents = 2
    MaxQueue = 2
    Faults = {"extCrash"}
INVARIANTS
    OwedCleanupHasRecord
CHECK_DEADLOCK FALSE
