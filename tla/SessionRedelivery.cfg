SPECIFICATION Spec
CONSTANTS
    Uis = {u1}
    Exts = {e1, e2}
    u1 = u1
    e1 = e1
    e2 = e2
    None = None
    MaxAttempts = 1
    MaxIntents = 2
    MaxQueue = 2
    Faults = {"extCrash", "redelivery", "cleanup", "timeout"}
SYMMETRY Symmetry
INVARIANTS
    
    
    CleanupMeansDeleted
PROPERTIES
    TerminalIsFinal
    CleanupIsFinal
    
CHECK_DEADLOCK FALSE
