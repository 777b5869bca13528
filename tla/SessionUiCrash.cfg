SPECIFICATION Spec
CONSTANTS
    Uis = {u1, u2}
    Exts = {e1}
    u1 = u1
    u2 = u2
    e1 = e1
    None = None
    MaxAttempts = 2
    MaxIntents = 2
    MaxQueue = 2
    Faults = {"uiCrash"}
SYMMETRY Symmetry
INVARIANTS
    CleanupMeansDestroyed
CHECK_DEADLOCK FALSE
