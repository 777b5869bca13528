SPECIFICATION Spec
CONSTANTS
    None = None
    Nodes = {n, m, group}
    Leaves = {n, m}
    Targets = {s}
    Cooldown = 1
    MaxTicks = 3
    MaxChoices = 1
    MaxPolicies = 0
    MaxCommits = 0
    MaxSessions = 0
INVARIANT
    NewerChoiceStands
CHECK_DEADLOCK FALSE
