SPECIFICATION Spec
CONSTANTS
    c1 = c1
    c2 = c2
    Calls = {c1, c2}
    Cap = 2
    PerWindow = 2
    Projections = {1}
    Costs = {0, 1}
    Unknown = Unknown
    OrgOpen = FALSE
    MaxCancels = 1
    MaxFaults = 0
INVARIANT HoldsReleased
CHECK_DEADLOCK FALSE
