SPECIFICATION Spec
CONSTANTS
    t1 = t1
    t2 = t2
    g1 = g1
    g2 = g2
    None = None
    Tasks = {t1, t2}
    Main = t1
    Calls = {g1, g2}
    Async = {g1}
    Configured = None
    MaxFrames = 3
    MaxScopes = 1
    OrgOpen = TRUE
    MaxFaults = 1
INVARIANTS
    TypeOK
    NestedChargedOnce
    OutcomeKept
CHECK_DEADLOCK FALSE
