SPECIFICATION Spec
CONSTANTS
    c1 = c1
    c2 = c2
    Calls = {c1, c2}
    Cap = 2
    PerWindow = 1
    Projections = {1, 2}
    Costs = {0, 3}
    Unknown = Unknown
    OrgOpen = TRUE
    MaxCancels = 1
    MaxFaults = 1
SYMMETRY Symmetry
INVARIANTS
    TypeOK
    CapKept
    HoldsAccounted
    StartedBeforeDispatch
    LocalCoversSettled
PROPERTY ImplementsContract
CHECK_DEADLOCK FALSE
