SPECIFICATION Spec
CONSTANTS
    s1 = s1
    s2 = s2
    e1 = e1
    e2 = e2
    finops = finops
    lens = lens
    None = None
    Sinks = {s1, s2}
    Events = {e1, e2}
    Servers = {finops}
    Ingest <- ToFinOps
    Given <- OneFilled
    Closers = {s1}
    QueueMax = 1
    BatchMax = 2
    MaxPending = 2
    DiskRows = 2
    MaxAttempts = 2
    MaxCrashes = 1
    PromptPosts = FALSE
SYMMETRY Symmetry
INVARIANTS TypeOK ClosedFlushed
PROPERTY RowsLeaveDelivered
CHECK_DEADLOCK FALSE
