SPECIFICATION FairSpec
CONSTANTS
    s1 = s1
    s2 = s2
    e1 = e1
    e2 = e2
    finops = finops
    lens = lens
    None = None
    Sinks = {s1, s2}
    Events = {e1}
    Servers = {finops}
    Ingest <- ToFinOps
    Given <- BothFilled
    Closers = {}
    QueueMax = 1
    BatchMax = 1
    MaxPending = 2
    DiskRows = 9
    MaxAttempts = 2
    MaxCrashes = 1
    PromptPosts = TRUE
PROPERTY SpoolDrains
CHECK_DEADLOCK FALSE
