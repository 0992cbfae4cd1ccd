SPECIFICATION Spec
CONSTANTS
    x1 = x1
    x2 = x2
    c1 = c1
    c2 = c2
    p1 = p1
    t1 = t1
    Contexts = {x1, x2}
    Crews = {c1, c2}
    Threads = {t1}
    Processes = {p1}
    Home <- OneProcess
    MaxRuns = 3
    MaxDetached = 1
    Shared = Shared
    None = None
SYMMETRY Symmetry
INVARIANTS
    TypeOK
    
    OneOutcome
PROPERTY ResumeKeepsOperation
CHECK_DEADLOCK FALSE
