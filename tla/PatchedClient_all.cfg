SPECIFICATION Spec
CONSTANTS
    c1 = c1
    c2 = c2
    t1 = t1
    t2 = t2
    None = None
    Clients = {c1, c2}
    Original = c1
    Tasks = {t1, t2}
    Methods = {"create", "stream", "request"}
    MaxGates = 2
    MaxFrames = 4
SYMMETRY Symmetry
INVARIANTS
    TypeOK
    SpendIsHeld
    ReservedOnce
    ClonesShareBudget
CHECK_DEADLOCK FALSE
