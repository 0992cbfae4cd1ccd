SPECIFICATION Spec
CONSTANTS
    w1 = w1
    w2 = w2
    w3 = w3
    f1 = f1
    f2 = f2
    i1 = i1
    i2 = i2
    k1 = k1
    k2 = k2
    None = None
    Absent = Absent
    Writers = {w1, w2}
    Flushers = {f1, f2}
    Intents = {i1, i2}
    Keys = {k1}
    KeyOf <- OneKey
    Foreign = {}
    ClaimTries = 2
    MaxCalls = 1
    MaxCrashes = 1
    MaxAgeings = 1
    PromptSenders = FALSE
SYMMETRY Symmetry
INVARIANTS TypeOK NoLostIntent RemovalIsExact OneFlusher
PROPERTY ImplementsJournal
