SPECIFICATION FairSpec
CONSTANTS
    w1 = w1
    w2 = w2
    w3 = w3
    f1 = f1
    f2 = f2
    i1 = i1
    i2 = i2
    k1 = k1
    k2 = k2
    None = None
    Absent = Absent
    Writers = {w1}
    Flushers = {f1}
    Intents = {i1, i2}
    Keys = {k1, k2}
    KeyOf <- KeyEach
    Foreign = {i2}
    ClaimTries = 2
    MaxCalls = 2
    MaxCrashes = 1
    MaxAgeings = 0
    PromptSenders = FALSE
PROPERTY EventuallySettled
