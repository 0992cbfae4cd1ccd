SPECIFICATION FairSpec
CONSTANTS
    a1 = a1
    a2 = a2
    Actors = {a1, a2}
    NoCount <- MCNoCount
    Input = 1
    Partial = 2
    Final = 4
    Hold = 7
    CanCut = TRUE
    MaxCancels = 1
INVARIANTS
    TypeOK
    HoldReleasedOnce
    OnlyFinalCounts
    AmountsAgree
    EvidenceKept
    ClosedIsFinalized
PROPERTY CloseFinalizes
CHECK_DEADLOCK FALSE
