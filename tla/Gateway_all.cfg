SPECIFICATION Spec
CONSTANTS
    d1 = d1
    d2 = d2
    Attempts = {d1, d2}
    Cost = 2
    Guess = 1
    MaxEvidence = 1
    MaxCrashes = 1
SYMMETRY Symmetry
INVARIANTS
    TypeOK
    OutcomeKept
    NeverOnlyInMemory
    TraceKept
    SettledAtReport
PROPERTY ImplementsContract
CHECK_DEADLOCK FALSE
