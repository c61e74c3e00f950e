\* The code's 30 s lease and 35 s expirationTtl against a store that refuses
\* less than 60 s; one tick is 5 s.
SPECIFICATION Spec
CONSTANTS
    Scan = {s1, s2}
    NoLock = NoLock
    LeaseTtl = 6
    StoreTtl = 7
    MinStoreTtl = 12
    MaxTime = 3
    LastStart = 3
    StaleReads = FALSE
    Faults = FALSE
    Crashes = FALSE
    Resets = FALSE
SYMMETRY ScanSymmetry
INVARIANT
    DoubleExecutionNeedsCause
