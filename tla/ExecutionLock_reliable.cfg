\* A consistent store that accepts the record's time-to-live; workers may die.
SPECIFICATION Spec
CONSTANTS
    Scan = {s1, s2, s3}
    NoLock = NoLock
    LeaseTtl = 2
    StoreTtl = 3
    MinStoreTtl = 0
    MaxTime = 4
    LastStart = 3
    StaleReads = FALSE
    Faults = FALSE
    Crashes = TRUE
    Resets = TRUE
SYMMETRY ScanSymmetry
INVARIANTS
    TypeOK
    DoubleExecutionNeedsCause
    NoLockLeftBehind
PROPERTIES
    ForeignDeleteNeedsCause
    LockKeepsPromise
