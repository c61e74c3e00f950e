\* An eventually consistent store whose operations may reject; workers may die.
SPECIFICATION FairSpec
CONSTANTS
    Scan = {s1, s2}
    NoLock = NoLock
    LeaseTtl = 2
    StoreTtl = 3
    MinStoreTtl = 0
    MaxTime = 5
    LastStart = 2
    StaleReads = TRUE
    Faults = TRUE
    Crashes = TRUE
    Resets = FALSE
INVARIANTS
    NoLockLeftBehind
    DoubleExecutionNeedsExcuse
PROPERTIES
    LiveLockOverwrittenOnlyUnseen
    LapsedLockTurnsNobodyAway
    StrandedLockLapses
