\* A cron cycle, a telegram scan and commands in any order, on a store that may
\* reject, in invocations that may die.
SPECIFICATION Spec
CONSTANTS
    c1 = c1
    c2 = c2
    t1 = t1
    a1 = a1
    r1 = r1
    r2 = r2
    r3 = r3
    Cron = {c1}
    Chat = {t1}
    Api = {}
    Request = {r1}
    KindsOf <- AnyCommand
    After <- NoneAfter
    NoState = NoState
    NoConfig = NoConfig
    StartRecords <- MixedRecords
    ForceSpotLock = FALSE
    Results <- Loss
    Cap = 1
    DayLength = 2
    MaxTime = 4
    Faults = TRUE
    Crashes = TRUE
INVARIANTS
    TypeOK
    NothingUnasked
PROPERTIES
    OffUndoneOnlyByStaleCopy
    AutoStopUndoneOnlyByStaleCopy
    GuardedSaveKeepsNewerConfig
VIEW LiveView
