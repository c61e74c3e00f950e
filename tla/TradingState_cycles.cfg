\* Two overlapping cron cycles and an HTTP scan, on a store that may reject, in
\* invocations that may die.
SPECIFICATION Spec
CONSTANTS
    c1 = c1
    c2 = c2
    t1 = t1
    a1 = a1
    r1 = r1
    r2 = r2
    r3 = r3
    Cron = {c1, c2}
    Chat = {}
    Api = {a1}
    Request = {}
    KindsOf <- NoCommand
    After <- NoneAfter
    NoState = NoState
    NoConfig = NoConfig
    StartRecords <- MixedRecords
    ForceSpotLock = FALSE
    Results <- Loss
    Cap = 1
    DayLength = 2
    MaxTime = 3
    Faults = TRUE
    Crashes = TRUE
INVARIANT
    NoTradeBookedTwice
PROPERTY
    AutoStopUndoneOnlyByStaleCopy
VIEW LiveView
