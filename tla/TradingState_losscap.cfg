\* Two cron cycles, one after the other.
SPECIFICATION Spec
CONSTANTS
    c1 = c1
    c2 = c2
    t1 = t1
    a1 = a1
    r1 = r1
    r2 = r2
    r3 = r3
    Cron = {c1, c2}
    Chat = {}
    Api = {}
    Request = {}
    KindsOf <- NoCommand
    After <- SerialCycles
    NoState = NoState
    NoConfig = NoConfig
    StartRecords <- RunningRecords
    ForceSpotLock = FALSE
    Results <- GainOrLoss
    Cap = 1
    DayLength = 2
    MaxTime = 3
    Faults = FALSE
    Crashes = FALSE
PROPERTY
    DailyLossCapStops
