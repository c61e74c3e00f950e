\* The emergency sequence of the operations checklist beside one cron cycle.
SPECIFICATION Spec
CONSTANTS
    c1 = c1
    c2 = c2
    t1 = t1
    a1 = a1
    r1 = r1
    r2 = r2
    r3 = r3
    Cron = {c1}
    Chat = {}
    Api = {}
    Request = {r1, r2, r3}
    KindsOf <- EmergencyKinds
    After <- EmergencyOrder
    NoState = NoState
    NoConfig = NoConfig
    StartRecords <- LiveRecords
    ForceSpotLock = FALSE
    Results <- GainOrLoss
    Cap = 2
    DayLength = 2
    MaxTime = 4
    Faults = FALSE
    Crashes = FALSE
INVARIANT
    EmergencyStopHolds
