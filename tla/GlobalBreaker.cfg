\* Two monitors beside a cycle; one reset, one rejected operation or lost worker.
SPECIFICATION FairSpec
CONSTANTS
    Monitor = {m1, m2}
    Cycle = {c1}
    Threshold = 3
    MaxResets = 1
    MaxMishaps = 1
INVARIANTS
    TypeOK
    OpenWasEarned
    SuspendedCyclesWereThrough
PROPERTIES
    OpenUndoneNeedsCause
    OutageTrips
