\* Two scans on a reliable lock; workers may die and one operation of the
\* body may be rejected.
SPECIFICATION BodySpec
CONSTANTS
    Scan = {s1, s2}
    NoLock = NoLock
    LeaseTtl = 1
    StoreTtl = 2
    MinStoreTtl = 0
    MaxTime = 1
    LastStart = 1
    StaleReads = FALSE
    Faults = FALSE
    Crashes = TRUE
    Resets = FALSE
    MaxFailures = 3
    FatalFailures = 4
    ResetWindow = 1
    Cooldown = 1
    FatalCooldown = 2
    btc = btc
    p1 = p1
    Symbol = {btc}
    BatchSize = 1
    Position = {p1}
    SymbolOf <- MCSymbolOf
    NoPut = NoPut
    StoredRecords <- MCStoredRecords
    MaxUpsets = 1
    PerpsOff = TRUE
    CachedPrices = TRUE
SYMMETRY ScanSymmetry
VIEW LiveView
INVARIANTS
    BodyTypeOK
    RowsAndBooksAgree
    SettledTwiceNeedsCause
PROPERTIES
    SkippingNeedsFailures
    FailureForgottenNeedsCause
    CooldownCutShortNeedsCause
    LedgerKeepsPromise
