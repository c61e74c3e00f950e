\* Two ticks of the scan loop beside a request of the worker; one tick of the
\* clock is half of the shortest time between trades.
SPECIFICATION Spec
CONSTANTS
    Loop = {l1, l2}
    Post = {p1}
    Venue = {mexc}
    NoVenue = NoVenue
    MinGap = 2
    MaxFailures = 2
    ResetWindow = 1
    MaxTime = 4
    Restarts = TRUE
INVARIANTS
    TypeOK
    BooksOnlyLoseByOverlap
    OpenBreakerHadFailures
PROPERTY
    SpacingLostOnlyByOverlap
