\* A lone job that has two ways, two attempts and two passes for an order, two
\* parallel jobs with a second way or a second attempt; an exchange that may fill an
\* order and not say so, a gateway that may answer in its place, a worker that may die.
SPECIFICATION FairSpec
CONSTANTS
    j0 = j0
    j1 = j1
    j2 = j2
    Job = {j0, j1, j2}
    Main = j0
    Legs = {j1, j2}
    Buyer = j1
    Seller = j2
    MaxSends <- NestedSends
    MaxRetries <- NestedRetries
    MaxPasses <- NestedPasses
    Unsure = TRUE
    Foreign = TRUE
    Crashes = TRUE
INVARIANTS
    TypeOK
    NoOrderFilledTwiceUnlessUnanswered
    OrderFillsAreBounded
    BookedTradeWasMade
PROPERTIES
    HedgeKeepsPromise
    EveryStepUsesUpASend
    EveryTradeEnds
