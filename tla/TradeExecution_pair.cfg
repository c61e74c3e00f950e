\* Exchanges whose every answer arrives, and which may refuse an order.
SPECIFICATION Spec
CONSTANTS
    j0 = j0
    j1 = j1
    j2 = j2
    Job = {j0, j1, j2}
    Main = j0
    Legs = {j1, j2}
    Buyer = j1
    Seller = j2
    MaxSends <- DirectSends
    MaxRetries <- DirectTwice
    MaxPasses <- DirectTwice
    Unsure = FALSE
    Foreign = FALSE
    Crashes = FALSE
INVARIANT
    BookedPairWasTraded
