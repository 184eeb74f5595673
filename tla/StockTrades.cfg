\* Two trades, sponsored or self-paid, a transfer outside the app, and every pair of handlers.
SPECIFICATION Spec
CONSTANTS
    MaxAttempts = 2
    Validity = 0
    MaxHeight = 2
    MaxBusy = 2
    MaxMoves = 1
    Held = 1
    Refreshers = {r1}
    BuyKinds = {TRUE, FALSE}
INVARIANTS
    NoTokenTwice
    OneSaleUnlessLost
PROPERTIES
    OnlyAStaleReadLoses
    FreshLotsKept
CHECK_DEADLOCK FALSE
