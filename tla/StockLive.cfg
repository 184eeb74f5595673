\* One trade of either kind against the contract of trades, under the fairness of the poller.
SPECIFICATION FairSpec
CONSTANTS
    MaxAttempts = 1
    Validity = 0
    MaxHeight = 2
    MaxBusy = 5
    MaxMoves = 1
    Held = 1
    Refreshers = {r1}
    BuyKinds = {TRUE, FALSE}
PROPERTIES
    KeepsTradeContract
    LandedSettled
    BooksMeetWallet
CHECK_DEADLOCK FALSE
