\* One attempt under fair sweeps and an exchange that answers.
SPECIFICATION FairSpec
CONSTANTS
    Attempts = {a1}
    Orders = {o1}
    Markets = {m1}
    Workers = {w1}
    Loci = {"browser", "server"}
    Nameless = FALSE
    SwipeCap = 1
    LastDay = 0
    SignedSize = 2
    MaxMatched = 2
    None = None
PROPERTIES
    MoneyBooked
    OrphanResolved
CHECK_DEADLOCK FALSE
