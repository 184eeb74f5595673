\* One attempt under three concurrent passes, a foreign order id and midnight.
SPECIFICATION Spec
CONSTANTS
    Attempts = {a1}
    Orders = {o1, o2}
    Markets = {m1}
    Workers = {w1, w2, w3}
    Loci = {"browser", "server"}
    Nameless = TRUE
    SwipeCap = 1
    LastDay = 1
    SignedSize = 2
    MaxMatched = 2
    None = None
SYMMETRY Symmetry
INVARIANTS
    SlotAccounting
    NoMoneyLost
    NeverOverbooked
    FinalIsComplete
    ReportedNeverKilled
    LabelMatchesLedger
PROPERTIES
    DecisionsStand
    KeepsContract
CHECK_DEADLOCK FALSE
