\* Two attempts on two markets race for the last slot of the day.
SPECIFICATION Spec
CONSTANTS
    Attempts = {a1, a2}
    Orders = {o1, o2}
    Markets = {m1, m2}
    Workers = {w1}
    Loci = {"browser", "server"}
    Nameless = TRUE
    SwipeCap = 1
    LastDay = 0
    SignedSize = 2
    MaxMatched = 2
    None = None
SYMMETRY Symmetry
INVARIANTS
    IInv
    DailyCap
    OneBinding
CHECK_DEADLOCK FALSE
