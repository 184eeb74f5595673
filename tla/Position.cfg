\* A position entered, sold, re-entered on the other side and settled.
SPECIFICATION Spec
CONSTANTS
    Attempts = {a1, a2, a3}
    Workers = {w1}
    Sides = {"YES", "NO"}
    Tick = 2
    MaxSize = 3
    Lag = {}
    None = None
SYMMETRY Symmetry
INVARIANTS
    PaidWereBurned
PROPERTIES
    OneSidePerLot
CHECK_DEADLOCK FALSE
