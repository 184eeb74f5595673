\* Trades of one order reach the index one by one.
SPECIFICATION Spec
CONSTANTS
    Attempts = {a1, a2, a3}
    Workers = {w1}
    Sides = {"YES"}
    Tick = 2
    MaxSize = 2
    Lag = {"trading", "resolved"}
    None = None
SYMMETRY Symmetry
PROPERTIES
    KeepsLotContract
    LotKeepsItsOwn
CHECK_DEADLOCK FALSE
