\* Two passes, or a receipt and a pass, book and correct the same order, read at
\* different times.
SPECIFICATION MoneySpec
CONSTANTS
    Attempts = {a1, a2}
    Workers = {w1, w2}
    Sides = {"YES"}
    Tick = 1
    MaxSize = 3
    Lag = {"trading"}
    None = None
    Prices = {1000}
    FeeRate = 101
    FeeErrors = {50}
    Dollar = 2000
SYMMETRY Symmetry
INVARIANTS
    TypeOK
    NoPhantomShares
    PnlIsCash
CHECK_DEADLOCK FALSE
