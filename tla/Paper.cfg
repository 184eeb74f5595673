\* Two bets, a lot, a streak and the artifacts they share; play on two days, taps on five.
SPECIFICATION Spec
CONSTANTS
    LastDay = 4
    LastPlay = 1
    WindowDays = 2
    RecoveryDays = 1
    Sweepers = {t1, t2}
    Markets = {m1, m2}
    Lots = {l1}
    Skins = {s1}
    None = None
    Start = 1
    Stake = 1
    Grant = 2
    FreeGate = 1
    ArtifactGate = 5
    MinStake = 1
    Proposals = {2}
    Profits = {1}
    SwipeCap = 1
    ShardCap = 1
    ShardsPerArtifact = 2
SYMMETRY Symmetry
INVARIANTS
    TypeOK
    CashBooks
    ArtifactBooks
PROPERTIES
    BurnBeforeRestart
    OnlyALateSwipeStrands
CHECK_DEADLOCK FALSE
