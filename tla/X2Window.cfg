\* A streak kept by taps alone: what the x2 bonus of its second window pays.
SPECIFICATION Spec
CONSTANTS
    LastDay = 3
    LastPlay = 0
    WindowDays = 2
    RecoveryDays = 1
    Sweepers = {t1}
    Markets = {m1}
    Lots = {}
    Skins = {}
    None = None
    Start = 2
    Stake = 1
    Grant = 2
    FreeGate = 1
    ArtifactGate = 5
    MinStake = 1
    Proposals = {2}
    Profits = {1}
    SwipeCap = 1
    ShardCap = 1
    ShardsPerArtifact = 2
INVARIANTS
    DoubledOnce
CHECK_DEADLOCK FALSE
