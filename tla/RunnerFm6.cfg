CONSTANTS
    ChordNotify = notify
    Duplicate = duplicate
    c1 = c1
    c2 = c2
    c3 = c3
    c4 = c4
    Tasks <- TwoTasks
    Copies <- FourCopies
    TTL = 6
    RetryDelay = 2
    MaxRetries = 2
    DeliveryLimit = 1
    TimeLimited = TRUE
    SoftTime = 3
    RunTime = 4
    MaxLosses = 1
    LossPoints <- AnyPoint
    HeaderTime = 2
    SendTime = 2
    Lag = 0
    Interval = 1
    ClaimTimeout = 4
    ResultTimeout = 6
SPECIFICATION RunnerSpec

INVARIANTS RunnerTypeOK AssertionsHold
PROPERTIES RunnerPasses RunnerEnds
