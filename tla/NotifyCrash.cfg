CONSTANTS
    body = body
    dup = dup
    c1 = c1
    c2 = c2
    c3 = c3
    c4 = c4
    Tasks <- OneTask
    Copies <- ThreeCopies
    TTL = 6
    RetryDelay = 1
    MaxRetries = 2
    DeliveryLimit = 2
    TimeLimited = FALSE
    SoftTime = 0
    RunTime = 1
    MaxLosses = 1
    LossPoints <- MarkPoint
SPECIFICATION Spec

INVARIANTS CrashResends
