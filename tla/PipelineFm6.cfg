CONSTANTS
    Version = 6
    MaxRetries = 1
    d1 = d1
    d2 = d2
    w1 = w1
    w2 = w2
    c1 = c1
    c2 = c2
    c3 = c3
    Docs <- TwoDocs
    Unknown = unknown
    Schedule <- PoisonFlake
    DeliveryLimit = 2
    Slots <- TwoSlots
    MaxLosses = 1
    MaxTimeouts = 0
    LossPoints <- AnyPoint
    Disconnects = TRUE
    NotifyId = notify
    Copies <- ThreeCopies
    TTL = 2
    RetryDelay = 2
    NotifyRetries = 1
    SoftTime = 1
    RunTime = 1
    NotifyLossPoints <- NotifyAnyPoint
SPECIFICATION PipelineSpec
SYMMETRY Symmetry
INVARIANTS EmailsBounded DeliveredOnce
