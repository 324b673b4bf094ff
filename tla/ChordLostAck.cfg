CONSTANTS
    Version = 2
    MaxRetries = 0
    d1 = d1
    d2 = d2
    w1 = w1
    w2 = w2
    Docs <- TwoDocs
    Unknown = unknown
    Schedule <- Healthy
    DeliveryLimit = 1
    Slots <- TwoSlots
    MaxLosses = 1
    MaxTimeouts = 0
    LossPoints <- AckPoint
    Disconnects = FALSE
SPECIFICATION Spec

INVARIANTS FanInComplete
