CONSTANTS
    Version = 3
    MaxRetries = 0
    d1 = d1
    d2 = d2
    w1 = w1
    w2 = w2
    Docs <- TwoDocs
    Unknown = unknown
    Schedule <- Healthy
    DeliveryLimit = 3
    Slots <- TwoSlots
    MaxLosses = 3
    MaxTimeouts = 0
    LossPoints <- SafePoints
    Disconnects = FALSE
SPECIFICATION Spec

INVARIANTS RestsDelivered
