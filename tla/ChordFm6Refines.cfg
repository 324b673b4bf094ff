CONSTANTS
    Version = 6
    MaxRetries = 1
    d1 = d1
    d2 = d2
    w1 = w1
    w2 = w2
    Docs <- TwoDocs
    Unknown = unknown
    Schedule <- PoisonFlake
    DeliveryLimit = 2
    Slots <- TwoSlots
    MaxLosses = 2
    MaxTimeouts = 1
    LossPoints <- SafePoints
    Disconnects = FALSE
SPECIFICATION FairSpec

INVARIANTS NoChordError FanInComplete
PROPERTIES ImplementsFanIn
