CONSTANTS
    Version = 1
    MaxRetries = 0
    d1 = d1
    d2 = d2
    d3 = d3
    d4 = d4
    d5 = d5
    w1 = w1
    w2 = w2
    Docs <- TwoDocs
    Unknown = unknown
    Schedule <- OneFails
    DeliveryLimit = 1
    Slots <- TwoSlots
    MaxLosses = 2
    MaxTimeouts = 0
    LossPoints <- AnyPoint
    Disconnects = FALSE
SPECIFICATION ReportFairSpec
INVARIANTS NoChordError PassedIsReported
PROPERTY Reports
