CONSTANTS
    Version = 6
    MaxRetries = 1
    d1 = d1
    d2 = d2
    d3 = d3
    d4 = d4
    d5 = d5
    w1 = w1
    w2 = w2
    Docs <- FiveDocs
    Unknown = unknown
    Schedule <- EveryKind
    DeliveryLimit = 2
    Slots <- TwoSlots
    MaxLosses = 0
    MaxTimeouts = 0
    LossPoints <- NoPoint
    Disconnects = FALSE
SPECIFICATION ReportSpec
SYMMETRY SlotSymmetry
INVARIANTS AttemptsAsPredicted OutcomesAsPredicted UndisturbedPasses
