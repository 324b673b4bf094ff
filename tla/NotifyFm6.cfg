CONSTANTS
    body = body
    dup = dup
    c1 = c1
    c2 = c2
    c3 = c3
    c4 = c4
    Tasks <- TwoTasks
    Copies <- FourCopies
    TTL = 3
    RetryDelay = 3
    MaxRetries = 1
    DeliveryLimit = 1
    TimeLimited = TRUE
    SoftTime = 1
    RunTime = 2
    MaxLosses = 1
    LossPoints <- AnyPoint
SPECIFICATION FairSpec

INVARIANTS TypeOK MutualExclusion SendsBounded ResultsAreTrue DuplicatesSkip
PROPERTIES SentIsTerminal AllFinish Settles
