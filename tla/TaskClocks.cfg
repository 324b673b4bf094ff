CONSTANTS
    Soft = 2
    Hard = 5
    Backstop = 10
    Hang = 8
    MaxStalls = 2
    MaxTasks = 3
SPECIFICATION FairSpec
INVARIANTS TypeOK AlarmIsHandled AlarmIsOwn SlotIsFreed AlarmIsCleared RetryOrPart FailureIsRare
PROPERTY Ends
