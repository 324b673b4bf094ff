CONSTANTS
    FMs <- ThreeFMs
    Naive = "fm0"
    Classic <- Sharing
    Left = {"fm1"}
SPECIFICATION FairSpec
INVARIANTS TypeOK OneWorker CleanStart ExitIsTrue
PROPERTY Ends
