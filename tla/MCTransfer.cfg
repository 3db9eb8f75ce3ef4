CONSTANTS
    Setups <- MCSetups
    MaxBody = 3
    MaxAttempts = 4
    Word = 16
    Step = 1
    Ns = 2
    Pause = 1
SPECIFICATION Spec
CHECK_DEADLOCK FALSE
INVARIANTS
    DownloadBounded
    MissingStoreExplained
    FreedOnce
    ToldOnce
PROPERTIES
    SuccessIsWhole
    RetryPaced
