CONSTANTS
    Setups <- MCSetups
    MaxBody = 1
    MaxAttempts = 2
    Word = 16
    Step = 1
    Ns = 2
    Pause = 1
SPECIFICATION Spec
CHECK_DEADLOCK FALSE
PROPERTY
    BodyIsOneAttempt
