CONSTANTS
    Requests = {urgent}
    High = {urgent}
    Refreshing = {}
    Token = 4
    Second = 2
    Rates = {1}
    BackoffCap = 1
    MaxCalls = 0
    MaxHigh = 2
    Horizon = 0
SPECIFICATION Spec
PROPERTY
    HighServedAtAnyLimit
