CONSTANTS
    Requests = {urgent, poller}
    High = {urgent}
    Refreshing = {poller}
    Token = 2
    Second = 2
    Rates = {1}
    BackoffCap = 1
    MaxCalls = 0
    MaxHigh = 2
    Horizon = 0
SPECIFICATION Spec
PROPERTY
    NormalWaitsBehindHigh
