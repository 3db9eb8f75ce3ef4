CONSTANTS
    Requests = {urgent, poller}
    High = {urgent}
    Refreshing = {poller}
    Token = 2
    Second = 2
    Rates = {1, 2}
    BackoffCap = 2
    MaxCalls = 3
    MaxHigh = 9
    Horizon = 2
SPECIFICATION Spec
INVARIANTS
    RateLaw
    CurrentNeverOver
PROPERTIES
    StartsAreCounted
    HighServed
    ImplementsBucket
