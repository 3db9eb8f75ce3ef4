CONSTANTS
    plain = plain
    other = other
    none = none
    None = none
    Requests    <- MCRequests
    Resources   <- MCResources
    Deps        <- MCDeps
    RateLimited = {}
    Refreshing  = {}
    OwnRetry    = {}
    MaxRetries  <- MCMaxRetries
    Priority    <- MCPriority
    PrepareFails = {}
    Outcomes    <- MCOutcomes
    Returns     <- MCReturns
    Publishes   <- MCPublishes
    Declared    = {}
    SignalsFailure = {}
    OnLoopStops = FALSE
    Calls       <- MCCalls
    Window      <- MCWindow
    MaxConcurrent = 2
    MaxDelay    = 1
    Past        <- MCPast
    MetricCap   = 0
    MaxHandles  = 2
SPECIFICATION Spec
INVARIANT
    NoUndefined
