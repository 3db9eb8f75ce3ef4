CONSTANTS
    login = login
    user  = user
    fresh = fresh
    token = token
    key   = key
    none  = none
    None  = none
    Requests    <- MCRequests
    Resources   <- MCResources
    Deps        <- MCDeps
    RateLimited = {}
    Refreshing  = {fresh}
    OwnRetry    = {}
    MaxRetries  <- MCMaxRetries
    Priority    <- MCPriority
    PrepareFails = {}
    Outcomes    <- MCOutcomes
    Returns     <- MCReturns
    Publishes   <- MCPublishes
    Declared    = {token}
    SignalsFailure = {login}
    OnLoopStops = FALSE
    Calls       <- MCCalls
    Window      <- MCWindow
    MaxConcurrent = 2
    MaxDelay    = 1
    Past        <- MCPast
    MetricCap   = 0
    MaxHandles  = 0
SPECIFICATION FairSpec
INVARIANTS
    PlacesInv
    TeardownComplete
PROPERTIES
    Resolved
    StopReturns
    PostsApplied
