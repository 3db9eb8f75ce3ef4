CONSTANTS
    login = login
    user  = user
    both  = both
    synth = synth
    token = token
    key   = key
    none  = none
    None  = none
    Requests    <- MCRequests
    Resources   <- MCResources
    Deps        <- MCDeps
    RateLimited = {}
    Refreshing  = {}
    OwnRetry    = {}
    MaxRetries  <- MCMaxRetries
    Priority    <- MCPriority
    PrepareFails = {user}
    Outcomes    <- MCOutcomes
    Returns     <- MCReturns
    Publishes   <- MCPublishes
    Declared    = {token, key}
    SignalsFailure = {login}
    OnLoopStops = FALSE
    Calls       <- MCCalls
    Window      <- MCWindow
    MaxConcurrent = 1
    MaxDelay    = 1
    Past        <- MCPast
    MetricCap   = 4
    MaxHandles  = 2
SPECIFICATION Spec
INVARIANTS
    OnePlace
    NoUndefined
    HandlesMatch
    WaitersAreUnpublished
    RefcountExact
    DepsHoldInFlight
    RefsInv
PROPERTY
    ImplementsRequestLife
