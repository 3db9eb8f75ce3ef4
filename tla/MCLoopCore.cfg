CONSTANTS
    plain = plain
    rated = rated
    fresh = fresh
    none  = none
    None  = none
    Requests    <- MCRequests
    Resources   <- MCResources
    Deps        <- MCDeps
    RateLimited = {rated}
    Refreshing  = {fresh}
    OwnRetry    = {rated}
    MaxRetries  <- MCMaxRetries
    Priority    <- MCPriority
    PrepareFails = {plain}
    Outcomes    <- MCOutcomes
    Returns     <- MCReturns
    Publishes   <- MCPublishes
    Declared    = {}
    SignalsFailure = {}
    OnLoopStops = TRUE
    Calls       <- MCCalls
    Window      <- MCWindow
    MaxConcurrent = 1
    MaxDelay    = 1
    Past        <- MCPast
    MetricCap   = 0
    MaxHandles  = 3
SPECIFICATION Spec
INVARIANTS
    TypeOK
    OnePlace
    NoUndefined
    CountersMatch
    ConcurrencyLimit
    CancelHonoured
    CancelsInv
    HandlesInv

PROPERTIES
    CancelledNeverStarts
    ImplementsRequestLife
