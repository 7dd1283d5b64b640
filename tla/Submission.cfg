CONSTANTS
    Bundles = {b1, b2}
    Endpoints = {e1, e2}
    Workers = {w1}
    None = None
    RestMax = 1
    GrpcMax = 0
    Max <- MCMax
    MaxAge = 0
    Window = 1
SPECIFICATION SubmitSpec
INVARIANTS SentHasLanded CountsAreTrue
PROPERTIES EveryItemSettles OverdueNeverClaims ImplementsPipeline
CHECK_DEADLOCK FALSE
