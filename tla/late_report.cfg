\* A COMPLETED report is served after the worker gave up on it.
SPECIFICATION Spec
CONSTANTS
    Ids = {1}
    Plan <- MCPlan
    MaxRenditions = 2
    Null = Null
    Keep = Keep
    Workers = {w1}
    Replicas = {r1, r2}
    Valid = {1}
    Stamps = {0}
    StuckTimeout = 1
    MaxClaims = 2
    Faults = {"lostCall", "lateRequest"}
    RecoverySweep = FALSE
INVARIANT
    CompletedIsRetrievable
