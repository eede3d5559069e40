\* No fault at all: the detail is read between the two transactions of a report
\* and cached.
SPECIFICATION FairViewsSpec
CONSTANTS
    Ids = {1}
    Plan <- MCPlan
    MaxRenditions = 2
    Null = Null
    Keep = Keep
    Workers = {w1}
    Replicas = {r1, r2}
    Valid = {1}
    Stamps = {0}
    StuckTimeout = 0
    MaxClaims = 1
    Faults = {}
    RecoverySweep = FALSE
PROPERTY
    CompletedIsViewable
