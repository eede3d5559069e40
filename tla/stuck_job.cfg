\* A worker dies in the middle of a job; nothing calls resetStuckProcessing.
SPECIFICATION FairSpec
CONSTANTS
    Ids = {1}
    Plan <- MCPlan
    MaxRenditions = 2
    Null = Null
    Keep = Keep
    Workers = {w1}
    Replicas = {r1, r2}
    Valid = {1}
    Stamps = {0}
    StuckTimeout = 1
    MaxClaims = 1
    Faults = {"workerCrash"}
    RecoverySweep = FALSE
PROPERTY
    StuckJobRecovered
