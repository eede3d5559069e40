\* One browser, one upload, one worker, two replicas.
SPECIFICATION FairViewsSpec
CONSTANTS
    Ids = {1}
    Plan <- MCShortPlan
    MaxRenditions = 1
    Null = Null
    Keep = Keep
    Workers = {w1}
    Replicas = {r1, r2}
    Valid = {1}
    Stamps = {0}
    StuckTimeout = 0
    MaxClaims = 1
    Faults = {"backendCrash"}
    RecoverySweep = FALSE
INVARIANTS
    ViewsTypeOK
    MetadataIsSnapshot
    PlayableWhileCompleted
PROPERTY
    BadgeCatchesUp
