\* One worker as deployed, two replicas, two uploads, every fault but the
\* late service of a request whose caller gave up.
SPECIFICATION Spec
CONSTANTS
    Ids = {1, 2}
    Plan <- MCPlan
    MaxRenditions = 2
    Null = Null
    Keep = Keep
    Workers = {w1}
    Replicas = {r1, r2}
    Valid = {1, 2}
    Stamps = {0}
    StuckTimeout = 0
    MaxClaims = 1
    Faults <- NonLateFaults
    RecoverySweep = FALSE
SYMMETRY MCSymmetry
INVARIANTS
    TypeOK
    CompletedIsRetrievable
    ErrorOnlyWhenFailed
PROPERTY
    LifecycleSpec
