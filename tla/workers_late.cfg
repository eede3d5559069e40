\* Two workers, a valid and an invalid upload, two replicas, and every fault:
\* requests may be served after their caller gave up.
SPECIFICATION Spec
CONSTANTS
    Ids = {1, 2}
    Plan <- MCPlan
    MaxRenditions = 2
    Null = Null
    Keep = Keep
    Workers = {w1, w2}
    Replicas = {r1, r2}
    Valid = {1}
    Stamps = {0}
    StuckTimeout = 0
    MaxClaims = 2
    Faults <- AllFaults
    RecoverySweep = FALSE
SYMMETRY MCSymmetry
INVARIANTS
    ExclusiveProcessing
    OneAttempt
    FinalFilesWhole
    RecordHasOriginal
