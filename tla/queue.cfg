\* The claim queue of two records, and what uploads (a third one is refused)
\* leave in originals/, under lost calls, busy writes and crashes of the worker
\* and the backend.
SPECIFICATION FairSpec
CONSTANTS
    Ids = {1, 2, 3}
    Plan <- MCShortPlan
    MaxRenditions = 1
    Null = Null
    Keep = Keep
    Workers = {w1}
    Replicas = {r1}
    Valid = {1, 2}
    Stamps = {0, 1}
    StuckTimeout = 0
    MaxClaims = 1
    Faults = {"busy", "workerCrash", "backendCrash", "lostCall"}
    RecoverySweep = FALSE
INVARIANT
    OnlyAcceptedLeftBehind
PROPERTY
    PendingEventuallyClaimed
