\* Somebody calls resetStuckProcessing beside the one deployed worker: what the
\* documents promise of a dead worker then holds, and a slow worker whose record
\* is reset under its hands spoils nothing.
SPECIFICATION FairSpec
CONSTANTS
    Ids = {1, 2}
    Plan <- MCPlan
    MaxRenditions = 2
    Null = Null
    Keep = Keep
    Workers = {w1}
    Replicas = {r1}
    Valid = {1, 2}
    Stamps = {0}
    StuckTimeout = 1
    MaxClaims = 1
    Faults = {"workerCrash", "lostCall"}
    RecoverySweep = TRUE
INVARIANTS
    FinalFilesWhole
    CompletedIsRetrievable
    ErrorOnlyWhenFailed
    RowsConsistent
PROPERTY
    StuckJobRecovered
