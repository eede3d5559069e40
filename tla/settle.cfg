\* A job through every failure but the late service of a request whose caller
\* gave up: what is half done is in somebody's hands, or ended in silence.
SPECIFICATION FairHistorySpec
CONSTANTS
    Ids = {1, 2}
    Plan <- MCShortPlan
    MaxRenditions = 1
    Null = Null
    Keep = Keep
    Workers = {w1}
    Replicas = {r1}
    Valid = {1, 2}
    Stamps = {0}
    StuckTimeout = 0
    MaxClaims = 1
    Faults = {"ioError", "noFrame", "busy", "workerCrash", "backendCrash", "lostCall"}
    RecoverySweep = FALSE
INVARIANTS
    IncompleteMetadataIsTransient
    ProcessingIsUnderWay
PROPERTY
    EveryUploadSettles
