\* The answer to a COMPLETED report is lost.
SPECIFICATION Spec
CONSTANTS
    Ids = {1}
    Plan <- MCPlan
    MaxRenditions = 2
    Null = Null
    Keep = Keep
    Workers = {w1}
    Replicas = {r1, r2}
    Valid = {1}
    Stamps = {0}
    StuckTimeout = 1
    MaxClaims = 1
    Faults = {"lostCall"}
    RecoverySweep = FALSE
PROPERTY
    CompletedIsFinal
