CONSTANTS
    safe = safe
    critical = critical
    t0 = t0
    Nothing = Nothing
    Codes <- MCOneCode
    CriticalCodes <- MCNoCodes
    TaskContents <- MCTaskContents
    MetadataTracked = TRUE
    MaxAutoFixRounds = 1
    MaxProbes = 1
    MaxEdits = 0
    MaxFaults = 0
SPECIFICATION Spec
INVARIANTS
    PendingDecisionAnswerable
