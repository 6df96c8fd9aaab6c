CONSTANTS
    safe = safe
    critical = critical
    t0 = t0
    Nothing = Nothing
    Codes <- MCOneCode
    CriticalCodes <- MCNoCodes
    TaskContents <- MCTaskContents
    MetadataTracked = FALSE
    MaxAutoFixRounds = 1
    MaxProbes = 1
    MaxEdits = 1
    MaxFaults = 0
SPECIFICATION HSpec
INVARIANTS
    FixReviewedAsHighRisk
